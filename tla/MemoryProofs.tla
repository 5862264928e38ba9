------------------------------ MODULE MemoryProofs ------------------------------
(***************************************************************************)
(* The two memory managers, for heaps of any size and requests of any      *)
(* size: each implements the promise of memoryManager.h.                   *)
(*                                                                         *)
(* The bitmap spells the blocks that are out.  blocksUsed and current play *)
(* no part in that argument: they decide which group is taken and whether, *)
(* never whether it is free.  That they overlook no room needs them exact  *)
(* (RoomInv).                                                              *)
(*                                                                         *)
(* The buddy manager's blocks tile the heap (Sound).  Headers left over    *)
(* inside a block are the danger: getBuddy() may point to one.  A buddy    *)
(* above a block is where the next block starts, so it is none of them.  A *)
(* buddy below lies at an even place, and a leftover that still looks free *)
(* lies at an odd one (StaleAreUpper).  Each step of a split and of a merge*)
(* keeps the memory sound, and by induction so does the whole.             *)
(***************************************************************************)
EXTENDS BitmapAllocator, BuddyAllocator, FiniteSetTheorems, WellFoundedInduction, TLAPS

BlockRange(b) == b.at .. b.at + b.size - 1

BlocksOK ==
  /\ given \subseteq [at : Block, size : Asked, asked : Asked]
  /\ \A b \in given : b.size = b.asked /\ b.at + b.size <= blockQty

BlocksDisjoint == \A b, c \in given : b # c => BlockRange(b) \cap BlockRange(c) = {}

IInv == bitmap \in [Block -> Cell] /\ BlocksOK /\ BlocksDisjoint /\ MarksMatchBlocks

(* A candidate is the start of a group of free blocks inside the heap.      *)
LEMMA CandidateIsFree ==
  ASSUME NEW n \in Asked, NEW i \in Candidates(n), current \in Nat
  PROVE  i \in Block /\ i + n <= blockQty /\ \A k \in i .. i + n - 1 : Free(k)
<1>1. n \in Nat /\ n > 0 /\ blockQty \in Nat
  BY BitmapAssumption
<1>2. PICK start \in Nat : i \in findFreeBlocks(n, start, blockQty)
  <2>1. CASE i \in findFreeBlocks(n, current, blockQty)
    BY <2>1
  <2>2. CASE i \in findFreeBlocks(n, 0, blockQty)
    BY <2>2
  <2> QED BY <2>1, <2>2 DEF Candidates
<1> QED BY <1>1, <1>2 DEF findFreeBlocks, Fits, Block

LEMMA GroupInHeap ==
  ASSUME NEW i \in Block, NEW n \in Asked, i + n <= blockQty
  PROVE  i \in Nat /\ n \in Nat /\ n > 0 /\ i .. i + n - 1 \subseteq Block
<1>1. i \in Nat /\ n \in Nat /\ n > 0 /\ blockQty \in Nat
  BY BitmapAssumption DEF Block
<1>2. ASSUME NEW k \in i .. i + n - 1 PROVE k \in Block
  BY <1>1, <1>2 DEF Block
<1> QED BY <1>1, <1>2

LEMMA InitInv == Init => IInv
BY DEF Init, IInv, BlocksOK, BlocksDisjoint, MarksMatchBlocks, Free, Cell

(* An allocation marks a group that no block that is out meets.             *)
LEMMA AllocInv ==
  ASSUME IInv, current \in Nat, AllocMemory
  PROVE  IInv' /\ Promise!Alloc /\ current' \in Nat
<1>0. PICK n \in Asked : \E i \in Candidates(n) :
        /\ bitmap' = [k \in Block |-> IF k \in i .. i + n - 1 THEN cellOf(k, i, n) ELSE bitmap[k]]
        /\ current' = i + n
        /\ given' = given \cup {[at |-> i, size |-> n, asked |-> n]}
  BY DEF AllocMemory
<1>1. PICK i \in Candidates(n) :
        /\ bitmap' = [k \in Block |-> IF k \in i .. i + n - 1 THEN cellOf(k, i, n) ELSE bitmap[k]]
        /\ current' = i + n
        /\ given' = given \cup {[at |-> i, size |-> n, asked |-> n]}
  BY <1>0
<1> DEFINE new == [at |-> i, size |-> n, asked |-> n]
<1>2. n \in Nat /\ n > 0 /\ blockQty \in Nat
  BY BitmapAssumption
<1>3. i \in Block /\ i + n <= blockQty /\ \A k \in i .. i + n - 1 : Free(k)
  BY CandidateIsFree
<1>4. i \in Nat /\ i .. i + n - 1 \subseteq Block
  BY <1>3, GroupInHeap
<1>5. \A b \in given : /\ b.at \in Nat /\ b.size \in Nat /\ b.size > 0
                       /\ BlockRange(b) \subseteq Block
                       /\ BlockRange(b) \cap (i .. i + n - 1) = {}
  <2> SUFFICES ASSUME NEW b \in given
               PROVE  /\ b.at \in Nat /\ b.size \in Nat /\ b.size > 0
                      /\ BlockRange(b) \subseteq Block
                      /\ BlockRange(b) \cap (i .. i + n - 1) = {}
    OBVIOUS
  <2>1. b.at \in Block /\ b.size \in Asked /\ b.at + b.size <= blockQty
    BY DEF IInv, BlocksOK
  <2>2. b.at \in Nat /\ b.size \in Nat /\ b.size > 0 /\ BlockRange(b) \subseteq Block
    BY <2>1, GroupInHeap DEF BlockRange
  <2>3. \A k \in Block : Free(k) => k \notin BlockRange(b)
    BY DEF IInv, MarksMatchBlocks, BlockRange
  <2> QED BY <2>2, <2>3, <1>3, <1>4
<1>6. new \in [at : Block, size : Asked, asked : Asked] /\ new.at = i /\ new.size = n /\ new.asked = n
  BY <1>3
<1>7. BlockRange(new) = i .. i + n - 1
  BY DEF BlockRange
<1>8. bitmap' \in [Block -> Cell]
  <2>1. \A k \in Block : cellOf(k, i, n) \in Cell
    BY DEF cellOf, Cell
  <2> QED BY <1>1, <2>1 DEF IInv
<1>9. BlocksOK'
  BY <1>1, <1>3, <1>6 DEF IInv, BlocksOK
<1>10. BlocksDisjoint'
  BY <1>1, <1>5, <1>7 DEF IInv, BlocksDisjoint, BlockRange
<1>11. MarksMatchBlocks'
  <2>1. ASSUME NEW b \in given', NEW k \in BlockRange(b)
        PROVE  bitmap'[k] = cellOf(k, b.at, b.size)
    <3>1. CASE b = new
      BY <3>1, <2>1, <1>1, <1>4, <1>7, <1>6
    <3>2. CASE b \in given
      <4>1. k \in Block /\ k \notin i .. i + n - 1
        BY <3>2, <2>1, <1>5
      <4>2. bitmap[k] = cellOf(k, b.at, b.size)
        BY <3>2, <2>1 DEF IInv, MarksMatchBlocks, BlockRange
      <4> QED BY <4>1, <4>2, <1>1
    <3> QED BY <3>1, <3>2, <1>1, <2>1
  <2>2. ASSUME NEW k \in Block
        PROVE  Free(k)' <=> \A b \in given' : k \notin BlockRange(b)
    <3>1. CASE k \in i .. i + n - 1
      <4>1. bitmap'[k] # "FREE"
        BY <3>1, <1>1 DEF cellOf
      <4>2. new \in given' /\ k \in BlockRange(new)
        BY <3>1, <1>1, <1>7
      <4> QED BY <4>1, <4>2 DEF Free
    <3>2. CASE k \notin i .. i + n - 1
      <4>1. bitmap'[k] = bitmap[k]
        BY <3>2, <1>1
      <4>2. Free(k) <=> \A b \in given : k \notin BlockRange(b)
        BY DEF IInv, MarksMatchBlocks, BlockRange
      <4> QED BY <3>2, <4>1, <4>2, <1>1, <1>7 DEF Free
    <3> QED BY <3>1, <3>2
  <2> QED BY <2>1, <2>2 DEF MarksMatchBlocks, BlockRange
<1>12. Promise!Alloc
  <2>1. n <= new.size /\ Promise!Extent(new) \subseteq Block
    BY <1>2, <1>4, <1>7 DEF Promise!Extent, BlockRange
  <2>2. \A c \in given : Promise!Extent(new) \cap Promise!Extent(c) = {}
    BY <1>5, <1>7 DEF Promise!Extent, BlockRange
  <2>3. new \in given' /\ new.asked \in Asked /\ new.size \in Asked
    BY <1>1, <1>7
  <2> QED BY <2>1, <2>2, <2>3, <1>1, <1>7 DEF Promise!Alloc
<1> QED BY <1>1, <1>2, <1>4, <1>8, <1>9, <1>10, <1>11, <1>12 DEF IInv

LEMMA GivenBlocks ==
  ASSUME IInv, NEW b \in given
  PROVE  /\ b.at \in Nat /\ b.size \in Nat /\ b.size > 0
         /\ BlockRange(b) \subseteq Block
         /\ \A k \in BlockRange(b) : bitmap[k] = cellOf(k, b.at, b.size)
<1>1. b.at \in Block /\ b.size \in Asked /\ b.at + b.size <= blockQty
  BY DEF IInv, BlocksOK
<1>2. b.at \in Nat /\ b.size \in Nat /\ b.size > 0 /\ BlockRange(b) \subseteq Block
  BY <1>1, GroupInHeap DEF BlockRange
<1> QED BY <1>2 DEF IInv, MarksMatchBlocks, BlockRange

(* freeMemory() walks over the cells of one block that is out, all of them  *)
(* and no more.                                                             *)
LEMMA GroupIsBlock ==
  ASSUME IInv, NEW i \in Block, bitmap[i] \in {"SINGLE_BLOCK", "START_BOUNDARY"}
  PROVE  \E b \in given : b.at = i /\ i \in BlockRange(b) /\ GroupAt(i) = BlockRange(b)
<1>2. blockQty \in Nat
  BY BitmapAssumption
<1>3. \A b \in given : /\ b.at \in Nat /\ b.size \in Nat /\ b.size > 0
                       /\ BlockRange(b) \subseteq Block
                       /\ \A k \in BlockRange(b) : bitmap[k] = cellOf(k, b.at, b.size)
  BY GivenBlocks
<1>4. PICK b \in given : i \in BlockRange(b)
  BY DEF IInv, MarksMatchBlocks, Free, BlockRange
<1>5. b.at = i
  BY <1>3, <1>4 DEF cellOf, BlockRange
<1>6. GroupAt(i) = BlockRange(b)
  <2>1. CASE b.size = 1
    BY <2>1, <1>3, <1>4, <1>5 DEF GroupAt, cellOf, BlockRange
  <2>2. CASE b.size # 1
    <3> DEFINE last == i + b.size - 1
    <3>1. last \in Block /\ last >= i /\ bitmap[last] = "END_BOUNDARY" /\ bitmap[i] = "START_BOUNDARY"
      BY <2>2, <1>3, <1>4, <1>5 DEF cellOf, BlockRange
    <3>2. \A j \in i .. last - 1 : bitmap[j] # "END_BOUNDARY"
      BY <2>2, <1>3, <1>4, <1>5 DEF cellOf, BlockRange
    <3>3. i \in Nat /\ last \in Nat /\ BlockRange(b) = i .. last
      BY <1>3, <1>5 DEF BlockRange
    <3>4. GroupAt(i) = {k \in Block : k >= i /\ \A j \in i .. k - 1 : bitmap[j] # "END_BOUNDARY"}
      BY <3>1 DEF GroupAt
    <3>5. ASSUME NEW k \in GroupAt(i) PROVE k \in i .. last
      <4>1. k \in Nat /\ k >= i /\ \A j \in i .. k - 1 : bitmap[j] # "END_BOUNDARY"
        BY <3>4, <1>2 DEF Block
      <4> QED BY <4>1, <3>1, <3>3
    <3>6. ASSUME NEW k \in i .. last PROVE k \in GroupAt(i)
      <4>1. k \in Block
        BY <3>3, <1>3
      <4>2. \A j \in i .. k - 1 : j \in i .. last - 1
        BY <3>3
      <4> QED BY <4>1, <4>2, <3>2, <3>3, <3>4
    <3> QED BY <3>3, <3>5, <3>6
  <2> QED BY <2>1, <2>2
<1> QED BY <1>4, <1>5, <1>6

(* A free frees the cells of one block that is out, all of them and no more.*)
LEMMA FreeInv ==
  ASSUME IInv, FreeMemory
  PROVE  IInv' /\ Promise!Free
<1>1. PICK i \in Block :
        /\ bitmap[i] \in {"SINGLE_BLOCK", "START_BOUNDARY"}
        /\ bitmap' = [k \in Block |-> IF k \in GroupAt(i) THEN "FREE" ELSE bitmap[k]]
        /\ given' = {b \in given : b.at # i}
  BY DEF FreeMemory
<1>3. \A c \in given : /\ c.at \in Nat /\ c.size \in Nat /\ c.size > 0
                       /\ BlockRange(c) \subseteq Block
                       /\ \A k \in BlockRange(c) : bitmap[k] = cellOf(k, c.at, c.size)
  BY GivenBlocks
<1>4. PICK b \in given : b.at = i /\ i \in BlockRange(b) /\ GroupAt(i) = BlockRange(b)
  BY <1>1, GroupIsBlock
<1>5. b.at = i
  BY <1>4
<1>6. GroupAt(i) = BlockRange(b)
  BY <1>4
<1>7. given' = given \ {b}
  <2>1. \A c \in given : c # b => c.at # i
    <3> SUFFICES ASSUME NEW c \in given, c # b, c.at = i
                 PROVE  FALSE
      OBVIOUS
    <3>1. i \in BlockRange(c)
      BY <1>3 DEF BlockRange
    <3> QED BY <3>1, <1>4 DEF IInv, BlocksDisjoint
  <2> QED BY <2>1, <1>1, <1>5
<1>8. bitmap' \in [Block -> Cell] /\ BlocksOK' /\ BlocksDisjoint'
  <2>1. bitmap' \in [Block -> Cell]
    BY <1>1 DEF IInv, Cell
  <2> QED BY <2>1, <1>7 DEF IInv, BlocksOK, BlocksDisjoint, BlockRange
<1>9. MarksMatchBlocks'
  <2>1. ASSUME NEW c \in given', NEW k \in BlockRange(c)
        PROVE  bitmap'[k] = cellOf(k, c.at, c.size)
    <3>1. c \in given /\ k \in Block /\ k \notin BlockRange(b)
      BY <2>1, <1>3, <1>7 DEF IInv, BlocksDisjoint
    <3> QED BY <3>1, <1>1, <1>3, <1>6
  <2>2. ASSUME NEW k \in Block
        PROVE  Free(k)' <=> \A c \in given' : k \notin BlockRange(c)
    <3>1. Free(k) <=> \A c \in given : k \notin BlockRange(c)
      BY DEF IInv, MarksMatchBlocks, BlockRange
    <3>2. CASE k \in BlockRange(b)
      <4>1. bitmap'[k] = "FREE"
        BY <3>2, <1>1, <1>6
      <4>2. \A c \in given' : k \notin BlockRange(c)
        BY <3>2, <1>7 DEF IInv, BlocksDisjoint
      <4> QED BY <4>1, <4>2 DEF Free
    <3>3. CASE k \notin BlockRange(b)
      <4>1. bitmap'[k] = bitmap[k]
        BY <3>3, <1>1, <1>6
      <4> QED BY <3>1, <3>3, <4>1, <1>7 DEF Free
    <3> QED BY <3>2, <3>3
  <2> QED BY <2>1, <2>2 DEF MarksMatchBlocks, BlockRange
<1>10. Promise!Free
  BY <1>7 DEF Promise!Free
<1> QED BY <1>8, <1>9, <1>10 DEF IInv

LEMMA StepInv ==
  ASSUME IInv, current \in Nat, [Next]_vars
  PROVE  IInv' /\ current' \in Nat /\ [Promise!Alloc \/ Promise!Free]_given
<1>1. CASE AllocMemory
  BY <1>1, AllocInv
<1>2. CASE FreeMemory
  <2>1. current' = current
    BY <1>2 DEF FreeMemory
  <2> QED BY <1>2, <2>1, FreeInv
<1>3. CASE UNCHANGED vars
  BY <1>3 DEF vars, IInv, BlocksOK, BlocksDisjoint, MarksMatchBlocks, BlockRange, Free
<1> QED BY <1>1, <1>2, <1>3 DEF Next

-----------------------------------------------------------------------------
(* blocksUsed counts the cells that are not free, and the searches begin    *)
(* inside the heap.                                                         *)
Used == {k \in Block : ~Free(k)}

RoomInv ==
  /\ IInv
  /\ current \in 0 .. blockQty
  /\ blocksUsed = Cardinality(Used)

LEMMA BlockFacts ==
  /\ IsFiniteSet(Block) /\ Cardinality(Block) = blockQty /\ blockQty \in Nat
  /\ IsFiniteSet(Used) /\ Cardinality(Used) \in Nat
  /\ IsFiniteSet(Used') /\ Cardinality(Used') \in Nat
<1>1. blockQty \in Nat /\ 0 \in Int /\ blockQty - 1 \in Int /\ ~(0 > blockQty - 1)
      /\ (blockQty - 1) - 0 + 1 = blockQty
  BY BitmapAssumption
<1>2. IsFiniteSet(Block) /\ Cardinality(Block) = blockQty
  BY <1>1, FS_Interval DEF Block
<1>3. Used \subseteq Block /\ Used' \subseteq Block
  BY DEF Used
<1> QED BY <1>1, <1>2, <1>3, FS_Subset, FS_CardinalityType

(* A group of n blocks has n blocks. *)
LEMMA GroupSize ==
  ASSUME NEW i \in Nat, NEW n \in Nat \ {0}
  PROVE  IsFiniteSet(i .. i + n - 1) /\ Cardinality(i .. i + n - 1) = n
<1>1. i \in Int /\ i + n - 1 \in Int /\ ~(i > i + n - 1) /\ (i + n - 1) - i + 1 = n
  OBVIOUS
<1> QED BY <1>1, FS_Interval

(* Two sets with nothing in common. *)
LEMMA Together ==
  ASSUME NEW S, NEW T, IsFiniteSet(S), IsFiniteSet(T), S \cap T = {}
  PROVE  IsFiniteSet(S \cup T) /\ Cardinality(S \cup T) = Cardinality(S) + Cardinality(T)
<1>1. Cardinality(S) \in Nat /\ Cardinality(T) \in Nat
  BY FS_CardinalityType
<1>2. Cardinality(S \cap T) = 0
  BY FS_EmptySet
<1>3. IsFiniteSet(S \cup T)
  BY FS_Union
<1>4. Cardinality(S \cup T) = Cardinality(S) + Cardinality(T) - Cardinality(S \cap T)
  BY FS_Union
<1> QED BY <1>1, <1>2, <1>3, <1>4

LEMMA AllocRoom ==
  ASSUME RoomInv, AllocMemory
  PROVE  current' \in 0 .. blockQty /\ blocksUsed' = Cardinality(Used')
<1>1. PICK n \in Asked : \E i \in Candidates(n) :
        /\ bitmap' = [k \in Block |-> IF k \in i .. i + n - 1 THEN cellOf(k, i, n) ELSE bitmap[k]]
        /\ current' = i + n
        /\ blocksUsed' = blocksUsed + n
  BY DEF AllocMemory, usedBy
<1>2. PICK i \in Candidates(n) :
        /\ bitmap' = [k \in Block |-> IF k \in i .. i + n - 1 THEN cellOf(k, i, n) ELSE bitmap[k]]
        /\ current' = i + n
        /\ blocksUsed' = blocksUsed + n
  BY <1>1
<1>3. current \in Nat /\ blockQty \in Nat /\ n \in Nat \ {0}
  BY BitmapAssumption DEF RoomInv
<1>4. i \in Block /\ i + n <= blockQty /\ \A k \in i .. i + n - 1 : Free(k)
  BY <1>3, CandidateIsFree
<1>5. i \in Nat /\ i .. i + n - 1 \subseteq Block
  BY <1>4, GroupInHeap
<1>6. Used' = Used \cup (i .. i + n - 1) /\ Used \cap (i .. i + n - 1) = {}
  <2>1. \A k \in Block : cellOf(k, i, n) # "FREE"
    BY DEF cellOf
  <2> QED BY <1>2, <1>4, <1>5, <2>1 DEF Used, Free
<1>7. Cardinality(Used') = Cardinality(Used) + n
  <2>1. IsFiniteSet(i .. i + n - 1) /\ Cardinality(i .. i + n - 1) = n
    BY <1>3, <1>5, GroupSize
  <2>2. IsFiniteSet(Used)
    BY BlockFacts
  <2>3. Cardinality(Used \cup (i .. i + n - 1)) = Cardinality(Used) + Cardinality(i .. i + n - 1)
    BY <1>6, <2>1, <2>2, Together
  <2> QED BY <1>6, <2>1, <2>3
<1>8. i + n \in 0 .. blockQty
  BY <1>3, <1>4, <1>5
<1> QED BY <1>2, <1>7, <1>8 DEF RoomInv

LEMMA FreeRoom ==
  ASSUME RoomInv, FreeMemory
  PROVE  current' \in 0 .. blockQty /\ blocksUsed' = Cardinality(Used')
<1>1. PICK i \in Block :
        /\ bitmap[i] \in {"SINGLE_BLOCK", "START_BOUNDARY"}
        /\ bitmap' = [k \in Block |-> IF k \in GroupAt(i) THEN "FREE" ELSE bitmap[k]]
        /\ blocksUsed' = blocksUsed - Cardinality(GroupAt(i))
        /\ current' = current
  BY DEF FreeMemory
<1>2. PICK b \in given : GroupAt(i) = BlockRange(b)
  BY <1>1, GroupIsBlock DEF RoomInv
<1>3. GroupAt(i) \subseteq Used
  <2>1. BlockRange(b) \subseteq Block /\ \A k \in BlockRange(b) : bitmap[k] # "FREE"
    BY GivenBlocks DEF RoomInv, cellOf
  <2> QED BY <1>2, <2>1 DEF Used, Free
<1>4. Used = Used' \cup GroupAt(i) /\ Used' \cap GroupAt(i) = {}
  BY <1>1, <1>3 DEF Used, Free
<1>5. IsFiniteSet(GroupAt(i)) /\ Cardinality(GroupAt(i)) \in Nat
  BY <1>3, BlockFacts, FS_Subset, FS_CardinalityType
<1>6. Cardinality(Used) = Cardinality(Used') + Cardinality(GroupAt(i))
  BY <1>4, <1>5, BlockFacts, Together
<1> QED BY <1>1, <1>5, <1>6, BlockFacts DEF RoomInv

LEMMA StepRoom ==
  ASSUME RoomInv, [Next]_vars
  PROVE  RoomInv'
<1>1. current \in Nat /\ IInv
  BY BitmapAssumption DEF RoomInv
<1>2. IInv'
  BY <1>1, StepInv
<1>3. CASE UNCHANGED vars
  BY <1>2, <1>3 DEF vars, RoomInv, Used, Free
<1> QED BY <1>2, <1>3, AllocRoom, FreeRoom DEF Next, RoomInv

(* With n blocks free in a row at most blockQty - n are used, and the search*)
(* from the beginning meets them.                                           *)
LEMMA RoomImplies == RoomInv => RoomIsFound
<1> SUFFICES ASSUME RoomInv, NEW n \in Asked
             PROVE  (\E i \in Block : Fits(n, i, blockQty)) <=> MayFit(n) /\ Candidates(n) # {}
  BY DEF RoomIsFound
<1>1. current \in Nat /\ blockQty \in Nat /\ n \in Nat \ {0} /\ blocksUsed \in Nat
  BY BitmapAssumption, BlockFacts DEF RoomInv
<1>2. ASSUME NEW i \in Block, Fits(n, i, blockQty)
      PROVE  MayFit(n) /\ Candidates(n) # {}
  <2>1. i \in Nat /\ i .. i + n - 1 \subseteq Block /\ i + n <= blockQty
    BY <1>2, GroupInHeap DEF Fits
  <2>2. Used \cap (i .. i + n - 1) = {} /\ Used \cup (i .. i + n - 1) \subseteq Block
    BY <1>2, <2>1 DEF Used, Fits
  <2>3. Cardinality(Used \cup (i .. i + n - 1)) = blocksUsed + n
    <3>1. IsFiniteSet(i .. i + n - 1) /\ Cardinality(i .. i + n - 1) = n
      BY <1>1, <2>1, GroupSize
    <3>2. IsFiniteSet(Used)
      BY BlockFacts
    <3>3. Cardinality(Used \cup (i .. i + n - 1)) = Cardinality(Used) + Cardinality(i .. i + n - 1)
      BY <2>2, <3>1, <3>2, Together
    <3> QED BY <3>1, <3>3 DEF RoomInv
  <2>4. Cardinality(Used \cup (i .. i + n - 1)) <= blockQty
    BY <2>2, BlockFacts, FS_Subset
  <2>5. MayFit(n)
    BY <1>1, <2>3, <2>4 DEF MayFit
  <2>6. i \in findFreeBlocks(n, 0, blockQty)
    BY <1>2 DEF findFreeBlocks, Block
  <2> QED BY <2>5, <2>6 DEF Candidates
<1>3. ASSUME Candidates(n) # {}
      PROVE  \E i \in Block : Fits(n, i, blockQty)
  <2>1. PICK i \in Candidates(n) : TRUE
    BY <1>3
  <2>2. i \in Block /\ i + n <= blockQty /\ \A k \in i .. i + n - 1 : Free(k)
    BY <1>1, CandidateIsFree
  <2> QED BY <2>2 DEF Fits
<1> QED BY <1>2, <1>3

(* For every heap and every mix of requests, the marks of the bitmap are    *)
(* those of the blocks that callers own, so that freeMemory() ends at the   *)
(* end of its own group.                                                    *)
THEOREM BitmapIsExact == Spec => []MarksMatchBlocks
<1>1. Init => IInv /\ current \in Nat
  BY InitInv DEF Init
<1>2. IInv /\ current \in Nat /\ [Next]_vars => (IInv /\ current \in Nat)'
  BY StepInv
<1>3. IInv => MarksMatchBlocks
  BY DEF IInv
<1> QED BY <1>1, <1>2, <1>3, PTL DEF Spec

(* For every heap and every mix of requests, what is handed out lies inside *)
(* the heap, is long enough and overlaps nothing else that is out.          *)
THEOREM BitmapKeepsThePromise == Spec => ImplementsAllocator
<1>1. Init => IInv /\ current \in Nat /\ Promise!NothingAllocated
  BY InitInv DEF Init, Promise!NothingAllocated
<1>2. IInv /\ current \in Nat /\ [Next]_vars
        => (IInv /\ current \in Nat)' /\ [Promise!Alloc \/ Promise!Free]_given
  BY StepInv
<1> QED BY <1>1, <1>2, PTL DEF Spec, ImplementsAllocator, Promise!AllocatorSpec

(* For every heap and every mix of requests, allocMemory() refuses a request*)
(* only when no group of free blocks is long enough: the count that may     *)
(* refuse it at once is exact, and the next-fit search misses nothing.      *)
THEOREM NoRoomIsOverlooked == Spec => []RoomIsFound
<1>1. Init => RoomInv
  <2>1. Init => Used = {} /\ current \in 0 .. blockQty /\ blocksUsed = 0
    BY BitmapAssumption DEF Init, Used, Free
  <2> QED BY <2>1, InitInv, FS_EmptySet DEF RoomInv
<1>2. RoomInv /\ [Next]_vars => RoomInv'
  BY StepRoom
<1> QED BY <1>1, <1>2, RoomImplies, PTL DEF Spec

-----------------------------------------------------------------------------
(* Powers of two.  Pow2 is recursive: what follows is by induction.         *)
LEMMA AllNaturals ==
  ASSUME NEW S, 0 \in S, \A n \in Nat : n \in S => n + 1 \in S
  PROVE  Nat \subseteq S
<1> SUFFICES ASSUME Nat \ S # {}
             PROVE  FALSE
  OBVIOUS
<1>1. IsWellFoundedOn(OpToRel(<, Nat), Nat)
  BY NatLessThanWellFounded
<1>2. PICK m \in Nat \ S : \A k \in Nat \ S : ~(<<k, m>> \in OpToRel(<, Nat))
  BY <1>1, WFMin
<1>3. \A k \in Nat \ S : ~(k < m)
  BY <1>2 DEF OpToRel
<1>4. m - 1 \in Nat /\ m - 1 < m
  OBVIOUS
<1>5. m - 1 \in S
  BY <1>3, <1>4
<1> QED
  BY <1>4, <1>5

PowerStep(it, n) == IF n = 0 THEN 1 ELSE 2 * it[n - 1]
PowersUpTo(it, n) == it = [k \in Nat |-> it[k]] /\ \A k \in 0 .. n : it[k] = PowerStep(it, k)

LEMMA PowersAgree ==
  ASSUME NEW n \in Nat, NEW it, NEW jt, PowersUpTo(it, n), PowersUpTo(jt, n)
  PROVE  \A k \in 0 .. n : it[k] = jt[k]
<1> DEFINE A == {k \in Nat : k <= n => it[k] = jt[k]}
<1>1. 0 \in A
  BY DEF PowersUpTo, PowerStep
<1>2. ASSUME NEW k \in Nat, k \in A PROVE k + 1 \in A
  <2>1. CASE k + 1 <= n
    <3>1. it[k] = jt[k] /\ k + 1 \in 0 .. n /\ (k + 1) - 1 = k /\ k + 1 # 0
      BY <1>2, <2>1
    <3>2. it[k + 1] = 2 * it[k] /\ jt[k + 1] = 2 * jt[k]
      BY <3>1 DEF PowersUpTo, PowerStep
    <3> QED
      BY <3>1, <3>2
  <2> QED
    BY <2>1
<1> HIDE DEF A
<1>3. Nat \subseteq A
  BY <1>1, <1>2, AllNaturals
<1> QED
  BY <1>3 DEF A

LEMMA PowersReach ==
  ASSUME NEW n \in Nat
  PROVE  \E it : PowersUpTo(it, n)
<1> DEFINE N == {k \in Nat : \E it : PowersUpTo(it, k)}
<1>1. 0 \in N
  <2> DEFINE it == [k \in Nat |-> 1]
  <2>1. PowersUpTo(it, 0)
    BY DEF PowersUpTo, PowerStep
  <2> QED
    BY <2>1
<1>2. ASSUME NEW k \in Nat, k \in N PROVE k + 1 \in N
  <2>1. PICK it : PowersUpTo(it, k)
    BY <1>2
  <2> DEFINE jt == [j \in Nat |-> IF j = k + 1 THEN 2 * it[k] ELSE it[j]]
  <2>2. jt = [j \in Nat |-> jt[j]]
    OBVIOUS
  <2>3. ASSUME NEW j \in 0 .. k + 1 PROVE jt[j] = PowerStep(jt, j)
    <3>1. CASE j = k + 1
      BY <3>1 DEF PowerStep
    <3>2. CASE j # k + 1
      <4>1. j \in 0 .. k /\ jt[j] = it[j] /\ (j # 0 => j - 1 \in Nat /\ jt[j - 1] = it[j - 1])
        BY <3>2
      <4> QED
        BY <2>1, <4>1 DEF PowersUpTo, PowerStep
    <3> QED
      BY <3>1, <3>2
  <2>4. PowersUpTo(jt, k + 1)
    BY <2>2, <2>3 DEF PowersUpTo
  <2> QED
    BY <2>4
<1> HIDE DEF N
<1>3. Nat \subseteq N
  BY <1>1, <1>2, AllNaturals
<1> QED
  BY <1>3 DEF N

LEMMA PowersExist == Pow2 = [n \in Nat |-> PowerStep(Pow2, n)]
<1> DEFINE at(n) == CHOOSE it : PowersUpTo(it, n)
           f == [n \in Nat |-> at(n)[n]]
<1>1. ASSUME NEW n \in Nat PROVE PowersUpTo(at(n), n)
  BY PowersReach
<1> HIDE DEF at
<1>2. ASSUME NEW n \in Nat PROVE f[n] = PowerStep(f, n)
  <2>1. CASE n = 0
    <3>1. at(0)[0] = 1
      BY <1>1 DEF PowersUpTo, PowerStep
    <3> QED
      BY <2>1, <3>1 DEF PowerStep
  <2>2. CASE n # 0
    <3>1. n - 1 \in Nat /\ n \in 0 .. n /\ n - 1 \in 0 .. n - 1
      BY <2>2
    <3>2. PowersUpTo(at(n), n - 1) /\ PowersUpTo(at(n - 1), n - 1)
      <4>1. PowersUpTo(at(n), n) /\ PowersUpTo(at(n - 1), n - 1)
        BY <1>1, <3>1
      <4> QED
        BY <3>1, <4>1 DEF PowersUpTo
    <3>3. at(n)[n - 1] = at(n - 1)[n - 1]
      BY <3>1, <3>2, PowersAgree
    <3>4. at(n)[n] = 2 * at(n)[n - 1]
      BY <1>1, <2>2, <3>1 DEF PowersUpTo, PowerStep
    <3> QED
      BY <2>2, <3>1, <3>3, <3>4 DEF PowerStep
  <2> QED
    BY <2>1, <2>2
<1>3. f = [n \in Nat |-> PowerStep(f, n)]
  BY <1>2
<1> DEFINE it == f
<1> HIDE DEF f
<1>4. \E it_1 : it_1 = [n \in Nat |-> PowerStep(it_1, n)]
  BY <1>3
<1>5. Pow2 = CHOOSE it_1 : it_1 = [n \in Nat |-> PowerStep(it_1, n)]
  BY DEF Pow2, PowerStep
<1> QED
  BY <1>4, <1>5

LEMMA Powers ==
  /\ Pow2[0] = 1
  /\ \A n \in Nat : Pow2[n + 1] = 2 * Pow2[n] /\ Pow2[n] \in Nat /\ n < Pow2[n]
<1>1. \A n \in Nat : Pow2[n] = PowerStep(Pow2, n)
  BY PowersExist
<1>2. Pow2[0] = 1
  BY <1>1 DEF PowerStep
<1>3. ASSUME NEW n \in Nat PROVE Pow2[n + 1] = 2 * Pow2[n]
  <2>1. n + 1 \in Nat /\ n + 1 # 0 /\ (n + 1) - 1 = n
    OBVIOUS
  <2> QED
    BY <1>1, <2>1 DEF PowerStep
<1> DEFINE A == {n \in Nat : Pow2[n] \in Nat /\ n < Pow2[n]}
<1>4. 0 \in A
  BY <1>2
<1>5. ASSUME NEW n \in Nat, n \in A PROVE n + 1 \in A
  <2> DEFINE p == Pow2[n]
             q == Pow2[n + 1]
  <2>1. p \in Nat /\ n < p /\ q = 2 * p
    BY <1>3, <1>5
  <2> HIDE DEF p, q
  <2>2. q \in Nat /\ n + 1 < q
    BY <2>1
  <2> QED
    BY <2>2 DEF q
<1> HIDE DEF A
<1>6. Nat \subseteq A
  BY <1>4, <1>5, AllNaturals
<1> QED
  BY <1>2, <1>3, <1>6 DEF A

(* Of two powers of two the larger is a multiple of the smaller.            *)
LEMMA PowersGrow ==
  ASSUME NEW l \in Nat, NEW k \in Nat
  PROVE  /\ Pow2[l] <= Pow2[l + k]
         /\ k > 0 => 2 * Pow2[l] <= Pow2[l + k]
         /\ \E q \in Nat : Pow2[l + k] = q * Pow2[l]
<1> DEFINE p == Pow2[l]
           A == {n \in Nat : \E q \in Nat : q >= 1 /\ (n > 0 => q >= 2) /\ Pow2[l + n] = q * p}
<1>0. p \in Nat
  BY Powers
<1> HIDE DEF p
<1>1. 0 \in A
  <2>1. l + 0 = l /\ 1 * p = p
    BY <1>0
  <2>2. Pow2[l + 0] = 1 * p
    BY <2>1 DEF p
  <2> QED
    BY <2>2
<1>2. ASSUME NEW n \in Nat, n \in A PROVE n + 1 \in A
  <2>1. PICK q \in Nat : q >= 1 /\ Pow2[l + n] = q * p
    BY <1>2
  <2>2. Pow2[(l + n) + 1] = 2 * Pow2[l + n]
    BY Powers
  <2>3. l + (n + 1) = (l + n) + 1
    OBVIOUS
  <2>4. 2 * (q * p) = (2 * q) * p /\ 2 * q \in Nat /\ 2 * q >= 2
    BY <1>0, <2>1
  <2>5. Pow2[l + (n + 1)] = (2 * q) * p
    BY <2>1, <2>2, <2>3, <2>4
  <2> QED
    BY <2>4, <2>5
<1> HIDE DEF A
<1>3. Nat \subseteq A
  BY <1>1, <1>2, AllNaturals
<1>4. PICK q \in Nat : q >= 1 /\ (k > 0 => q >= 2) /\ Pow2[l + k] = q * p
  BY <1>3 DEF A
<1>5. q * p >= p /\ (q >= 2 => q * p >= 2 * p)
  BY <1>0, <1>4
<1> QED
  BY <1>4, <1>5 DEF p

LEMMA PowersOrdered ==
  ASSUME NEW l \in Nat, NEW k \in Nat
  PROVE  /\ l <= k => Pow2[l] <= Pow2[k]
         /\ l < k => 2 * Pow2[l] <= Pow2[k]
         /\ Pow2[l] <= Pow2[k] => l <= k
<1>1. ASSUME NEW i \in Nat, NEW j \in Nat, i <= j
      PROVE  Pow2[i] <= Pow2[j] /\ (i < j => 2 * Pow2[i] <= Pow2[j])
  <2>1. PICK n \in Nat : j = i + n /\ (i < j => n > 0)
    <3>1. j - i \in Nat /\ j = i + (j - i) /\ (i < j => j - i > 0)
      BY <1>1
    <3> QED
      BY <3>1
  <2> QED
    BY <2>1, PowersGrow
<1>2. Pow2[l] \in Nat /\ Pow2[k] \in Nat /\ Pow2[k] > 0 /\ Pow2[l] > 0
  <2>1. Pow2[l] \in Nat /\ Pow2[k] \in Nat /\ k < Pow2[k] /\ l < Pow2[l]
    BY Powers
  <2> HIDE DEF Pow2
  <2> QED
    BY <2>1
<1>3. Pow2[l] <= Pow2[k] => l <= k
  <2>1. CASE k < l
    BY <1>1, <1>2, <2>1
  <2> QED
    BY <2>1
<1> QED
  BY <1>1, <1>3

(* A bit of an address: one block further it is flipped. *)
LEMMA BitFlips ==
  ASSUME NEW a \in Nat, NEW s \in Nat, s > 0
  PROVE  /\ (a \div s) % 2 \in {0, 1}
         /\ (a \div s) % 2 = 0 => ((a + s) \div s) % 2 = 1
         /\ (a \div s) % 2 = 1 => a >= s /\ ((a - s) \div s) % 2 = 0
<1> DEFINE q == a \div s
<1>1. q \in Nat /\ a = s * q + (a % s) /\ a % s \in 0 .. s - 1
  OBVIOUS
<1>2. (a + s) \div s = q + 1
  OBVIOUS
<1>3. ASSUME q >= 1 PROVE a >= s /\ (a - s) \div s = q - 1
  <2>1. s * q >= s
    BY <1>1, <1>3
  <2>2. a >= s
    BY <1>1, <2>1
  <2>3. a - s \in Nat /\ (a - s) + s = a
    BY <2>2
  <2>4. ((a - s) + s) \div s = ((a - s) \div s) + 1
    BY <2>3
  <2>5. (a - s) \div s \in Int
    BY <2>3
  <2> QED
    BY <2>2, <2>3, <2>4, <2>5
<1> HIDE DEF q
<1>4. q % 2 \in {0, 1} /\ (q % 2 = 0 => (q + 1) % 2 = 1) /\ (q % 2 = 1 => q >= 1 /\ (q - 1) % 2 = 0)
  BY <1>1
<1>5. (a \div s) = q
  BY DEF q
<1> QED
  BY <1>2, <1>3, <1>4, <1>5

LEMMA QuotientOfMultiple ==
  ASSUME NEW q \in Nat, NEW s \in Nat, s > 0
  PROVE  (q * s) \div s = q
OBVIOUS

-----------------------------------------------------------------------------
(* The state a memory can be in.                                            *)
Memories == [header : [HeapAddress -> Header], blocks : [Level -> Nat]]
End == managedMemory + Pow2[RootLevel]
SizeOf(m, a) == Pow2[m.header[a].level]

(* The blocks of S tile the heap.                                           *)
Tiled(m, S) ==
  /\ S \subseteq HeapAddress
  /\ \A a \in S : m.header[a].level \in 0 .. RootLevel /\ a + SizeOf(m, a) <= End
  /\ \A a, b \in S : a < b => a + SizeOf(m, a) <= b
  /\ \A x \in HeapAddress : \E a \in S : a <= x /\ x < a + SizeOf(m, a)

(* The header of a block that is no more looks free only if that block was  *)
(* an upper half.                                                           *)
StaleAreUpper(m, S) ==
  \A a \in HeapAddress :
    m.header[a].blockState = "FREE" /\ (a \div SizeOf(m, a)) % 2 = 0 => a \in S

(* The blocks of F are those of the lists; at(a) is the place of a in its.  *)
Linked(m, F, at) ==
  /\ F \subseteq HeapAddress /\ at \in [HeapAddress -> Nat]
  /\ \A a \in F :
       LET h == m.header[a]
       IN /\ h.blockState = "FREE" /\ h.level \in 0 .. RootLevel
          /\ h.next # NIL => /\ h.next \in F /\ m.header[h.next].level = h.level
                             /\ m.header[h.next].prev = a /\ at[h.next] = at[a] + 1
          /\ h.prev # NIL => /\ h.prev \in F /\ m.header[h.prev].level = h.level
                             /\ m.header[h.prev].next = a /\ at[a] = at[h.prev] + 1
          /\ h.prev = NIL => at[a] = 0 /\ m.blocks[h.level] = a
  /\ \A l \in Level : m.blocks[l] # NIL =>
       /\ m.blocks[l] \in F /\ m.header[m.blocks[l]].level = l /\ m.header[m.blocks[l]].prev = NIL
  /\ \A a, b \in F : m.header[a].level = m.header[b].level /\ at[a] = at[b] => a = b

LEMMA HeapFacts ==
  ASSUME managedMemory \in HeapStarts
  PROVE  /\ managedMemory \in Nat \ {0} /\ RootLevel \in Nat /\ BLOCKS \in Nat
         /\ RootLevel < BLOCKS /\ Pow2[RootLevel] \in Nat /\ MemorySize >= Pow2[RootLevel]
         /\ 0 .. RootLevel \subseteq Level /\ 0 .. RootLevel \subseteq Nat /\ RootLevel \in Level
         /\ HeapAddress \subseteq Nat /\ NIL \notin HeapAddress /\ NIL \in Nat
         /\ End \in Nat /\ HeapAddress = managedMemory .. End - 1
<1>1. managedMemory \in Nat \ {0} /\ RootLevel \in Nat /\ BLOCKS \in Nat /\ RootLevel < BLOCKS
      /\ MemorySize >= Pow2[RootLevel]
  BY BuddyAssumption
<1>2. Pow2[RootLevel] \in Nat
  BY <1>1, Powers
<1> DEFINE p == Pow2[RootLevel]
<1>3. p \in Nat /\ HeapAddress = managedMemory .. managedMemory + p - 1 /\ End = managedMemory + p
  BY <1>2 DEF HeapAddress, End
<1> HIDE DEF p
<1>4. HeapAddress \subseteq Nat /\ 0 \notin HeapAddress /\ End \in Nat /\ HeapAddress = managedMemory .. End - 1
  BY <1>1, <1>3
<1>5. 0 .. RootLevel \subseteq Level /\ 0 .. RootLevel \subseteq Nat /\ RootLevel \in Level
  BY <1>1 DEF Level
<1> QED
  BY <1>1, <1>2, <1>4, <1>5 DEF NIL

(* m2 differs from m in links only.                                         *)
OnlyLinks(m, m2) ==
  /\ m2 \in Memories
  /\ \A a \in HeapAddress : /\ m2.header[a].level = m.header[a].level
                            /\ m2.header[a].blockState = m.header[a].blockState

LEMMA SetNextIs ==
  ASSUME managedMemory \in HeapStarts, NEW m \in Memories,
         NEW x \in HeapAddress \cup {NIL}, NEW v \in Nat
  PROVE  /\ OnlyLinks(m, SetNext(m, x, v)) /\ SetNext(m, x, v).blocks = m.blocks
         /\ \A a \in HeapAddress :
              /\ SetNext(m, x, v).header[a].next = IF a = x THEN v ELSE m.header[a].next
              /\ SetNext(m, x, v).header[a].prev = m.header[a].prev
              /\ a # x => SetNext(m, x, v).header[a] = m.header[a]
<1>1. NIL \notin HeapAddress
  BY HeapFacts
<1>2. CASE x = NIL
  <2>1. OnlyLinks(m, m) /\ \A a \in HeapAddress : a # x
    BY <1>1, <1>2 DEF OnlyLinks
  <2>2. SetNext(m, x, v) = m
    BY <1>2 DEF SetNext
  <2> QED
    BY <2>1, <2>2
<1>3. CASE x # NIL
  <2> DEFINE h == [m.header EXCEPT ![x].next = v]
             m2 == [m EXCEPT !.header = h]
  <2>1. SetNext(m, x, v) = m2 /\ x \in HeapAddress
    BY <1>3 DEF SetNext
  <2>2. m.header \in [HeapAddress -> Header] /\ m.blocks \in [Level -> Nat]
    BY DEF Memories
  <2>3. h \in [HeapAddress -> Header]
        /\ \A a \in HeapAddress : h[a] = IF a = x THEN [m.header[a] EXCEPT !.next = v] ELSE m.header[a]
    BY <2>1, <2>2 DEF Header
  <2> HIDE DEF h
  <2>4. m2 \in Memories /\ m2.header = h /\ m2.blocks = m.blocks
    BY <2>2, <2>3 DEF Memories
  <2> HIDE DEF m2
  <2>5. OnlyLinks(m, m2)
    BY <2>2, <2>3, <2>4 DEF OnlyLinks, Header
  <2>6. \A a \in HeapAddress :
              /\ h[a].next = IF a = x THEN v ELSE m.header[a].next
              /\ h[a].prev = m.header[a].prev
              /\ a # x => h[a] = m.header[a]
    BY <2>2, <2>3 DEF Header
  <2> QED
    BY <2>1, <2>4, <2>5, <2>6
<1> QED
  BY <1>2, <1>3

LEMMA SetPrevIs ==
  ASSUME managedMemory \in HeapStarts, NEW m \in Memories,
         NEW x \in HeapAddress \cup {NIL}, NEW v \in Nat
  PROVE  /\ OnlyLinks(m, SetPrev(m, x, v)) /\ SetPrev(m, x, v).blocks = m.blocks
         /\ \A a \in HeapAddress :
              /\ SetPrev(m, x, v).header[a].prev = IF a = x THEN v ELSE m.header[a].prev
              /\ SetPrev(m, x, v).header[a].next = m.header[a].next
              /\ a # x => SetPrev(m, x, v).header[a] = m.header[a]
<1>1. NIL \notin HeapAddress
  BY HeapFacts
<1>2. CASE x = NIL
  <2>1. OnlyLinks(m, m) /\ \A a \in HeapAddress : a # x
    BY <1>1, <1>2 DEF OnlyLinks
  <2>2. SetPrev(m, x, v) = m
    BY <1>2 DEF SetPrev
  <2> QED
    BY <2>1, <2>2
<1>3. CASE x # NIL
  <2> DEFINE h == [m.header EXCEPT ![x].prev = v]
             m2 == [m EXCEPT !.header = h]
  <2>1. SetPrev(m, x, v) = m2 /\ x \in HeapAddress
    BY <1>3 DEF SetPrev
  <2>2. m.header \in [HeapAddress -> Header] /\ m.blocks \in [Level -> Nat]
    BY DEF Memories
  <2>3. h \in [HeapAddress -> Header]
        /\ \A a \in HeapAddress : h[a] = IF a = x THEN [m.header[a] EXCEPT !.prev = v] ELSE m.header[a]
    BY <2>1, <2>2 DEF Header
  <2> HIDE DEF h
  <2>4. m2 \in Memories /\ m2.header = h /\ m2.blocks = m.blocks
    BY <2>2, <2>3 DEF Memories
  <2> HIDE DEF m2
  <2>5. OnlyLinks(m, m2)
    BY <2>2, <2>3, <2>4 DEF OnlyLinks, Header
  <2>6. \A a \in HeapAddress :
              /\ h[a].next = m.header[a].next
              /\ h[a].prev = IF a = x THEN v ELSE m.header[a].prev
              /\ a # x => h[a] = m.header[a]
    BY <2>2, <2>3 DEF Header
  <2> QED
    BY <2>1, <2>4, <2>5, <2>6
<1> QED
  BY <1>2, <1>3

LEMMA SetHeadIs ==
  ASSUME NEW m \in Memories, NEW l \in Level, NEW v \in Nat
  PROVE  /\ OnlyLinks(m, [m EXCEPT !.blocks[l] = v])
         /\ [m EXCEPT !.blocks[l] = v].header = m.header
         /\ \A k \in Level : [m EXCEPT !.blocks[l] = v].blocks[k] = IF k = l THEN v ELSE m.blocks[k]
BY DEF OnlyLinks, Memories

(* A block that becomes the head of its list.                               *)
LEMMA PushIs ==
  ASSUME managedMemory \in HeapStarts, NEW m \in Memories, NEW F, NEW at, Linked(m, F, at),
         NEW b \in HeapAddress, m.header[b].level \in 0 .. RootLevel
  PROVE  LET l == m.header[b].level
             n == m.blocks[l]
             m2 == pushFree(m, b)
         IN /\ OnlyLinks(m, m2)
            /\ \A k \in Level : m2.blocks[k] = IF k = l THEN b ELSE m.blocks[k]
            /\ \A a \in HeapAddress :
                 /\ m2.header[a].next = IF a = b THEN n ELSE m.header[a].next
                 /\ m2.header[a].prev = IF a = n THEN b ELSE m.header[a].prev
                 /\ a # b /\ a # n => m2.header[a] = m.header[a]
<1> DEFINE l == m.header[b].level
           n == m.blocks[l]
           m1 == SetNext(m, b, n)
           m2 == SetPrev(m1, n, b)
           m3 == [m2 EXCEPT !.blocks[l] = b]
<1>1. l \in Level /\ b \in Nat
  BY HeapFacts
<1>2. n \in HeapAddress \cup {NIL} /\ n \in Nat
  BY <1>1, HeapFacts DEF Linked, Memories
<1>3. /\ OnlyLinks(m, m1) /\ m1.blocks = m.blocks
      /\ \A a \in HeapAddress :
              /\ m1.header[a].next = IF a = b THEN n ELSE m.header[a].next
              /\ m1.header[a].prev = m.header[a].prev
              /\ a # b => m1.header[a] = m.header[a]
  BY <1>2, SetNextIs
<1>4. m1 \in Memories
  BY <1>3 DEF OnlyLinks
<1> HIDE DEF m1, n, l
<1>5. /\ OnlyLinks(m1, m2) /\ m2.blocks = m1.blocks
      /\ \A a \in HeapAddress :
              /\ m2.header[a].prev = IF a = n THEN b ELSE m1.header[a].prev
              /\ m2.header[a].next = m1.header[a].next
              /\ a # n => m2.header[a] = m1.header[a]
  BY <1>1, <1>2, <1>4, SetPrevIs
<1>6. m2 \in Memories
  BY <1>5 DEF OnlyLinks
<1> HIDE DEF m2
<1>7. /\ OnlyLinks(m2, m3) /\ m3.header = m2.header
      /\ \A k \in Level : m3.blocks[k] = IF k = l THEN b ELSE m2.blocks[k]
  BY <1>1, <1>6, SetHeadIs
<1>8. m3 = pushFree(m, b)
  BY DEF pushFree, m1, m2, l, n
<1> HIDE DEF m3
<1>9. OnlyLinks(m, m3)
  BY <1>3, <1>5, <1>7 DEF OnlyLinks
<1>10. \A k \in Level : m3.blocks[k] = IF k = l THEN b ELSE m.blocks[k]
  BY <1>3, <1>5, <1>7
<1>11. \A a \in HeapAddress :
                 /\ m3.header[a].next = IF a = b THEN n ELSE m.header[a].next
                 /\ m3.header[a].prev = IF a = n THEN b ELSE m.header[a].prev
                 /\ a # b /\ a # n => m3.header[a] = m.header[a]
  BY <1>3, <1>5, <1>7
<1> QED
  BY <1>8, <1>9, <1>10, <1>11 DEF l, n

LEMMA PushLinks ==
  ASSUME managedMemory \in HeapStarts, NEW m \in Memories, NEW F, NEW at, Linked(m, F, at),
         NEW b \in HeapAddress \ F, m.header[b].level \in 0 .. RootLevel,
         m.header[b].blockState = "FREE", m.header[b].prev = NIL
  PROVE  /\ OnlyLinks(m, pushFree(m, b))
         /\ \A a \in HeapAddress \ (F \cup {b}) : pushFree(m, b).header[a] = m.header[a]
         /\ \E to : Linked(pushFree(m, b), F \cup {b}, to)
<1> DEFINE l == m.header[b].level
           n == m.blocks[l]
           to == [a \in HeapAddress |->
                    IF a = b THEN 0
                    ELSE IF a \in F /\ m.header[a].level = l THEN at[a] + 1 ELSE at[a]]
<1>1. PICK m2 : m2 = pushFree(m, b)
  OBVIOUS
<1>2. /\ OnlyLinks(m, m2)
      /\ \A k \in Level : m2.blocks[k] = IF k = l THEN b ELSE m.blocks[k]
      /\ \A a \in HeapAddress :
           /\ m2.header[a].next = IF a = b THEN n ELSE m.header[a].next
           /\ m2.header[a].prev = IF a = n THEN b ELSE m.header[a].prev
           /\ a # b /\ a # n => m2.header[a] = m.header[a]
  BY <1>1, PushIs
<1>3. /\ l \in Level /\ l \in 0 .. RootLevel /\ b # NIL /\ NIL \notin HeapAddress
      /\ F \subseteq HeapAddress /\ at \in [HeapAddress -> Nat] /\ b \notin F
  BY HeapFacts DEF Linked
<1>4. n # NIL => n \in F /\ m.header[n].level = l /\ m.header[n].prev = NIL /\ at[n] = 0
  BY <1>3 DEF Linked
<1>5. \A a \in HeapAddress : m2.header[a].level = m.header[a].level
                             /\ m2.header[a].blockState = m.header[a].blockState
  BY <1>2 DEF OnlyLinks
<1>6. to \in [HeapAddress -> Nat] /\ to[b] = 0
      /\ \A a \in F : to[a] = IF m.header[a].level = l THEN at[a] + 1 ELSE at[a]
  BY <1>3
<1>n. m.header[b].level = l /\ m.blocks[l] = n
  OBVIOUS
<1> HIDE DEF l, n, to
<1>7. ASSUME NEW a \in F \cup {b}
      PROVE  LET h == m2.header[a]
             IN /\ h.blockState = "FREE" /\ h.level \in 0 .. RootLevel
                /\ h.next # NIL => /\ h.next \in F \cup {b} /\ m2.header[h.next].level = h.level
                                   /\ m2.header[h.next].prev = a /\ to[h.next] = to[a] + 1
                /\ h.prev # NIL => /\ h.prev \in F \cup {b} /\ m2.header[h.prev].level = h.level
                                   /\ m2.header[h.prev].next = a /\ to[a] = to[h.prev] + 1
                /\ h.prev = NIL => to[a] = 0 /\ m2.blocks[h.level] = a
  <2>1. CASE a = b
    <3>1. m2.header[b].next = n /\ m2.header[b].prev = NIL
      BY <1>2, <1>3, <1>4
    <3>2. n # NIL => m2.header[n].prev = b /\ to[n] = 1 /\ m2.header[n].level = l
      BY <1>2, <1>3, <1>4, <1>5, <1>6
    <3> QED
      BY <1>2, <1>3, <1>4, <1>5, <1>6, <1>n, <2>1, <3>1, <3>2
  <2>2. CASE a # b
    <3>0. a \in F /\ a \in HeapAddress
      BY <1>3, <2>2
    <3> DEFINE h == m.header[a]
    <3>1. /\ h.blockState = "FREE" /\ h.level \in 0 .. RootLevel
          /\ h.next # NIL => /\ h.next \in F /\ m.header[h.next].level = h.level
                             /\ m.header[h.next].prev = a /\ at[h.next] = at[a] + 1
          /\ h.prev # NIL => /\ h.prev \in F /\ m.header[h.prev].level = h.level
                             /\ m.header[h.prev].next = a /\ at[a] = at[h.prev] + 1
          /\ h.prev = NIL => at[a] = 0 /\ m.blocks[h.level] = a
      BY <3>0 DEF Linked
    <3>2. m2.header[a].next = h.next /\ m2.header[a].level = h.level /\ m2.header[a].blockState = "FREE"
      BY <1>2, <1>5, <2>2, <3>0, <3>1
    <3>3. h.next # NIL => /\ h.next # n /\ m2.header[h.next].prev = a
                          /\ m2.header[h.next].level = h.level /\ to[h.next] = to[a] + 1
      <4> SUFFICES ASSUME h.next # NIL PROVE h.next # n /\ m2.header[h.next].prev = a
                          /\ m2.header[h.next].level = h.level /\ to[h.next] = to[a] + 1
        OBVIOUS
      <4>1. h.next \in F /\ h.next \in HeapAddress /\ m.header[h.next].prev = a /\ a # NIL
        BY <1>3, <3>0, <3>1
      <4>2. h.next # n
        BY <1>4, <4>1
      <4>3. m2.header[h.next].prev = a /\ m2.header[h.next].level = h.level
        BY <1>2, <1>5, <3>1, <4>1, <4>2
      <4>4. to[h.next] = to[a] + 1
        BY <1>3, <1>6, <3>0, <3>1, <4>1
      <4> QED
        BY <4>2, <4>3, <4>4
    <3>4. CASE a = n
      <4>1. m2.header[a].prev = b /\ m2.header[b].next = a /\ m2.header[b].level = h.level
        BY <1>2, <1>3, <1>4, <1>5, <1>n, <3>0, <3>4
      <4>2. to[a] = to[b] + 1
        BY <1>3, <1>4, <1>6, <3>4
      <4> QED
        BY <1>3, <3>1, <3>2, <3>3, <4>1, <4>2
    <3>5. CASE a # n
      <4>1. m2.header[a].prev = h.prev
        BY <1>2, <3>0, <3>5
      <4>2. h.prev # NIL => h.prev \in F /\ m2.header[h.prev].next = a /\ m2.header[h.prev].level = h.level
                            /\ to[a] = to[h.prev] + 1
        BY <1>2, <1>3, <1>5, <1>6, <3>0, <3>1
      <4>3. h.prev = NIL => h.level # l /\ to[a] = 0 /\ m2.blocks[h.level] = a
        <5>1. h.prev = NIL => h.level # l
          BY <1>n, <3>1, <3>5
        <5> QED
          BY <1>2, <1>6, <3>0, <3>1, <5>1, HeapFacts
      <4> QED
        BY <3>1, <3>2, <3>3, <4>1, <4>2, <4>3
    <3> QED
      BY <3>4, <3>5
  <2> QED
    BY <2>1, <2>2
<1>8. ASSUME NEW k \in Level, m2.blocks[k] # NIL
      PROVE  /\ m2.blocks[k] \in F \cup {b} /\ m2.header[m2.blocks[k]].level = k
             /\ m2.header[m2.blocks[k]].prev = NIL
  <2>1. CASE k = l
    BY <1>2, <1>3, <1>4, <1>5, <1>n, <2>1
  <2>2. CASE k # l
    <3>1. m2.blocks[k] = m.blocks[k] /\ m.blocks[k] \in F /\ m.header[m.blocks[k]].level = k
          /\ m.header[m.blocks[k]].prev = NIL
      BY <1>2, <1>8, <2>2 DEF Linked
    <3>2. m.blocks[k] # n
      BY <1>3, <1>4, <2>2, <3>1
    <3> QED
      BY <1>2, <1>3, <1>5, <3>1, <3>2
  <2> QED
    BY <2>1, <2>2
<1>9. ASSUME NEW x \in F \cup {b}, NEW y \in F \cup {b},
             m2.header[x].level = m2.header[y].level, to[x] = to[y]
      PROVE  x = y
  <2>1. m.header[x].level = m.header[y].level
    BY <1>3, <1>5, <1>9
  <2>2. CASE x \in F /\ y \in F
    <3>1. at[x] = at[y]
      BY <1>3, <1>6, <1>9, <2>1, <2>2
    <3> QED
      BY <2>1, <2>2, <3>1 DEF Linked
  <2>3. CASE x = b /\ y \in F
    BY <1>3, <1>6, <1>9, <1>n, <2>1, <2>3
  <2>4. CASE x \in F /\ y = b
    BY <1>3, <1>6, <1>9, <1>n, <2>1, <2>4
  <2> QED
    BY <2>2, <2>3, <2>4
<1>10. Linked(m2, F \cup {b}, to)
  BY <1>3, <1>6, <1>7, <1>8, <1>9 DEF Linked
<1> QED
  BY <1>1, <1>2, <1>4, <1>10, <1>3

(* Only the headers of F count. *)
LEMMA LinkedIsLocal ==
  ASSUME managedMemory \in HeapStarts, NEW m, NEW m2, NEW F, NEW at, Linked(m, F, at),
         m2.blocks = m.blocks, \A a \in F : m2.header[a] = m.header[a]
  PROVE  Linked(m2, F, at)
BY DEF Linked

(* A block that leaves its list, wherever it is in it.                      *)
LEMMA Removed ==
  ASSUME managedMemory \in HeapStarts, NEW m \in Memories, NEW F, NEW at, Linked(m, F, at),
         NEW b \in F, NEW p, NEW n, p = m.header[b].prev, n = m.header[b].next,
         NEW m2, OnlyLinks(m, m2),
         \A k \in Level : m2.blocks[k] = IF p = NIL /\ k = m.header[b].level THEN n ELSE m.blocks[k],
         \A a \in F \ {b} : /\ m2.header[a].next = IF a = p THEN n ELSE m.header[a].next
                            /\ m2.header[a].prev = IF a = n THEN p ELSE m.header[a].prev
  PROVE  \E to : Linked(m2, F \ {b}, to)
<1> DEFINE l == m.header[b].level
           to == [a \in HeapAddress |->
                    IF m.header[a].level = l /\ at[a] > at[b] THEN at[a] - 1 ELSE at[a]]
           G == F \ {b}
<1>1. /\ F \subseteq HeapAddress /\ at \in [HeapAddress -> Nat] /\ NIL \notin HeapAddress
      /\ b \in HeapAddress /\ G \subseteq F /\ b \notin G
  BY HeapFacts DEF Linked
<1>2. /\ l \in 0 .. RootLevel /\ l \in Level
      /\ n # NIL => n \in F /\ m.header[n].level = l /\ m.header[n].prev = b /\ at[n] = at[b] + 1
      /\ p # NIL => p \in F /\ m.header[p].level = l /\ m.header[p].next = b /\ at[b] = at[p] + 1
      /\ p = NIL => at[b] = 0 /\ m.blocks[l] = b
  BY HeapFacts DEF Linked
<1>3. (n # NIL => n \in G) /\ (p # NIL => p \in G) /\ (n # NIL => n # p)
  <2>1. at[b] \in Nat /\ (n # NIL => at[n] \in Nat /\ n # b) /\ (p # NIL => at[p] \in Nat /\ p # b)
    BY <1>1, <1>2
  <2> QED
    BY <1>2, <2>1
<1>4. \A a \in HeapAddress : m2.header[a].level = m.header[a].level
                             /\ m2.header[a].blockState = m.header[a].blockState
  BY DEF OnlyLinks
<1>5. to \in [HeapAddress -> Nat]
      /\ \A a \in HeapAddress : to[a] = IF m.header[a].level = l /\ at[a] > at[b] THEN at[a] - 1 ELSE at[a]
  <2>1. \A a \in HeapAddress : at[a] \in Nat
    BY <1>1
  <2> QED
    BY <1>1, <2>1
<1>l. m.header[b].level = l
  OBVIOUS
<1>g. \A a : a \in G <=> a \in F /\ a # b
  OBVIOUS
<1> HIDE DEF l, to, G
<1>6. \A a \in F : m.header[a].level = l /\ at[a] = at[b] => a = b
  BY <1>l DEF Linked
<1>7. \A a \in G : a \in F /\ a # b /\ a \in HeapAddress
         /\ m2.header[a].next = (IF a = p THEN n ELSE m.header[a].next)
         /\ m2.header[a].prev = (IF a = n THEN p ELSE m.header[a].prev)
  BY <1>1, <1>g
<1>8. ASSUME NEW a \in G
      PROVE  LET h == m2.header[a]
             IN /\ h.blockState = "FREE" /\ h.level \in 0 .. RootLevel
                /\ h.next # NIL => /\ h.next \in G /\ m2.header[h.next].level = h.level
                                   /\ m2.header[h.next].prev = a /\ to[h.next] = to[a] + 1
                /\ h.prev # NIL => /\ h.prev \in G /\ m2.header[h.prev].level = h.level
                                   /\ m2.header[h.prev].next = a /\ to[a] = to[h.prev] + 1
                /\ h.prev = NIL => to[a] = 0 /\ m2.blocks[h.level] = a
  <2> DEFINE h == m.header[a]
  <2>1. /\ h.blockState = "FREE" /\ h.level \in 0 .. RootLevel /\ h.level \in Level
        /\ h.next # NIL => /\ h.next \in F /\ m.header[h.next].level = h.level
                           /\ m.header[h.next].prev = a /\ at[h.next] = at[a] + 1
        /\ h.prev # NIL => /\ h.prev \in F /\ m.header[h.prev].level = h.level
                           /\ m.header[h.prev].next = a /\ at[a] = at[h.prev] + 1
        /\ h.prev = NIL => at[a] = 0 /\ m.blocks[h.level] = a
    BY <1>7, HeapFacts DEF Linked
  <2>2. m2.header[a].level = h.level /\ m2.header[a].blockState = "FREE"
    BY <1>4, <1>7, <2>1
  <2>3. a # NIL /\ b # NIL /\ at[a] \in Nat /\ at[b] \in Nat /\ (h.level = l => at[a] # at[b])
    BY <1>1, <1>6, <1>7
  <2> HIDE DEF h
  <2>4. ASSUME m2.header[a].next # NIL
        PROVE  /\ m2.header[a].next \in G /\ m2.header[m2.header[a].next].level = h.level
               /\ m2.header[m2.header[a].next].prev = a /\ to[m2.header[a].next] = to[a] + 1
    <3>1. CASE a = p
      <4>1. m2.header[a].next = n /\ n # NIL /\ n \in G /\ h.level = l
        BY <1>2, <1>3, <1>7, <2>3, <2>4, <3>1 DEF h
      <4>2. m2.header[n].level = l /\ m2.header[n].prev = a
        BY <1>2, <1>4, <1>7, <3>1, <4>1
      <4>3. at[n] = at[b] + 1 /\ at[b] = at[a] + 1
        BY <1>2, <2>3, <3>1, <4>1
      <4>4. to[n] = at[n] - 1 /\ to[a] = at[a]
        BY <1>2, <1>5, <1>7, <2>3, <4>1, <4>3
      <4> QED
        BY <2>3, <4>1, <4>2, <4>3, <4>4
    <3>2. CASE a # p
      <4> DEFINE c == h.next
      <4>1. m2.header[a].next = c /\ c # NIL /\ c \in F /\ m.header[c].level = h.level
            /\ m.header[c].prev = a /\ at[c] = at[a] + 1
        BY <1>7, <2>1, <2>4, <3>2 DEF h
      <4> HIDE DEF c
      <4>2. c # b
        BY <3>2, <4>1
      <4>3. c \in G /\ c # n
        <5>1. c # n
          BY <1>2, <1>7, <4>1
        <5> QED
          BY <1>g, <4>1, <4>2, <5>1
      <4>4. m2.header[c].prev = a /\ m2.header[c].level = h.level
        BY <1>4, <1>7, <4>1, <4>3
      <4>5. h.level = l => at[c] # at[b]
        BY <1>6, <4>1, <4>2
      <4>6. to[c] = to[a] + 1
        <5>1. at[c] \in Nat /\ c \in HeapAddress /\ a \in HeapAddress
          BY <1>1, <1>7, <4>1
        <5>2. to[c] = (IF h.level = l /\ at[c] > at[b] THEN at[c] - 1 ELSE at[c])
              /\ to[a] = (IF h.level = l /\ at[a] > at[b] THEN at[a] - 1 ELSE at[a])
          BY <1>5, <4>1, <5>1 DEF h
        <5> QED
          BY <2>3, <4>1, <4>5, <5>1, <5>2
      <4> QED
        BY <4>1, <4>3, <4>4, <4>6
    <3> QED
      BY <3>1, <3>2
  <2>5. ASSUME m2.header[a].prev # NIL
        PROVE  /\ m2.header[a].prev \in G /\ m2.header[m2.header[a].prev].level = h.level
               /\ m2.header[m2.header[a].prev].next = a /\ to[a] = to[m2.header[a].prev] + 1
    <3>1. CASE a = n
      <4>1. m2.header[a].prev = p /\ p # NIL /\ p \in G /\ h.level = l
        BY <1>2, <1>3, <1>7, <2>3, <2>5, <3>1 DEF h
      <4>2. m2.header[p].level = l /\ m2.header[p].next = a
        BY <1>2, <1>4, <1>7, <3>1, <4>1
      <4>3. at[a] = at[b] + 1 /\ at[b] = at[p] + 1 /\ at[p] \in Nat
        BY <1>1, <1>2, <1>7, <2>3, <3>1, <4>1
      <4>4. to[a] = at[a] - 1 /\ to[p] = at[p]
        BY <1>2, <1>5, <1>7, <2>3, <3>1, <4>1, <4>3
      <4> QED
        BY <2>3, <4>1, <4>2, <4>3, <4>4
    <3>2. CASE a # n
      <4> DEFINE c == h.prev
      <4>1. m2.header[a].prev = c /\ c # NIL /\ c \in F /\ m.header[c].level = h.level
            /\ m.header[c].next = a /\ at[a] = at[c] + 1
        BY <1>7, <2>1, <2>5, <3>2 DEF h
      <4> HIDE DEF c
      <4>2. c # b
        BY <3>2, <4>1
      <4>3. c \in G /\ c # p
        <5>1. c # p
          BY <1>2, <1>7, <4>1
        <5> QED
          BY <1>g, <4>1, <4>2, <5>1
      <4>4. m2.header[c].next = a /\ m2.header[c].level = h.level
        BY <1>4, <1>7, <4>1, <4>3
      <4>5. h.level = l => at[c] # at[b]
        BY <1>6, <4>1, <4>2
      <4>6. to[a] = to[c] + 1
        <5>1. at[c] \in Nat /\ c \in HeapAddress /\ a \in HeapAddress
          BY <1>1, <1>7, <4>1
        <5>2. to[c] = (IF h.level = l /\ at[c] > at[b] THEN at[c] - 1 ELSE at[c])
              /\ to[a] = (IF h.level = l /\ at[a] > at[b] THEN at[a] - 1 ELSE at[a])
          BY <1>5, <4>1, <5>1 DEF h
        <5> QED
          BY <2>3, <4>1, <4>5, <5>1, <5>2
      <4> QED
        BY <4>1, <4>3, <4>4, <4>6
    <3> QED
      BY <3>1, <3>2
  <2>6. ASSUME m2.header[a].prev = NIL
        PROVE  to[a] = 0 /\ m2.blocks[h.level] = a
    <3>1. CASE a = n
      <4>1. p = NIL /\ h.level = l /\ at[a] = at[b] + 1 /\ at[b] = 0
        BY <1>2, <1>7, <2>3, <2>6, <3>1 DEF h
      <4>2. to[a] = 0
        BY <1>5, <1>7, <2>3, <4>1 DEF h
      <4>3. m2.blocks[l] = n
        BY <1>2, <1>l, <4>1
      <4> QED
        BY <3>1, <4>1, <4>2, <4>3
    <3>2. CASE a # n
      <4>1. h.prev = NIL /\ at[a] = 0 /\ m.blocks[h.level] = a
        BY <1>7, <2>1, <2>6, <3>2 DEF h
      <4>2. ~(p = NIL /\ h.level = l)
        BY <1>2, <1>7, <4>1
      <4>3. to[a] = 0
        BY <1>5, <1>7, <2>3, <4>1 DEF h
      <4> QED
        BY <1>l, <2>1, <4>1, <4>2, <4>3
    <3> QED
      BY <3>1, <3>2
  <2> QED
    BY <2>1, <2>2, <2>4, <2>5, <2>6
<1>9. ASSUME NEW k \in Level, m2.blocks[k] # NIL
      PROVE  m2.blocks[k] \in G /\ m2.header[m2.blocks[k]].level = k /\ m2.header[m2.blocks[k]].prev = NIL
  <2>1. CASE p = NIL /\ k = l
    <3>1. m2.blocks[k] = n /\ n \in G
      BY <1>3, <1>9, <1>l, <2>1
    <3> QED
      BY <1>2, <1>4, <1>7, <2>1, <3>1, <1>9
  <2>2. CASE ~(p = NIL /\ k = l)
    <3> DEFINE c == m.blocks[k]
    <3>1. m2.blocks[k] = c /\ c # NIL
      BY <1>9, <1>l, <2>2
    <3>2. c \in F /\ m.header[c].level = k /\ m.header[c].prev = NIL
      BY <3>1 DEF Linked
    <3> HIDE DEF c
    <3>3. c # b /\ c # n
      <4>1. c = b => p = NIL /\ k = l
        BY <3>2, <1>l
      <4>2. c # n
        BY <1>1, <1>2, <3>1, <3>2
      <4> QED
        BY <2>2, <4>1, <4>2
    <3>4. c \in G
      BY <1>g, <3>2, <3>3
    <3> QED
      BY <1>4, <1>7, <3>1, <3>2, <3>3, <3>4
  <2> QED
    BY <2>1, <2>2
<1>10. ASSUME NEW x \in G, NEW y \in G, m2.header[x].level = m2.header[y].level, to[x] = to[y]
       PROVE  x = y
  <2>1. x \in F /\ y \in F /\ x \in HeapAddress /\ y \in HeapAddress /\ x # b /\ y # b
        /\ m.header[x].level = m.header[y].level
    BY <1>4, <1>7, <1>10
  <2>2. at[x] \in Nat /\ at[y] \in Nat /\ at[b] \in Nat
    BY <1>1, <2>1
  <2>3. m.header[x].level = l => at[x] # at[b] /\ at[y] # at[b]
    BY <1>6, <2>1
  <2>4. to[x] = (IF m.header[x].level = l /\ at[x] > at[b] THEN at[x] - 1 ELSE at[x])
        /\ to[y] = (IF m.header[x].level = l /\ at[y] > at[b] THEN at[y] - 1 ELSE at[y])
    BY <1>5, <2>1
  <2>5. at[x] = at[y]
    <3> DEFINE i == at[x]
               j == at[y]
               k == at[b]
    <3>1. i \in Nat /\ j \in Nat /\ k \in Nat
      BY <2>2
    <3>2. CASE m.header[x].level = l
      <4>1. i # k /\ j # k /\ (IF i > k THEN i - 1 ELSE i) = (IF j > k THEN j - 1 ELSE j)
        BY <1>10, <2>1, <2>3, <2>4, <3>2
      <4> HIDE DEF i, j, k
      <4>2. i = j
        BY <3>1, <4>1
      <4> QED
        BY <4>2 DEF i, j
    <3>3. CASE m.header[x].level # l
      <4>2. to[x] = at[x]
        BY <2>4, <3>3
      <4>3. to[y] = at[y]
        BY <2>4, <3>3
      <4> QED
        BY <1>10, <4>2, <4>3
    <3> QED
      BY <3>2, <3>3
  <2> QED
    BY <2>1, <2>5 DEF Linked
<1>11. Linked(m2, G, to)
  BY <1>1, <1>5, <1>8, <1>9, <1>10 DEF Linked
<1> QED
  BY <1>11 DEF G

(* r is m without b in a list. *)
LeavesList(m, r, F, b) ==
  /\ OnlyLinks(m, r)
  /\ \A a \in HeapAddress : a \notin F => r.header[a] = m.header[a]
  /\ \E to : Linked(r, F \ {b}, to)

LEMMA UnlinkLinks ==
  ASSUME managedMemory \in HeapStarts, NEW m \in Memories, NEW F, NEW at, Linked(m, F, at),
         NEW b \in F
  PROVE  LeavesList(m, unlink(m, b), F, b)
<1> DEFINE h == m.header[b]
           l == h.level
           p == h.prev
           n == h.next
           m1 == IF p # NIL THEN SetNext(m, p, n) ELSE [m EXCEPT !.blocks[l] = n]
           m2 == SetPrev(m1, n, p)
<1>1. /\ F \subseteq HeapAddress /\ at \in [HeapAddress -> Nat] /\ NIL \notin HeapAddress /\ b \in HeapAddress
  BY HeapFacts DEF Linked
<1>2. /\ l \in Level /\ p \in HeapAddress \cup {NIL} /\ n \in HeapAddress \cup {NIL}
      /\ (p # NIL => p \in F) /\ (n # NIL => n \in F) /\ p # b /\ n # b
  <2>1. /\ l \in Level
        /\ n # NIL => n \in F /\ at[n] = at[b] + 1
        /\ p # NIL => p \in F /\ at[b] = at[p] + 1
    BY HeapFacts DEF Linked
  <2>2. at[b] \in Nat
    BY <1>1
  <2>3. n # b
    BY <1>1, <2>1, <2>2
  <2>4. p # b
    BY <1>1, <2>1, <2>2
  <2> QED
    BY <1>1, <2>1, <2>3, <2>4
<1>3. p \in Nat /\ n \in Nat
  BY <1>2, HeapFacts
<1>u. m2 = unlink(m, b)
  BY DEF unlink
<1>h. h = m.header[b] /\ p = m.header[b].prev /\ n = m.header[b].next /\ l = m.header[b].level
  OBVIOUS
<1> HIDE DEF h, l, p, n
<1>4. /\ OnlyLinks(m, m1)
      /\ \A k \in Level : m1.blocks[k] = IF p = NIL /\ k = l THEN n ELSE m.blocks[k]
      /\ \A a \in HeapAddress :
           /\ m1.header[a].next = IF a = p THEN n ELSE m.header[a].next
           /\ m1.header[a].prev = m.header[a].prev
           /\ a # p => m1.header[a] = m.header[a]
  <2>1. CASE p # NIL
    <3>1. m1 = SetNext(m, p, n)
      BY <2>1
    <3> HIDE DEF m1
    <3> QED
      BY <1>2, <1>3, <2>1, <3>1, SetNextIs
  <2>2. CASE p = NIL
    <3>1. m1 = [m EXCEPT !.blocks[l] = n]
      BY <2>2
    <3> HIDE DEF m1
    <3>2. OnlyLinks(m, m1) /\ m1.header = m.header
          /\ \A k \in Level : m1.blocks[k] = IF k = l THEN n ELSE m.blocks[k]
      BY <1>2, <1>3, <3>1, SetHeadIs
    <3> QED
      BY <1>1, <2>2, <3>2
  <2> QED
    BY <2>1, <2>2
<1> HIDE DEF m1
<1>5. m1 \in Memories
  BY <1>4 DEF OnlyLinks
<1>6. /\ OnlyLinks(m1, m2) /\ m2.blocks = m1.blocks
      /\ \A a \in HeapAddress :
              /\ m2.header[a].prev = IF a = n THEN p ELSE m1.header[a].prev
              /\ m2.header[a].next = m1.header[a].next
              /\ a # n => m2.header[a] = m1.header[a]
  BY <1>2, <1>3, <1>5, SetPrevIs
<1> HIDE DEF m2
<1>7. OnlyLinks(m, m2)
  BY <1>4, <1>6 DEF OnlyLinks
<1>8. \A a \in HeapAddress : a # p /\ a # n => m2.header[a] = m.header[a]
  BY <1>4, <1>6
<1>9. \E to : Linked(m2, F \ {b}, to)
  <2>1. \A k \in Level : m2.blocks[k] = IF p = NIL /\ k = m.header[b].level THEN n ELSE m.blocks[k]
    BY <1>4, <1>6, <1>h
  <2>2. \A a \in F \ {b} : /\ m2.header[a].next = IF a = p THEN n ELSE m.header[a].next
                           /\ m2.header[a].prev = IF a = n THEN p ELSE m.header[a].prev
    BY <1>1, <1>4, <1>6
  <2> QED
    BY <1>7, <1>h, <2>1, <2>2, Removed
<1>10. \A a \in HeapAddress : a \notin F => m2.header[a] = m.header[a]
  <2>1. \A a \in HeapAddress : a \notin F => a # p /\ a # n
    BY <1>1, <1>2
  <2> QED
    BY <1>8, <2>1
<1>11. LeavesList(m, m2, F, b)
  BY <1>7, <1>9, <1>10 DEF LeavesList
<1> QED
  BY <1>11, <1>u

LEMMA PopLinks ==
  ASSUME managedMemory \in HeapStarts, NEW m \in Memories, NEW F, NEW at, Linked(m, F, at),
         NEW l \in Level, m.blocks[l] # NIL
  PROVE  LET b == m.blocks[l]
             m2 == popFree(m, l)
         IN /\ b \in F /\ m.header[b].level = l /\ m.header[b].blockState = "FREE"
            /\ m2.header[b].prev = NIL /\ LeavesList(m, m2, F, b)
<1> DEFINE b == m.blocks[l]
           n == m.header[b].next
           m1 == [m EXCEPT !.blocks[l] = n]
           m2 == SetNext(m1, b, NIL)
           m3 == SetPrev(m2, b, NIL)
           m4 == SetPrev(m3, n, NIL)
<1>1. /\ F \subseteq HeapAddress /\ at \in [HeapAddress -> Nat] /\ NIL \notin HeapAddress /\ NIL \in Nat
      /\ b \in F /\ b \in HeapAddress /\ m.header[b].level = l /\ m.header[b].prev = NIL
      /\ m.header[b].blockState = "FREE"
  BY HeapFacts DEF Linked
<1>2. n # NIL => n \in F /\ n # b
  <2>1. n # NIL => n \in F /\ at[n] = at[b] + 1
    BY <1>1 DEF Linked
  <2>2. at[b] \in Nat
    BY <1>1
  <2> QED
    BY <2>1, <2>2
<1>3. n \in HeapAddress \cup {NIL} /\ n \in Nat
  BY <1>1, <1>2, HeapFacts
<1>u. m4 = popFree(m, l)
  BY DEF popFree
<1>b. b = m.blocks[l] /\ n = m.header[b].next
  OBVIOUS
<1> HIDE DEF b, n
<1>4. OnlyLinks(m, m1) /\ m1.header = m.header
      /\ \A k \in Level : m1.blocks[k] = IF k = l THEN n ELSE m.blocks[k]
  BY <1>3, SetHeadIs
<1> HIDE DEF m1
<1>5. m1 \in Memories
  BY <1>4 DEF OnlyLinks
<1>6. /\ OnlyLinks(m1, m2) /\ m2.blocks = m1.blocks
      /\ \A a \in HeapAddress :
              /\ m2.header[a].next = IF a = b THEN NIL ELSE m1.header[a].next
              /\ m2.header[a].prev = m1.header[a].prev
              /\ a # b => m2.header[a] = m1.header[a]
  BY <1>1, <1>5, SetNextIs
<1> HIDE DEF m2
<1>7. m2 \in Memories
  BY <1>6 DEF OnlyLinks
<1>8. /\ OnlyLinks(m2, m3) /\ m3.blocks = m2.blocks
      /\ \A a \in HeapAddress :
              /\ m3.header[a].prev = IF a = b THEN NIL ELSE m2.header[a].prev
              /\ m3.header[a].next = m2.header[a].next
              /\ a # b => m3.header[a] = m2.header[a]
  BY <1>1, <1>7, SetPrevIs
<1> HIDE DEF m3
<1>9. m3 \in Memories
  BY <1>8 DEF OnlyLinks
<1>10. /\ OnlyLinks(m3, m4) /\ m4.blocks = m3.blocks
       /\ \A a \in HeapAddress :
              /\ m4.header[a].prev = IF a = n THEN NIL ELSE m3.header[a].prev
              /\ m4.header[a].next = m3.header[a].next
              /\ a # n => m4.header[a] = m3.header[a]
  BY <1>1, <1>3, <1>9, SetPrevIs
<1> HIDE DEF m4
<1>11. OnlyLinks(m, m4)
  BY <1>4, <1>6, <1>8, <1>10 DEF OnlyLinks
<1>12. \A a \in HeapAddress : a # b /\ a # n => m4.header[a] = m.header[a]
  BY <1>4, <1>6, <1>8, <1>10
<1>13. m4.header[b].prev = NIL
  BY <1>1, <1>8, <1>10
<1>14. \E to : Linked(m4, F \ {b}, to)
  <2>1. \A k \in Level : m4.blocks[k] = IF NIL = NIL /\ k = m.header[b].level THEN n ELSE m.blocks[k]
    BY <1>1, <1>4, <1>6, <1>8, <1>10
  <2>2. \A a \in F \ {b} : /\ m4.header[a].next = IF a = NIL THEN n ELSE m.header[a].next
                           /\ m4.header[a].prev = IF a = n THEN NIL ELSE m.header[a].prev
    BY <1>1, <1>4, <1>6, <1>8, <1>10
  <2> QED
    BY <1>1, <1>11, <1>b, <2>1, <2>2, Removed
<1>15. LeavesList(m, m4, F, b)
  <2>1. \A a \in HeapAddress : a \notin F => a # b /\ a # n
    BY <1>1, <1>2
  <2> QED
    BY <1>11, <1>12, <1>14, <2>1 DEF LeavesList
<1> QED
  BY <1>1, <1>13, <1>15, <1>u, <1>b

-----------------------------------------------------------------------------
(* Blocks that are split and merged. *)
LEMMA LevelFacts ==
  ASSUME managedMemory \in HeapStarts, NEW l \in 0 .. RootLevel
  PROVE  l \in Nat /\ l \in Level /\ Pow2[l] \in Nat /\ Pow2[l] > 0 /\ Pow2[l + 1] = 2 * Pow2[l]
<1>1. l \in Nat /\ l \in Level
  BY HeapFacts
<1>2. Pow2[l] \in Nat /\ l < Pow2[l] /\ Pow2[l + 1] = 2 * Pow2[l]
  BY <1>1, Powers
<1>3. Pow2[l] > 0
  <2> DEFINE p == Pow2[l]
  <2>1. p \in Nat /\ l < p
    BY <1>2
  <2> HIDE DEF p
  <2>2. p > 0
    BY <1>1, <2>1
  <2> QED
    BY <2>2 DEF p
<1> QED
  BY <1>1, <1>2, <1>3

LEMMA TilesKept ==
  ASSUME NEW m, NEW m2, OnlyLinks(m, m2), NEW S
  PROVE  /\ Tiled(m, S) => Tiled(m2, S)
         /\ StaleAreUpper(m, S) => StaleAreUpper(m2, S)
<1>1. \A a \in HeapAddress : SizeOf(m2, a) = SizeOf(m, a)
  BY DEF OnlyLinks, SizeOf
<1>2. Tiled(m, S) => Tiled(m2, S)
  BY <1>1 DEF Tiled, OnlyLinks
<1>3. StaleAreUpper(m, S) => StaleAreUpper(m2, S)
  BY <1>1 DEF StaleAreUpper, OnlyLinks
<1> QED
  BY <1>2, <1>3

LEMMA TileFacts ==
  ASSUME managedMemory \in HeapStarts, NEW m \in Memories, NEW S, Tiled(m, S), NEW a \in S
  PROVE  /\ a \in HeapAddress /\ a \in Nat /\ a # NIL /\ End \in Nat /\ managedMemory <= a /\ a < End
         /\ m.header[a].level \in 0 .. RootLevel
         /\ SizeOf(m, a) = Pow2[m.header[a].level] /\ SizeOf(m, a) \in Nat /\ SizeOf(m, a) > 0
         /\ a + SizeOf(m, a) <= End
<1>1. a \in HeapAddress /\ m.header[a].level \in 0 .. RootLevel /\ a + SizeOf(m, a) <= End
  BY DEF Tiled
<1>2. a \in Nat /\ a # NIL /\ End \in Nat /\ managedMemory <= a /\ a < End /\ managedMemory \in Nat
  <2>1. HeapAddress = managedMemory .. End - 1 /\ managedMemory \in Nat /\ End \in Nat
        /\ NIL \notin HeapAddress
    BY HeapFacts
  <2> QED
    BY <1>1, <2>1
<1>3. Pow2[m.header[a].level] \in Nat /\ Pow2[m.header[a].level] > 0
  BY <1>1, LevelFacts
<1> QED
  BY <1>1, <1>2, <1>3 DEF SizeOf

(* The two halves of a block take its place. *)
LEMMA HalvesTile ==
  ASSUME managedMemory \in HeapStarts, NEW m \in Memories, NEW S, Tiled(m, S), StaleAreUpper(m, S),
         NEW b \in S, NEW l \in Nat, m.header[b].level = l + 1
  PROVE  LET u == b + Pow2[l]
             m2 == halves(m, b, l)
         IN /\ u \in HeapAddress \ S /\ l \in 0 .. RootLevel
            /\ m2 \in Memories /\ m2.blocks = m.blocks
            /\ m2.header[b] = FreshBlock(l) /\ m2.header[u] = FreshBlock(l)
            /\ \A a \in HeapAddress \ {b, u} : m2.header[a] = m.header[a]
            /\ Tiled(m2, S \cup {u}) /\ StaleAreUpper(m2, S \cup {u})
<1> DEFINE p == Pow2[l]
           u == b + p
           m2 == halves(m, b, l)
           h == [m.header EXCEPT ![b] = FreshBlock(l), ![u] = FreshBlock(l)]
           T == S \cup {u}
<1>1. l \in 0 .. RootLevel /\ p \in Nat /\ p > 0 /\ SizeOf(m, b) = 2 * p
      /\ b \in HeapAddress /\ b \in Nat /\ managedMemory <= b /\ b + 2 * p <= End
      /\ HeapAddress = managedMemory .. End - 1 /\ End \in Nat /\ managedMemory \in Nat
  <2>1. l + 1 \in 0 .. RootLevel /\ SizeOf(m, b) = Pow2[l + 1] /\ b + SizeOf(m, b) <= End
        /\ b \in HeapAddress /\ b \in Nat /\ managedMemory <= b
    BY TileFacts
  <2>2. l \in 0 .. RootLevel
    BY <2>1, HeapFacts
  <2> QED
    BY <2>1, <2>2, LevelFacts, HeapFacts
<1>d. Pow2[l] = p
  OBVIOUS
<1> HIDE DEF p
<1>2. u \in HeapAddress /\ u \in Nat /\ b < u /\ u + p = b + 2 * p
  BY <1>1
<1>3. u \notin S
  <2>1. u \in S => b + 2 * p <= u
    BY <1>1, <1>2 DEF Tiled
  <2> QED
    BY <1>1, <1>2, <2>1
<1>4. m.header \in [HeapAddress -> Header] /\ m.blocks \in [Level -> Nat] /\ FreshBlock(l) \in Header
  BY DEF Memories, FreshBlock, Header, NIL
<1>5. m2 = [m EXCEPT !.header = h]
  <2>1. m2 = [m EXCEPT !.header[b] = FreshBlock(l), !.header[u] = FreshBlock(l)]
    BY <1>d DEF halves
  <2> QED
    BY <1>4, <2>1 DEF Memories
<1>6. h \in [HeapAddress -> Header]
      /\ \A a \in HeapAddress : h[a] = IF a \in {b, u} THEN FreshBlock(l) ELSE m.header[a]
  BY <1>1, <1>2, <1>4
<1> HIDE DEF h, m2
<1>7. m2 \in Memories /\ m2.blocks = m.blocks /\ m2.header = h
  BY <1>4, <1>5, <1>6 DEF Memories
<1>8. /\ \A a \in HeapAddress \ {b, u} : m2.header[a] = m.header[a]
      /\ m2.header[b] = FreshBlock(l) /\ m2.header[u] = FreshBlock(l)
  BY <1>1, <1>2, <1>6, <1>7
<1>9. SizeOf(m2, b) = p /\ SizeOf(m2, u) = p /\ m2.header[b].level = l /\ m2.header[u].level = l
  BY <1>8, <1>d DEF SizeOf, FreshBlock
<1>10. \A a \in S : a \in HeapAddress /\ a # u
                    /\ (a # b => SizeOf(m2, a) = SizeOf(m, a) /\ m2.header[a].level = m.header[a].level)
  BY <1>3, <1>8 DEF Tiled, SizeOf
<1>t. \A a : a \in T <=> (a \in S \/ a = u)
  OBVIOUS
<1> HIDE DEF u, T
<1>11. Tiled(m2, T)
  <2>1. T \subseteq HeapAddress
    BY <1>2, <1>10, <1>t
  <2>2. ASSUME NEW a \in T
        PROVE  m2.header[a].level \in 0 .. RootLevel /\ a + SizeOf(m2, a) <= End
    <3>1. CASE a = b
      BY <1>1, <1>9, <3>1
    <3>2. CASE a = u
      BY <1>1, <1>2, <1>9, <3>2
    <3>3. CASE a # b /\ a # u
      BY <1>10, <1>t, <3>3 DEF Tiled
    <3> QED
      BY <3>1, <3>2, <3>3
  <2>3. ASSUME NEW x \in T, NEW y \in T, x < y
        PROVE  x + SizeOf(m2, x) <= y
    <3>0. /\ x \in Nat /\ y \in Nat
          /\ \A a \in S : a \in Nat /\ SizeOf(m, a) \in Nat
          /\ \A a, c \in S : a < c => a + SizeOf(m, a) <= c
      <4>1. \A a \in HeapAddress : a \in Nat
        BY HeapFacts
      <4>2. \A a \in S : SizeOf(m, a) \in Nat
        BY TileFacts
      <4> QED
        BY <1>10, <2>1, <4>1, <4>2 DEF Tiled
    <3>1. CASE x = b
      <4>1. CASE y = u
        BY <1>2, <1>9, <3>1, <4>1 DEF u
      <4>2. CASE y \in S
        <5>1. b + 2 * p <= y
          BY <1>1, <2>3, <3>0, <3>1, <4>2
        <5> QED
          BY <1>1, <1>9, <3>0, <3>1, <5>1
      <4> QED
        BY <1>t, <4>1, <4>2
    <3>2. CASE x = u
      <4>1. y \in S /\ b < y
        BY <1>1, <1>2, <1>t, <2>3, <3>0, <3>2
      <4>2. b + 2 * p <= y
        BY <1>1, <3>0, <4>1
      <4> QED
        BY <1>2, <1>9, <3>2, <4>2
    <3>3. CASE x \in S /\ x # b /\ y = u
      <4>1. SizeOf(m2, x) = SizeOf(m, x)
        BY <1>10, <3>3
      <4>2. x < b
        <5>1. b < x => b + 2 * p <= x
          BY <1>1, <3>0, <3>3
        <5> QED
          BY <1>1, <1>2, <2>3, <3>0, <3>3, <5>1
      <4>3. x + SizeOf(m, x) <= b
        BY <3>0, <3>3, <4>2
      <4>4. SizeOf(m, x) \in Nat
        BY <3>0, <3>3
      <4> QED
        BY <1>1, <1>2, <3>0, <3>3, <4>1, <4>3, <4>4
    <3>4. CASE x \in S /\ x # b /\ y \in S
      BY <1>10, <2>3, <3>0, <3>4
    <3> QED
      BY <1>t, <3>1, <3>2, <3>3, <3>4
  <2>4. ASSUME NEW x \in HeapAddress
        PROVE  \E a \in T : a <= x /\ x < a + SizeOf(m2, a)
    <3>1. PICK a \in S : a <= x /\ x < a + SizeOf(m, a)
      BY DEF Tiled
    <3>2. CASE a # b
      BY <1>10, <1>t, <3>1, <3>2
    <3>3. CASE a = b
      <4>1. b <= x /\ x < b + 2 * p /\ x \in Nat
        BY <1>1, <3>1, <3>3, HeapFacts
      <4>2. CASE x < u
        <5>1. b <= x /\ x < b + p
          BY <4>1, <4>2 DEF u
        <5> QED
          BY <1>9, <1>t, <5>1
      <4>3. CASE ~(x < u)
        <5>1. u <= x /\ x < u + p
          BY <1>1, <1>2, <4>1, <4>3
        <5> QED
          BY <1>9, <1>t, <5>1
      <4> QED
        BY <4>2, <4>3
    <3> QED
      BY <3>2, <3>3
  <2> QED
    BY <2>1, <2>2, <2>3, <2>4 DEF Tiled
<1>12. StaleAreUpper(m2, T)
  <2> SUFFICES ASSUME NEW a \in HeapAddress, m2.header[a].blockState = "FREE",
                      (a \div SizeOf(m2, a)) % 2 = 0, a # b, a # u
               PROVE  a \in T
    BY <1>t DEF StaleAreUpper
  <2>1. m2.header[a] = m.header[a] /\ SizeOf(m2, a) = SizeOf(m, a)
    BY <1>8 DEF SizeOf
  <2> QED
    BY <1>t, <2>1 DEF StaleAreUpper
<1> QED
  BY <1>1, <1>2, <1>3, <1>7, <1>8, <1>11, <1>12, <1>d DEF u, m2, T

(* A block whose buddy is free of the same level: the buddy is a block too, *)
(* not a header that was left behind, and the two make one block.           *)
LEMMA BuddyIsBlock ==
  ASSUME managedMemory \in HeapStarts, NEW m \in Memories, NEW S, Tiled(m, S), StaleAreUpper(m, S),
         NEW c \in S, canMerge(m, c)
  PROVE  LET l == m.header[c].level
             y == getBuddy(c, l)
         IN \E p \in S :
              /\ p = Min({c, y}) /\ p + Pow2[l] \in S
              /\ {c, y} = {p, p + Pow2[l]} /\ c # y
              /\ m.header[p].level = l /\ m.header[p + Pow2[l]].level = l
              /\ m.header[y].blockState = "FREE"
              /\ ((p + Pow2[l]) \div Pow2[l]) % 2 = 1 /\ (p \div Pow2[l]) % 2 = 0
              /\ l + 1 \in 0 .. RootLevel
<1> DEFINE l == m.header[c].level
           y == getBuddy(c, l)
           s == Pow2[l]
<1>1. /\ y # NIL /\ HeaderAt(m, y).blockState = "FREE" /\ HeaderAt(m, y).level = l
  BY DEF canMerge
<1>2. y \in HeapAddress /\ m.header[y].blockState = "FREE" /\ m.header[y].level = l
  BY <1>1 DEF HeaderAt, Data
<1>3. /\ c \in HeapAddress /\ c \in Nat /\ l \in 0 .. RootLevel /\ s \in Nat /\ s > 0
      /\ SizeOf(m, c) = s /\ c + s <= End /\ managedMemory <= c /\ y \in Nat
  <2>1. c \in HeapAddress /\ c \in Nat /\ l \in 0 .. RootLevel /\ c + SizeOf(m, c) <= End
        /\ SizeOf(m, c) = Pow2[m.header[c].level] /\ managedMemory <= c
        /\ SizeOf(m, c) \in Nat /\ SizeOf(m, c) > 0
    BY TileFacts
  <2>2. y \in Nat
    BY <1>2, HeapFacts
  <2> QED
    BY <2>1, <2>2
<1>4. y = IF (c \div s) % 2 = 0 THEN c + s ELSE c - s
  BY <1>1 DEF getBuddy
<1>l. l = m.header[c].level /\ s = Pow2[l] /\ y = getBuddy(c, l)
  OBVIOUS
<1>m. ASSUME NEW i \in Nat, NEW j \in Nat, i < j
      PROVE  Min({i, j}) = i /\ Min({j, i}) = i
  <2>1. Min({i, j}) = CHOOSE x \in {i, j} : \A z \in {i, j} : x <= z
    BY DEF Min
  <2>2. {j, i} = {i, j}
    OBVIOUS
  <2>3. Min({i, j}) = i
    BY <1>m, <2>1
  <2> QED
    BY <2>2, <2>3
<1> HIDE DEF l, y, s
<1>5. /\ (c \div s) % 2 \in {0, 1}
      /\ (c \div s) % 2 = 0 => ((c + s) \div s) % 2 = 1
      /\ (c \div s) % 2 = 1 => c >= s /\ ((c - s) \div s) % 2 = 0
  BY <1>3, BitFlips
<1>6. ASSUME NEW p \in S, p + s \in S, m.header[p + s].level = l
      PROVE  l + 1 \in 0 .. RootLevel
  <2> DEFINE root == Pow2[RootLevel]
  <2>1. p \in Nat /\ managedMemory <= p /\ managedMemory \in Nat /\ root \in Nat
        /\ End = managedMemory + root /\ RootLevel \in Nat
    BY <1>6, TileFacts, HeapFacts DEF End
  <2>2. SizeOf(m, p + s) = s /\ (p + s) + SizeOf(m, p + s) <= End
    BY <1>6, <1>l, TileFacts DEF SizeOf
  <2>3. Pow2[l + 1] = 2 * s /\ l + 1 \in Nat
    BY <1>3, <1>l, LevelFacts
  <2> HIDE DEF root
  <2>4. 2 * s <= root
    BY <1>3, <2>1, <2>2
  <2>5. l + 1 <= RootLevel
    BY <2>1, <2>3, <2>4, PowersOrdered DEF root
  <2> QED
    BY <2>1, <2>3, <2>5
<1>7. CASE (c \div s) % 2 = 0
  <2>1. y = c + s /\ (y \div s) % 2 = 1
    BY <1>4, <1>5, <1>7
  <2>2. y \in S
    <3>1. PICK a \in S : a <= y /\ y < a + SizeOf(m, a)
      BY <1>2 DEF Tiled
    <3>2. a \in Nat /\ SizeOf(m, a) \in Nat
      BY TileFacts
    <3>3. (a < c => a + SizeOf(m, a) <= c) /\ (c < a => c + s <= a)
      BY <1>3 DEF Tiled
    <3>4. a = y
      BY <1>3, <2>1, <3>1, <3>2, <3>3
    <3> QED
      BY <3>4
  <2>3. Min({c, y}) = c /\ c # y
    BY <1>3, <1>m, <2>1
  <2>4. l + 1 \in 0 .. RootLevel
    BY <1>2, <1>6, <2>1, <2>2
  <2> QED
    BY <1>2, <1>7, <1>l, <2>1, <2>2, <2>3, <2>4
<1>8. CASE (c \div s) % 2 = 1
  <2>1. y = c - s /\ (y \div s) % 2 = 0 /\ y + s = c
    BY <1>3, <1>4, <1>5, <1>8
  <2>2. y \in S
    BY <1>2, <1>l, <2>1 DEF StaleAreUpper, SizeOf
  <2>3. Min({c, y}) = y /\ c # y
    BY <1>3, <1>m, <2>1
  <2>4. l + 1 \in 0 .. RootLevel
    BY <1>6, <1>l, <2>1, <2>2
  <2>5. {c, y} = {y, y + s}
    BY <2>1
  <2> QED
    BY <1>2, <1>8, <1>l, <2>1, <2>2, <2>3, <2>4, <2>5
<1> QED
  BY <1>5, <1>7, <1>8

(* Blocks O are out, blocks F are in the lists, and there are no others. *)
Sound(m, O, F) ==
  /\ m \in Memories /\ O \cap F = {}
  /\ Tiled(m, O \cup F) /\ StaleAreUpper(m, O \cup F)
  /\ \E at : Linked(m, F, at)
  /\ \A a \in O : m.header[a].blockState = "ALLOCATED"

(* Every block lies at a multiple of its size.                              *)
Multiples(m, S) == \A a \in S : \E q \in Nat : a = q * SizeOf(m, a)

(* No two blocks of F are the halves of one. *)
NoTwins(m, F) ==
  \A a \in F : (a \div SizeOf(m, a)) % 2 = 0 =>
    ~(a + SizeOf(m, a) \in F /\ m.header[a + SizeOf(m, a)].level = m.header[a].level)

(* In m2 the free blocks p and u of m are one; c is one of them.            *)
HalvesMerged(m, m2, O, F, c, p, u) ==
  /\ p \in F /\ p # u /\ c \in {p, u} /\ Sound(m2, O, F \ {u})
  /\ m.header[p].level \in 0 .. RootLevel /\ m.header[c].level = m.header[p].level
  /\ (p \div SizeOf(m, p)) % 2 = 0
  /\ m2.header[p].level = m.header[p].level + 1
  /\ \A a \in O : m2.header[a] = m.header[a]
  /\ \A a \in HeapAddress : m2.header[a].blockState = m.header[a].blockState
  /\ \A a \in F \ {p, u} : m2.header[a].level = m.header[a].level

LEMMA MergeIsSound ==
  ASSUME managedMemory \in HeapStarts, NEW m, NEW O, NEW F, Sound(m, O, F),
         NEW c \in F, canMerge(m, c)
  PROVE  \E u \in F :
           HalvesMerged(m, mergeOnce(m, c), O, F, c, Min({c, getBuddy(c, m.header[c].level)}), u)
<1> DEFINE l == m.header[c].level
           s == Pow2[l]
           y == getBuddy(c, l)
           S == O \cup F
<1>1. /\ m \in Memories /\ O \cap F = {} /\ Tiled(m, S) /\ StaleAreUpper(m, S) /\ c \in S
      /\ \A a \in O : m.header[a].blockState = "ALLOCATED"
  BY DEF Sound
<1>2. PICK at : Linked(m, F, at)
  BY DEF Sound
<1>3. PICK p \in S :
              /\ p = Min({c, y}) /\ p + s \in S
              /\ {c, y} = {p, p + s} /\ c # y
              /\ m.header[p].level = l /\ m.header[p + s].level = l
              /\ m.header[y].blockState = "FREE"
              /\ ((p + s) \div s) % 2 = 1 /\ (p \div s) % 2 = 0
              /\ l + 1 \in 0 .. RootLevel
  <2> DEFINE X(q) == /\ q = Min({c, y}) /\ q + s \in S
              /\ {c, y} = {q, q + s} /\ c # y
              /\ m.header[q].level = l /\ m.header[q + s].level = l
              /\ m.header[y].blockState = "FREE"
              /\ ((q + s) \div s) % 2 = 1 /\ (q \div s) % 2 = 0
              /\ l + 1 \in 0 .. RootLevel
  <2>1. \E q \in S : X(q)
    BY <1>1, BuddyIsBlock
  <2> QED
    BY <2>1
<1>4. PICK u : u = p + s
  OBVIOUS
<1>5. /\ l \in 0 .. RootLevel /\ s \in Nat /\ s > 0 /\ Pow2[l + 1] = 2 * s /\ l \in Nat
  <2>1. l \in 0 .. RootLevel
    BY <1>1, TileFacts
  <2> QED
    BY <2>1, LevelFacts
<1>6. y \in F /\ c \in F /\ p \in F /\ u \in F
  <2>1. y \in S
    BY <1>3
  <2>2. y \in F
    BY <1>1, <1>3, <2>1
  <2> QED
    BY <1>3, <1>4, <2>2
<1>d. l = m.header[c].level /\ s = Pow2[l] /\ y = getBuddy(c, l) /\ S = O \cup F
  OBVIOUS
<1> DEFINE m1 == unlink(m, y)
           m2 == unlink(m1, c)
           m3 == [m2 EXCEPT !.header[p] = FreshBlock(l + 1)]
           m4 == pushFree(m3, p)
           G == (F \ {y}) \ {c}
<1>7. m4 = mergeOnce(m, c)
  BY <1>3 DEF mergeOnce
<1> HIDE DEF l, y, s, S
<1>8. F \subseteq HeapAddress /\ O \subseteq HeapAddress
  BY <1>1, <1>d DEF Tiled
<1>9. /\ OnlyLinks(m, m1) /\ m1 \in Memories
      /\ \A a \in HeapAddress : a \notin F => m1.header[a] = m.header[a]
      /\ \E to : Linked(m1, F \ {y}, to)
  <2>1. /\ OnlyLinks(m, m1)
        /\ \A a \in HeapAddress : a \notin F => m1.header[a] = m.header[a]
        /\ \E to : Linked(m1, F \ {y}, to)
    <3>1. LeavesList(m, m1, F, y)
      BY <1>1, <1>2, <1>6, UnlinkLinks
    <3> QED
      BY <3>1 DEF LeavesList
  <2>2. m1 \in Memories
    BY <2>1 DEF OnlyLinks
  <2> QED
    BY <2>1, <2>2
<1> HIDE DEF m1
<1>10. PICK to1 : Linked(m1, F \ {y}, to1)
  BY <1>9
<1>11. c \in F \ {y}
  BY <1>3, <1>6
<1>12. /\ OnlyLinks(m1, m2) /\ m2 \in Memories
       /\ \A a \in HeapAddress : a \notin F \ {y} => m2.header[a] = m1.header[a]
       /\ \E to : Linked(m2, G, to)
  <2>1. /\ OnlyLinks(m1, m2)
        /\ \A a \in HeapAddress : a \notin F \ {y} => m2.header[a] = m1.header[a]
        /\ \E to : Linked(m2, G, to)
    <3>1. LeavesList(m1, m2, F \ {y}, c)
      BY <1>9, <1>10, <1>11, UnlinkLinks
    <3> QED
      BY <3>1 DEF LeavesList
  <2>2. m2 \in Memories
    BY <2>1 DEF OnlyLinks
  <2> QED
    BY <2>1, <2>2
<1> HIDE DEF m2
<1>g. \A a : a \in G <=> a \in F /\ a # p /\ a # u
  BY <1>3, <1>4
<1>s. F \ {u} = G \cup {p} /\ S \ {u} = O \cup (F \ {u}) /\ u \in S /\ p \in S /\ u # p
  <2>1. u # p
    BY <1>3, <1>4
  <2>2. u \notin O /\ u \in F /\ p \in F
    BY <1>1, <1>6
  <2>3. F \ {u} = G \cup {p}
    BY <1>g, <2>1, <2>2
  <2>4. S \ {u} = O \cup (F \ {u})
    BY <1>d, <2>2
  <2> QED
    BY <1>d, <2>1, <2>2, <2>3, <2>4
<1> HIDE DEF G
<1>13. PICK to2 : Linked(m2, G, to2)
  BY <1>12
<1>14. OnlyLinks(m, m2) /\ Tiled(m2, S) /\ StaleAreUpper(m2, S)
  <2>1. OnlyLinks(m, m2)
    BY <1>9, <1>12 DEF OnlyLinks
  <2> QED
    BY <1>1, <2>1, TilesKept
<1>15. /\ m3 \in Memories /\ m3.blocks = m2.blocks /\ m3.header[p] = FreshBlock(l + 1)
       /\ \A a \in HeapAddress \ {p} : m3.header[a] = m2.header[a]
  <2> DEFINE h == [m2.header EXCEPT ![p] = FreshBlock(l + 1)]
  <2>1. m2.header \in [HeapAddress -> Header] /\ m2.blocks \in [Level -> Nat]
        /\ FreshBlock(l + 1) \in Header /\ p \in HeapAddress
    BY <1>5, <1>6, <1>8, <1>12 DEF Memories, FreshBlock, Header, NIL
  <2>2. m3 = [m2 EXCEPT !.header = h]
    BY <1>12, <2>1 DEF Memories
  <2>3. h \in [HeapAddress -> Header] /\ h[p] = FreshBlock(l + 1)
        /\ \A a \in HeapAddress \ {p} : h[a] = m2.header[a]
    BY <2>1
  <2> HIDE DEF h, m3
  <2>4. m3 \in Memories /\ m3.blocks = m2.blocks /\ m3.header = h
    BY <1>12, <2>1, <2>2, <2>3 DEF Memories
  <2> QED
    BY <2>3, <2>4
<1> HIDE DEF m3
<1>16. /\ m3.header[p].level = l + 1 /\ m3.header[p].blockState = "FREE" /\ m3.header[p].prev = NIL
       /\ SizeOf(m3, p) = 2 * s
  BY <1>5, <1>15 DEF FreshBlock, SizeOf
<1>17. \A a \in HeapAddress \ {p} : /\ m3.header[a].level = m2.header[a].level
                                    /\ SizeOf(m3, a) = SizeOf(m2, a)
                                    /\ m3.header[a].blockState = m2.header[a].blockState
  BY <1>15 DEF SizeOf
<1>18. Linked(m3, G, to2)
  <2>1. \A a \in G : m3.header[a] = m2.header[a]
    BY <1>8, <1>15, <1>g
  <2> QED
    BY <1>13, <1>15, <2>1, LinkedIsLocal
<1>19. SizeOf(m2, p) = s /\ SizeOf(m2, u) = s /\ m2.header[u].level = l /\ m2.header[p].level = l
  BY <1>3, <1>4, <1>6, <1>8, <1>14, <1>d DEF OnlyLinks, SizeOf
<1>20. /\ \A a \in S : a \in HeapAddress /\ a \in Nat /\ SizeOf(m2, a) \in Nat
                       /\ m2.header[a].level \in 0 .. RootLevel /\ a + SizeOf(m2, a) <= End
       /\ \A a, b \in S : a < b => a + SizeOf(m2, a) <= b
       /\ \A x \in HeapAddress : x \in Nat /\ \E a \in S : a <= x /\ x < a + SizeOf(m2, a)
  <2>1. \A a \in S : a \in HeapAddress /\ a \in Nat /\ SizeOf(m2, a) \in Nat
    BY <1>12, <1>14, TileFacts
  <2>2. \A x \in HeapAddress : x \in Nat
    BY HeapFacts
  <2> QED
    BY <1>14, <2>1, <2>2 DEF Tiled
<1>21. Tiled(m3, S \ {u})
  <2>1. S \ {u} \subseteq HeapAddress
    BY <1>20
  <2>2. ASSUME NEW a \in S \ {u}
        PROVE  m3.header[a].level \in 0 .. RootLevel /\ a + SizeOf(m3, a) <= End
    <3>1. CASE a = p
      <4>1. p + 2 * s = u + s /\ u + s <= End
        BY <1>4, <1>5, <1>19, <1>20, <1>s
      <4> QED
        BY <1>3, <1>16, <3>1, <4>1
    <3>2. CASE a # p
      BY <1>17, <1>20, <3>2
    <3> QED
      BY <3>1, <3>2
  <2>3. ASSUME NEW a \in S \ {u}, NEW b \in S \ {u}, a < b
        PROVE  a + SizeOf(m3, a) <= b
    <3>1. CASE a = p
      <4>1. p + s <= b
        BY <1>19, <1>20, <1>s, <2>3, <3>1
      <4>2. u < b
        BY <1>4, <1>20, <4>1
      <4>3. u + s <= b
        BY <1>19, <1>20, <1>s, <4>2
      <4> QED
        BY <1>4, <1>5, <1>16, <1>20, <3>1, <4>3
    <3>2. CASE a # p
      BY <1>17, <1>20, <2>3, <3>2
    <3> QED
      BY <3>1, <3>2
  <2>4. ASSUME NEW x \in HeapAddress
        PROVE  \E a \in S \ {u} : a <= x /\ x < a + SizeOf(m3, a)
    <3>1. PICK a \in S : a <= x /\ x < a + SizeOf(m2, a)
      BY <1>20
    <3>2. CASE a # p /\ a # u
      BY <1>17, <1>20, <3>1, <3>2
    <3>3. CASE a = p \/ a = u
      <4>1. p <= x /\ x < p + 2 * s
        <5>1. p \in Nat /\ x \in Nat
          BY <1>20, <1>s
        <5> QED
          BY <1>4, <1>5, <1>19, <3>1, <3>3, <5>1
      <4>2. p \in S \ {u}
        BY <1>s
      <4> QED
        BY <1>16, <4>1, <4>2
    <3> QED
      BY <3>2, <3>3
  <2> QED
    BY <2>1, <2>2, <2>3, <2>4 DEF Tiled
<1>22. StaleAreUpper(m3, S \ {u})
  <2> SUFFICES ASSUME NEW a \in HeapAddress, m3.header[a].blockState = "FREE",
                      (a \div SizeOf(m3, a)) % 2 = 0, a # p
               PROVE  a \in S \ {u}
    BY <1>s DEF StaleAreUpper
  <2>1. m2.header[a].blockState = "FREE" /\ (a \div SizeOf(m2, a)) % 2 = 0
    BY <1>17
  <2>2. a \in S
    BY <1>14, <2>1 DEF StaleAreUpper
  <2>3. a # u
    BY <1>3, <1>4, <1>19, <2>1
  <2> QED
    BY <2>2, <2>3
<1>23. p \in HeapAddress \ G
  BY <1>6, <1>8, <1>g
<1>24. /\ OnlyLinks(m3, m4)
       /\ \A a \in HeapAddress \ (G \cup {p}) : m4.header[a] = m3.header[a]
       /\ \E to : Linked(m4, G \cup {p}, to)
  <2>1. m3.header[p].level \in 0 .. RootLevel
    BY <1>3, <1>16
  <2>2. m3 \in Memories
    BY <1>15
  <2> QED
    BY <1>16, <1>18, <1>23, <2>1, <2>2, PushLinks
<1> HIDE DEF m4
<1>25. m4 \in Memories /\ Tiled(m4, S \ {u}) /\ StaleAreUpper(m4, S \ {u})
  BY <1>21, <1>22, <1>24, TilesKept DEF OnlyLinks
<1>26. \A a \in O : m4.header[a] = m.header[a]
  <2> SUFFICES ASSUME NEW a \in O PROVE m4.header[a] = m.header[a]
    OBVIOUS
  <2>1. a \in HeapAddress /\ a \notin F /\ a # p /\ a \notin G /\ a \notin F \ {y}
    BY <1>1, <1>6, <1>8, <1>g
  <2>2. m4.header[a] = m3.header[a] /\ m3.header[a] = m2.header[a]
    BY <1>15, <1>24, <2>1
  <2>3. m2.header[a] = m1.header[a] /\ m1.header[a] = m.header[a]
    BY <1>9, <1>12, <2>1
  <2> QED
    BY <2>2, <2>3
<1>27. Sound(m4, O, F \ {u})
  <2>1. O \cap (F \ {u}) = {} /\ \A a \in O : m4.header[a].blockState = "ALLOCATED"
    BY <1>1, <1>26
  <2> QED
    BY <1>24, <1>25, <1>s, <2>1 DEF Sound
<1>28. \A a \in HeapAddress : m4.header[a].blockState = m.header[a].blockState
  <2> SUFFICES ASSUME NEW a \in HeapAddress PROVE m4.header[a].blockState = m.header[a].blockState
    OBVIOUS
  <2>1. m4.header[a].blockState = m3.header[a].blockState
    BY <1>24 DEF OnlyLinks
  <2>2. m2.header[a].blockState = m.header[a].blockState
    BY <1>14 DEF OnlyLinks
  <2>3. CASE a # p
    BY <1>17, <2>1, <2>2, <2>3
  <2>4. CASE a = p
    <3>1. m.header[p].blockState = "FREE"
      BY <1>2, <1>6 DEF Linked
    <3> QED
      BY <1>16, <2>1, <2>4, <3>1
  <2> QED
    BY <2>3, <2>4
<1>29. \A a \in F \ {p, u} : m4.header[a].level = m.header[a].level
  BY <1>8, <1>14, <1>17, <1>24 DEF OnlyLinks
<1>30. m4.header[p].level = l + 1
  BY <1>16, <1>23, <1>24 DEF OnlyLinks
<1>31. /\ p = Min({c, y}) /\ {c, y} = {p, u} /\ m.header[p].level = l /\ (p \div Pow2[l]) % 2 = 0
  BY <1>3, <1>4, <1>d
<1>32. HalvesMerged(m, m4, O, F, c, p, u)
  BY <1>5, <1>6, <1>26, <1>27, <1>28, <1>29, <1>30, <1>31, <1>d, <1>s DEF HalvesMerged, SizeOf
<1> QED
  BY <1>6, <1>7, <1>31, <1>32 DEF l, y

(* A memory that merging takes m to, O being out and G free. *)
HeapIsAligned == managedMemory % Pow2[RootLevel] = 0
MergedTo(m, O, G, r) ==
  /\ Sound(r.memory, O, G) /\ r.block \in G
  /\ \A a \in O : r.memory.header[a] = m.header[a]
  /\ \A a \in HeapAddress : r.memory.header[a].blockState = m.header[a].blockState
  /\ HeapIsAligned => Multiples(r.memory, O \cup G) /\ NoTwins(r.memory, G \ {r.block})

LEMMA MergeKeepsNeat ==
  ASSUME managedMemory \in HeapStarts, NEW m, NEW m2, NEW O, NEW F, Sound(m, O, F),
         NEW c \in F, NEW p, NEW u \in F, HalvesMerged(m, m2, O, F, c, p, u),
         Multiples(m, O \cup F), NoTwins(m, F \ {c})
  PROVE  Multiples(m2, O \cup (F \ {u})) /\ NoTwins(m2, (F \ {u}) \ {p})
<1> DEFINE l == m.header[p].level
<1>0. /\ p \in F /\ p # u /\ c \in {p, u} /\ l \in 0 .. RootLevel /\ m2.header[p].level = l + 1
      /\ (p \div SizeOf(m, p)) % 2 = 0
      /\ \A a \in O : m2.header[a] = m.header[a]
      /\ \A a \in F \ {p, u} : m2.header[a].level = m.header[a].level
  BY DEF HalvesMerged
<1> DEFINE s == Pow2[l]
<1>1. /\ l \in Nat /\ s \in Nat /\ s > 0 /\ Pow2[l + 1] = 2 * s
      /\ m \in Memories /\ Tiled(m, O \cup F) /\ O \cap F = {}
  BY <1>0, LevelFacts DEF Sound
<1>2. SizeOf(m, p) = s /\ SizeOf(m2, p) = 2 * s
  BY <1>0, <1>1 DEF SizeOf
<1>3. \A a \in (O \cup F) \ {p, u} : SizeOf(m2, a) = SizeOf(m, a) /\ m2.header[a].level = m.header[a].level
  BY <1>0 DEF SizeOf
<1> HIDE DEF s, l
<1>4. \E q \in Nat : p = q * SizeOf(m2, p)
  <2>1. PICK q \in Nat : p = q * s
    BY <1>0, <1>2 DEF Multiples
  <2>2. p \div s = q
    BY <1>1, <2>1, QuotientOfMultiple
  <2>3. q % 2 = 0
    BY <1>0, <1>2, <2>2
  <2>4. PICK k \in Nat : q = 2 * k
    <3>1. q = 2 * (q \div 2) /\ q \div 2 \in Nat
      BY <2>3
    <3> QED
      BY <3>1
  <2>5. p = k * (2 * s)
    <3>1. (2 * k) * s = k * (2 * s)
      BY <1>1
    <3> QED
      BY <2>1, <2>4, <3>1
  <2> QED
    BY <1>2, <2>5
<1>5. Multiples(m2, O \cup (F \ {u}))
  <2> SUFFICES ASSUME NEW a \in O \cup (F \ {u}) PROVE \E q \in Nat : a = q * SizeOf(m2, a)
    BY DEF Multiples
  <2>1. CASE a = p
    BY <1>4, <2>1
  <2>2. CASE a # p
    <3>1. a \in (O \cup F) \ {p, u}
      BY <1>1, <2>2
    <3> QED
      BY <1>3, <3>1 DEF Multiples
  <2> QED
    BY <2>1, <2>2
<1>6. NoTwins(m2, (F \ {u}) \ {p})
  <2> SUFFICES ASSUME NEW a \in (F \ {u}) \ {p}, (a \div SizeOf(m2, a)) % 2 = 0,
                      a + SizeOf(m2, a) \in (F \ {u}) \ {p},
                      m2.header[a + SizeOf(m2, a)].level = m2.header[a].level
               PROVE  FALSE
    BY DEF NoTwins
  <2> DEFINE b == a + SizeOf(m2, a)
  <2>1. a \in F \ {c} /\ b \in F \ {c} /\ SizeOf(m2, a) = SizeOf(m, a)
        /\ m2.header[a].level = m.header[a].level /\ m2.header[b].level = m.header[b].level
    BY <1>0, <1>3
  <2> QED
    BY <2>1 DEF NoTwins
<1> QED
  BY <1>5, <1>6

MergeBody(r) ==
  IF canMerge(r.memory, r.block)
  THEN [memory |-> mergeOnce(r.memory, r.block),
        block  |-> Min({r.block, getBuddy(r.block, r.memory.header[r.block].level)})]
  ELSE r

LEMMA MergeBodyIsSound ==
  ASSUME managedMemory \in HeapStarts, NEW m, NEW O, NEW F, NEW r, MergedTo(m, O, F, r),
         NEW n \in Nat,
         n <= r.memory.header[r.block].level \/ ~canMerge(r.memory, r.block)
  PROVE  \E G : /\ MergedTo(m, O, G, MergeBody(r))
                /\ \/ n + 1 <= MergeBody(r).memory.header[MergeBody(r).block].level
                   \/ ~canMerge(MergeBody(r).memory, MergeBody(r).block)
<1>1. CASE ~canMerge(r.memory, r.block)
  BY <1>1 DEF MergeBody
<1>2. CASE canMerge(r.memory, r.block)
  <2> DEFINE k == r.memory
             c == r.block
             p == Min({c, getBuddy(c, k.header[c].level)})
             m2 == mergeOnce(k, c)
  <2>1. Sound(k, O, F) /\ c \in F
    BY DEF MergedTo
  <2>2. PICK u \in F : HalvesMerged(k, m2, O, F, c, p, u)
    BY <1>2, <2>1, MergeIsSound
  <2>3. MergeBody(r) = [memory |-> m2, block |-> p]
    BY <1>2 DEF MergeBody
  <2>4. HeapIsAligned => Multiples(m2, O \cup (F \ {u})) /\ NoTwins(m2, (F \ {u}) \ {p})
    <3> SUFFICES ASSUME HeapIsAligned
                 PROVE  Multiples(m2, O \cup (F \ {u})) /\ NoTwins(m2, (F \ {u}) \ {p})
      OBVIOUS
    <3>1. Multiples(k, O \cup F) /\ NoTwins(k, F \ {c})
      BY DEF MergedTo
    <3> HIDE DEF k, c, p, m2
    <3> QED
      BY <2>1, <2>2, <3>1, MergeKeepsNeat
  <2>5. /\ \A a \in O : m2.header[a] = m.header[a]
        /\ \A a \in HeapAddress : m2.header[a].blockState = m.header[a].blockState
    <3>1. /\ \A a \in O : m2.header[a] = k.header[a]
          /\ \A a \in HeapAddress : m2.header[a].blockState = k.header[a].blockState
      BY <2>2 DEF HalvesMerged
    <3> HIDE DEF m2
    <3> QED
      BY <3>1 DEF MergedTo
  <2> DEFINE l == k.header[p].level
  <2>6. /\ l \in 0 .. RootLevel /\ m2.header[p].level = l + 1 /\ k.header[c].level = l
        /\ p \in F \ {u} /\ Sound(m2, O, F \ {u})
    BY <2>2 DEF HalvesMerged
  <2> HIDE DEF m2, p, l
  <2>7. n + 1 <= m2.header[p].level
    <3>1. n <= l /\ l \in Nat
      BY <1>2, <2>6, HeapFacts
    <3> QED
      BY <2>6, <3>1
  <2>8. MergedTo(m, O, F \ {u}, MergeBody(r))
    BY <2>3, <2>4, <2>5, <2>6 DEF MergedTo
  <2> QED
    BY <2>3, <2>7, <2>8
<1> QED
  BY <1>1, <1>2

MergeStep(m, b, it, n) == IF n = 0 THEN [memory |-> m, block |-> b] ELSE MergeBody(it[n - 1])

LEMMA MergingExists ==
  ASSUME NEW m, NEW b
  PROVE  \E it : it = [n \in 0 .. BLOCKS |-> MergeStep(m, b, it, n)]
<1> DEFINE UpTo(k, it) == \A n \in 0 .. BLOCKS : n <= k => it[n] = MergeStep(m, b, it, n)
           A == {k \in Nat : \E it : it = [n \in 0 .. BLOCKS |-> it[n]] /\ UpTo(k, it)}
<1>0. BLOCKS \in Nat
  BY BuddyAssumption
<1>1. 0 \in A
  <2> DEFINE it == [n \in 0 .. BLOCKS |-> [memory |-> m, block |-> b]]
  <2>1. it = [n \in 0 .. BLOCKS |-> it[n]] /\ UpTo(0, it)
    BY <1>0 DEF MergeStep
  <2> HIDE DEF it, UpTo
  <2> QED
    BY <2>1
<1>2. ASSUME NEW k \in Nat, k \in A PROVE k + 1 \in A
  <2>1. PICK it : it = [n \in 0 .. BLOCKS |-> it[n]] /\ UpTo(k, it)
    BY <1>2
  <2> DEFINE jt == [n \in 0 .. BLOCKS |-> MergeStep(m, b, it, n)]
  <2>2. ASSUME NEW n \in 0 .. BLOCKS, n <= k + 1 PROVE jt[n] = MergeStep(m, b, jt, n)
    <3>1. CASE n = 0
      BY <3>1 DEF MergeStep
    <3>2. CASE n # 0
      <4>1. n - 1 \in 0 .. BLOCKS /\ n - 1 <= k
        BY <1>0, <2>2, <3>2
      <4>2. it[n - 1] = MergeStep(m, b, it, n - 1)
        BY <2>1, <4>1
      <4>3. jt[n - 1] = it[n - 1]
        BY <4>1, <4>2
      <4> QED
        BY <3>2, <4>3 DEF MergeStep
    <3> QED
      BY <3>1, <3>2
  <2>3. jt = [n \in 0 .. BLOCKS |-> jt[n]]
    OBVIOUS
  <2>4. UpTo(k + 1, jt)
    BY <2>2
  <2> HIDE DEF jt, UpTo
  <2>5. \E it_1 : it_1 = [n \in 0 .. BLOCKS |-> it_1[n]] /\ UpTo(k + 1, it_1)
    BY <2>3, <2>4
  <2>6. k + 1 \in Nat
    OBVIOUS
  <2> QED
    BY <2>5, <2>6, Zenon
<1> HIDE DEF A
<1>3. BLOCKS \in A
  BY <1>0, <1>1, <1>2, AllNaturals
<1>4. PICK it : it = [n \in 0 .. BLOCKS |-> it[n]] /\ UpTo(BLOCKS, it)
  BY <1>3 DEF A
<1>5. it = [n \in 0 .. BLOCKS |-> MergeStep(m, b, it, n)]
  <2>1. \A n \in 0 .. BLOCKS : it[n] = MergeStep(m, b, it, n)
    BY <1>0, <1>4
  <2> QED
    BY <1>4, <2>1
<1> QED
  BY <1>5

(* What mergeBlocks() takes m to: the blocks O that are out are as before.  *)
MergedFrom(m, r, O) ==
  \E G : /\ Sound(r, O, G)
         /\ \A a \in O : r.header[a] = m.header[a]
         /\ \A a \in HeapAddress : r.header[a].blockState = m.header[a].blockState
         /\ HeapIsAligned => Multiples(r, O \cup G) /\ NoTwins(r, G)

(* mergeBlocks() leaves a sound memory in which no two halves are free.     *)
LEMMA MergesAreSound ==
  ASSUME managedMemory \in HeapStarts, NEW m, NEW O, NEW F, NEW c,
         MergedTo(m, O, F, [memory |-> m, block |-> c])
  PROVE  MergedFrom(m, mergeBlocks(m, c), O)
<1> DEFINE it == CHOOSE it : it = [n \in 0 .. BLOCKS |-> MergeStep(m, c, it, n)]
<1>0. BLOCKS \in Nat /\ RootLevel \in Nat /\ RootLevel < BLOCKS
  BY BuddyAssumption
<1>1. it = [n \in 0 .. BLOCKS |-> MergeStep(m, c, it, n)]
  BY MergingExists
<1>2. mergeBlocks(m, c) = it[BLOCKS].memory
  BY DEF mergeBlocks, MergeStep, MergeBody
<1> HIDE DEF it
<1>3. it[0] = [memory |-> m, block |-> c]
      /\ \A n \in Nat : n + 1 <= BLOCKS => it[n + 1] = MergeBody(it[n])
  <2>1. \A n \in 0 .. BLOCKS : it[n] = MergeStep(m, c, it, n)
    BY <1>1
  <2>2. it[0] = [memory |-> m, block |-> c]
    BY <1>0, <2>1 DEF MergeStep
  <2>3. ASSUME NEW n \in Nat, n + 1 <= BLOCKS PROVE it[n + 1] = MergeBody(it[n])
    <3>1. n + 1 \in 0 .. BLOCKS /\ n + 1 # 0 /\ (n + 1) - 1 = n
      BY <1>0, <2>3
    <3> QED
      BY <2>1, <3>1 DEF MergeStep
  <2> QED
    BY <2>2, <2>3
<1> DEFINE Late(r, n) == n <= r.memory.header[r.block].level \/ ~canMerge(r.memory, r.block)
           A == {n \in Nat : n <= BLOCKS => \E G : MergedTo(m, O, G, it[n]) /\ Late(it[n], n)}
<1>4. 0 \in A
  <2>1. Late(it[0], 0)
    <3>1. m.header[c].level \in 0 .. RootLevel
      <4>1. m \in Memories /\ Tiled(m, O \cup F) /\ c \in O \cup F
        BY DEF MergedTo, Sound
      <4> QED
        BY <4>1, TileFacts
    <3>2. 0 <= m.header[c].level
      BY <3>1
    <3> QED
      BY <1>3, <3>2
  <2> QED
    BY <1>3, <2>1
<1>5. ASSUME NEW n \in Nat, n \in A PROVE n + 1 \in A
  <2> SUFFICES ASSUME n + 1 <= BLOCKS
               PROVE  \E G : MergedTo(m, O, G, it[n + 1]) /\ Late(it[n + 1], n + 1)
    OBVIOUS
  <2>1. PICK G : MergedTo(m, O, G, it[n]) /\ Late(it[n], n)
    BY <1>0, <1>5
  <2>2. \E H : MergedTo(m, O, H, MergeBody(it[n])) /\ Late(MergeBody(it[n]), n + 1)
    BY <2>1, MergeBodyIsSound
  <2>3. it[n + 1] = MergeBody(it[n])
    BY <1>3
  <2> HIDE DEF Late
  <2> QED
    BY <2>2, <2>3
<1> HIDE DEF A
<1>6. BLOCKS \in A
  BY <1>0, <1>4, <1>5, AllNaturals
<1>7. PICK r : r = it[BLOCKS]
  OBVIOUS
<1>8. PICK G : MergedTo(m, O, G, r) /\ Late(r, BLOCKS)
  BY <1>0, <1>6, <1>7 DEF A
<1>9. ~canMerge(r.memory, r.block)
  <2>1. r.memory.header[r.block].level \in 0 .. RootLevel
    <3>1. r.memory \in Memories /\ Tiled(r.memory, O \cup G) /\ r.block \in O \cup G
      BY <1>8 DEF MergedTo, Sound
    <3> QED
      BY <3>1, TileFacts
  <2>2. ~(BLOCKS <= r.memory.header[r.block].level)
    BY <1>0, <2>1
  <2> QED
    BY <1>8, <2>2
<1>10. ASSUME HeapIsAligned PROVE NoTwins(r.memory, G)
  <2> DEFINE k == r.memory
             b == r.block
  <2> SUFFICES ASSUME NEW a \in G, (a \div SizeOf(k, a)) % 2 = 0,
                      a + SizeOf(k, a) \in G, k.header[a + SizeOf(k, a)].level = k.header[a].level
               PROVE  FALSE
    BY DEF NoTwins
  <2> DEFINE s == SizeOf(k, a)
             l == k.header[a].level
             u == a + s
  <2>0. Sound(k, O, G) /\ NoTwins(k, G \ {b}) /\ b \in G
    BY <1>8, <1>10 DEF MergedTo
  <2>1. a = b \/ u = b
    BY <2>0 DEF NoTwins
  <2>2. /\ k \in Memories /\ Tiled(k, O \cup G) /\ a \in O \cup G /\ u \in O \cup G
        /\ k.header[a].blockState = "FREE" /\ k.header[u].blockState = "FREE"
    BY <2>0 DEF Sound, Linked
  <2>3. /\ a \in Nat /\ s \in Nat /\ s > 0 /\ s = Pow2[l] /\ l \in 0 .. RootLevel
        /\ a \in HeapAddress /\ u \in HeapAddress /\ a # NIL /\ u # NIL
        /\ managedMemory <= a /\ a < End /\ managedMemory <= u /\ u < End
    BY <2>2, TileFacts
  <2> HIDE DEF k, b, s, l, u
  <2>4. a \in managedMemory .. managedMemory + MemorySize - 1
        /\ u \in managedMemory .. managedMemory + MemorySize - 1
    <3> DEFINE root == Pow2[RootLevel]
    <3>1. managedMemory \in Nat /\ root \in Nat /\ MemorySize >= root /\ End = managedMemory + root
          /\ u \in Nat
      BY <2>3, HeapFacts DEF End
    <3> HIDE DEF root
    <3>2. MemorySize \in Int
      BY BuddyAssumption
    <3> QED
      BY <2>3, <3>1, <3>2
  <2>5. u = a + s /\ k.header[a].level = l /\ k.header[u].level = l /\ (a \div s) % 2 = 0
    BY DEF u, l, s
  <2>6. (u \div s) % 2 = 1 /\ u - s = a
    <3>1. ((a + s) \div s) % 2 = 1
      BY <2>3, <2>5, BitFlips
    <3>2. (a + s) - s = a
      BY <2>3
    <3> QED
      BY <2>5, <3>1, <3>2
  <2>7. getBuddy(a, l) = u /\ getBuddy(u, l) = a
    BY <2>3, <2>4, <2>5, <2>6 DEF getBuddy
  <2>8. l < BLOCKS
    BY <1>0, <2>3
  <2>9. canMerge(k, a) /\ canMerge(k, u)
    BY <2>2, <2>3, <2>5, <2>7, <2>8 DEF canMerge, HeaderAt
  <2> QED
    BY <1>9, <2>1, <2>9 DEF k, b
<1> QED
  BY <1>2, <1>7, <1>8, <1>10 DEF MergedTo, MergedFrom

-----------------------------------------------------------------------------
(* b is in no list and nobody owns it yet: findFreeBlock() holds it.        *)
Held(m, O, F, b) ==
  /\ m \in Memories /\ O \cap F = {} /\ b \notin O /\ b \notin F
  /\ Tiled(m, (O \cup F) \cup {b}) /\ StaleAreUpper(m, (O \cup F) \cup {b})
  /\ \E at : Linked(m, F, at)
  /\ m.header[b].blockState = "FREE" /\ m.header[b].prev = NIL
  /\ \A a \in O : m.header[a].blockState = "ALLOCATED"

(* A memory that splitting takes m to, b being left with level k.           *)
SplitTo(m, O, F, b, k, m2) ==
  /\ Held(m2, O, F, b) /\ m2.header[b].level = k
  /\ \A a \in O : m2.header[a] = m.header[a]
  /\ \A a \in HeapAddress : m2.header[a].blockState = "ALLOCATED" => m.header[a].blockState = "ALLOCATED"
  /\ HeapIsAligned => Multiples(m2, (O \cup F) \cup {b}) /\ NoTwins(m2, F)

SplitBody(m, b, l) == pushFree(halves(m, b, l), b + Pow2[l])

LEMMA SplitKeepsNeat ==
  ASSUME managedMemory \in HeapStarts, NEW m, NEW m2, NEW O, NEW F, NEW b, Held(m, O, F, b),
         NEW l \in 0 .. RootLevel, m.header[b].level = l + 1, NEW u, u = b + Pow2[l],
         u \notin (O \cup F) \cup {b},
         m2.header[b].level = l, m2.header[u].level = l,
         \A a \in O \cup F : m2.header[a].level = m.header[a].level,
         Multiples(m, (O \cup F) \cup {b}), NoTwins(m, F)
  PROVE  Multiples(m2, (O \cup (F \cup {u})) \cup {b}) /\ NoTwins(m2, F \cup {u})
<1> DEFINE s == Pow2[l]
<1>1. /\ l \in Nat /\ s \in Nat /\ s > 0 /\ Pow2[l + 1] = 2 * s /\ b \notin O /\ b \notin F
  BY LevelFacts DEF Held
<1>2. SizeOf(m, b) = 2 * s /\ SizeOf(m2, b) = s /\ SizeOf(m2, u) = s
  BY <1>1 DEF SizeOf
<1>3. \A a \in O \cup F : SizeOf(m2, a) = SizeOf(m, a)
  BY DEF SizeOf
<1>4. PICK q \in Nat : b = q * (2 * s)
  BY <1>2 DEF Multiples
<1>s. u = b + s
  OBVIOUS
<1> HIDE DEF s
<1>5. b = (2 * q) * s /\ u = (2 * q + 1) * s
  <2>1. q * (2 * s) = (2 * q) * s /\ (2 * q) * s + s = (2 * q + 1) * s
    BY <1>1
  <2> QED
    BY <1>4, <1>s, <2>1
<1>6. Multiples(m2, (O \cup (F \cup {u})) \cup {b})
  <2> SUFFICES ASSUME NEW a \in (O \cup (F \cup {u})) \cup {b} PROVE \E k \in Nat : a = k * SizeOf(m2, a)
    BY DEF Multiples
  <2>1. CASE a = b
    <3>1. 2 * q \in Nat
      OBVIOUS
    <3> QED
      BY <1>2, <1>5, <2>1, <3>1
  <2>2. CASE a = u
    <3>1. 2 * q + 1 \in Nat
      OBVIOUS
    <3> QED
      BY <1>2, <1>5, <2>2, <3>1
  <2>3. CASE a \in O \cup F
    BY <1>3, <2>3 DEF Multiples
  <2> QED
    BY <2>1, <2>2, <2>3
<1>7. NoTwins(m2, F \cup {u})
  <2> SUFFICES ASSUME NEW a \in F \cup {u}, (a \div SizeOf(m2, a)) % 2 = 0,
                      a + SizeOf(m2, a) \in F \cup {u},
                      m2.header[a + SizeOf(m2, a)].level = m2.header[a].level
               PROVE  FALSE
    BY DEF NoTwins
  <2>1. CASE a = u
    <3>1. u \div s = 2 * q + 1
      <4>1. 2 * q + 1 \in Nat
        OBVIOUS
      <4> QED
        BY <1>1, <1>5, <4>1, QuotientOfMultiple
    <3>2. (2 * q + 1) % 2 = 1
      OBVIOUS
    <3> QED
      BY <1>2, <2>1, <3>1, <3>2
  <2>2. CASE a \in F /\ a + SizeOf(m2, a) = u
    <3>1. m2.header[a].level = l
      BY <2>2
    <3>2. SizeOf(m2, a) = s
      BY <3>1 DEF SizeOf, s
    <3>3. a \in Nat
      <4>1. a \in (O \cup F) \cup {b} /\ m \in Memories /\ Tiled(m, (O \cup F) \cup {b})
        BY <2>2 DEF Held
      <4> QED
        BY <4>1, TileFacts
    <3>4. b \in Nat
      BY <1>1, <1>5
    <3>5. a = b
      BY <1>1, <1>s, <2>2, <3>2, <3>3, <3>4
    <3> QED
      BY <1>1, <2>2, <3>5
  <2>3. CASE a \in F /\ a + SizeOf(m2, a) \in F
    <3>1. SizeOf(m2, a) = SizeOf(m, a) /\ m2.header[a].level = m.header[a].level
      BY <1>3, <2>3
    <3>2. m2.header[a + SizeOf(m, a)].level = m.header[a + SizeOf(m, a)].level
      BY <2>3, <3>1
    <3> QED
      BY <2>3, <3>1, <3>2 DEF NoTwins
  <2> QED
    BY <2>1, <2>2, <2>3
<1> QED
  BY <1>6, <1>7

LEMMA SplitBodyIsSound ==
  ASSUME managedMemory \in HeapStarts, NEW m, NEW O, NEW F, NEW b, NEW l \in Nat, NEW m1,
         SplitTo(m, O, F, b, l + 1, m1)
  PROVE  \E G : SplitTo(m, O, G, b, l, SplitBody(m1, b, l))
<1> DEFINE S == (O \cup F) \cup {b}
           u == b + Pow2[l]
           m2 == halves(m1, b, l)
           m3 == pushFree(m2, u)
           G == F \cup {u}
<1>1. /\ Held(m1, O, F, b) /\ m1.header[b].level = l + 1
      /\ \A a \in O : m1.header[a] = m.header[a]
      /\ \A a \in HeapAddress : m1.header[a].blockState = "ALLOCATED" => m.header[a].blockState = "ALLOCATED"
  BY DEF SplitTo
<1>2. /\ m1 \in Memories /\ O \cap F = {} /\ b \notin O /\ b \notin F /\ b \in S
      /\ Tiled(m1, S) /\ StaleAreUpper(m1, S)
      /\ m1.header[b].blockState = "FREE"
      /\ \A a \in O : m1.header[a].blockState = "ALLOCATED"
  BY <1>1 DEF Held
<1>3. PICK at : Linked(m1, F, at)
  BY <1>1 DEF Held
<1>4. /\ u \in HeapAddress \ S /\ l \in 0 .. RootLevel
      /\ m2 \in Memories /\ m2.blocks = m1.blocks
      /\ m2.header[b] = FreshBlock(l) /\ m2.header[u] = FreshBlock(l)
      /\ \A a \in HeapAddress \ {b, u} : m2.header[a] = m1.header[a]
      /\ Tiled(m2, S \cup {u}) /\ StaleAreUpper(m2, S \cup {u})
  <2> HIDE DEF S
  <2> QED
    BY <1>1, <1>2, HalvesTile
<1>5. SplitBody(m1, b, l) = m3
  BY DEF SplitBody
<1>d. u = b + Pow2[l]
  OBVIOUS
<1> HIDE DEF u, m2
<1>6. S \subseteq HeapAddress /\ u \notin S /\ u \notin F /\ u \notin O /\ u # b /\ b \in HeapAddress
      /\ F \subseteq HeapAddress /\ O \subseteq HeapAddress
  BY <1>2, <1>4 DEF Tiled
<1>7. Linked(m2, F, at)
  <2>1. \A a \in F : m2.header[a] = m1.header[a]
    BY <1>2, <1>4, <1>6
  <2> QED
    BY <1>3, <1>4, <2>1, LinkedIsLocal
<1>8. /\ OnlyLinks(m2, m3)
      /\ \A a \in HeapAddress \ (F \cup {u}) : m3.header[a] = m2.header[a]
      /\ \E to : Linked(m3, F \cup {u}, to)
  <2>1. /\ u \in HeapAddress \ F /\ m2.header[u].level \in 0 .. RootLevel
        /\ m2.header[u].blockState = "FREE" /\ m2.header[u].prev = NIL
    BY <1>4, <1>6 DEF FreshBlock
  <2>2. m2 \in Memories
    BY <1>4
  <2> QED
    BY <1>7, <2>1, <2>2, PushLinks
<1> HIDE DEF m3
<1>9. m3 \in Memories /\ Tiled(m3, (O \cup G) \cup {b}) /\ StaleAreUpper(m3, (O \cup G) \cup {b})
  <2>1. (O \cup G) \cup {b} = S \cup {u}
    OBVIOUS
  <2>2. m3 \in Memories
    BY <1>8 DEF OnlyLinks
  <2> QED
    BY <1>4, <1>8, <2>1, <2>2, TilesKept
<1>10. m3.header[b] = FreshBlock(l) /\ \A a \in O : m3.header[a] = m1.header[a]
  <2>1. m3.header[b] = m2.header[b]
    BY <1>2, <1>6, <1>8
  <2>2. \A a \in O : m3.header[a] = m2.header[a] /\ m2.header[a] = m1.header[a]
    BY <1>2, <1>4, <1>6, <1>8
  <2> QED
    BY <1>4, <2>1, <2>2
<1>11. Held(m3, O, G, b)
  <2>1. O \cap G = {} /\ b \notin G
    BY <1>2, <1>6
  <2>2. m3.header[b].blockState = "FREE" /\ m3.header[b].prev = NIL
    BY <1>10 DEF FreshBlock
  <2> QED
    BY <1>2, <1>8, <1>9, <1>10, <2>1, <2>2 DEF Held
<1>12. \A a \in HeapAddress : m3.header[a].blockState = "ALLOCATED" => m.header[a].blockState = "ALLOCATED"
  <2> SUFFICES ASSUME NEW a \in HeapAddress, m3.header[a].blockState = "ALLOCATED"
               PROVE  m.header[a].blockState = "ALLOCATED"
    OBVIOUS
  <2>1. m2.header[a].blockState = "ALLOCATED"
    BY <1>8 DEF OnlyLinks
  <2>2. a # b /\ a # u
    BY <1>4, <2>1 DEF FreshBlock
  <2> QED
    BY <1>1, <1>4, <2>1, <2>2
<1>13. HeapIsAligned => Multiples(m3, (O \cup G) \cup {b}) /\ NoTwins(m3, G)
  <2> SUFFICES ASSUME HeapIsAligned
               PROVE  Multiples(m3, (O \cup G) \cup {b}) /\ NoTwins(m3, G)
    OBVIOUS
  <2>1. Multiples(m1, (O \cup F) \cup {b}) /\ NoTwins(m1, F)
    BY DEF SplitTo
  <2>2. m3.header[b].level = l /\ m3.header[u].level = l
    BY <1>4, <1>8, <1>10 DEF OnlyLinks, FreshBlock
  <2>3. \A a \in O \cup F : m3.header[a].level = m1.header[a].level
    <3>1. \A a \in O \cup F : a \in HeapAddress /\ a # b /\ a # u
      BY <1>2, <1>6
    <3> QED
      BY <1>4, <1>8, <3>1 DEF OnlyLinks
  <2> QED
    BY <1>1, <1>4, <1>d, <2>1, <2>2, <2>3, SplitKeepsNeat
<1>14. m3.header[b].level = l
  BY <1>10 DEF FreshBlock
<1>15. SplitTo(m, O, G, b, l, m3)
  BY <1>1, <1>10, <1>11, <1>12, <1>13, <1>14 DEF SplitTo
<1> QED
  BY <1>5, <1>15

SplitStep(m, b, k, it, n) == IF n = 0 THEN m ELSE SplitBody(it[n - 1], b, k - n)

LEMMA SplittingExists ==
  ASSUME NEW m, NEW b, NEW k, NEW N \in Nat
  PROVE  \E it : it = [n \in 0 .. N |-> SplitStep(m, b, k, it, n)]
<1> DEFINE UpTo(j, it) == \A n \in 0 .. N : n <= j => it[n] = SplitStep(m, b, k, it, n)
           A == {j \in Nat : \E it : it = [n \in 0 .. N |-> it[n]] /\ UpTo(j, it)}
<1>1. 0 \in A
  <2> DEFINE it == [n \in 0 .. N |-> m]
  <2>1. it = [n \in 0 .. N |-> it[n]] /\ UpTo(0, it)
    BY DEF SplitStep
  <2> HIDE DEF it, UpTo
  <2> QED
    BY <2>1
<1>2. ASSUME NEW j \in Nat, j \in A PROVE j + 1 \in A
  <2>1. PICK it : it = [n \in 0 .. N |-> it[n]] /\ UpTo(j, it)
    BY <1>2
  <2> DEFINE jt == [n \in 0 .. N |-> SplitStep(m, b, k, it, n)]
  <2>2. ASSUME NEW n \in 0 .. N, n <= j + 1 PROVE jt[n] = SplitStep(m, b, k, jt, n)
    <3>1. CASE n = 0
      BY <3>1 DEF SplitStep
    <3>2. CASE n # 0
      <4>1. n - 1 \in 0 .. N /\ n - 1 <= j
        BY <2>2, <3>2
      <4>2. it[n - 1] = SplitStep(m, b, k, it, n - 1)
        BY <2>1, <4>1
      <4>3. jt[n - 1] = it[n - 1]
        BY <4>1, <4>2
      <4> QED
        BY <3>2, <4>3 DEF SplitStep
    <3> QED
      BY <3>1, <3>2
  <2>3. jt = [n \in 0 .. N |-> jt[n]]
    OBVIOUS
  <2>4. UpTo(j + 1, jt)
    BY <2>2
  <2> HIDE DEF jt, UpTo
  <2>5. \E it_1 : it_1 = [n \in 0 .. N |-> it_1[n]] /\ UpTo(j + 1, it_1)
    BY <2>3, <2>4
  <2>6. j + 1 \in Nat
    OBVIOUS
  <2> QED
    BY <2>5, <2>6, Zenon
<1> HIDE DEF A
<1>3. N \in A
  BY <1>1, <1>2, AllNaturals
<1>4. PICK it : it = [n \in 0 .. N |-> it[n]] /\ UpTo(N, it)
  BY <1>3 DEF A
<1>5. it = [n \in 0 .. N |-> SplitStep(m, b, k, it, n)]
  <2>1. \A n \in 0 .. N : it[n] = SplitStep(m, b, k, it, n)
    BY <1>4
  <2> QED
    BY <1>4, <2>1
<1> QED
  BY <1>5

LEMMA SplitsAreSound ==
  ASSUME managedMemory \in HeapStarts, NEW m, NEW O, NEW F, NEW b,
         NEW i \in Nat, NEW l \in Nat, l <= i, SplitTo(m, O, F, b, i, m)
  PROVE  \E G : SplitTo(m, O, G, b, l, splitBlockToLevel(m, b, i, l))
<1> DEFINE N == i - l
           it == CHOOSE it : it = [n \in 0 .. N |-> SplitStep(m, b, i, it, n)]
<1>0. N \in Nat /\ i - N = l
  OBVIOUS
<1>d. N = i - l
  OBVIOUS
<1>1. it = [n \in 0 .. N |-> SplitStep(m, b, i, it, n)]
  <2> HIDE DEF N
  <2> QED
    BY <1>0, SplittingExists
<1>2. splitBlockToLevel(m, b, i, l) = it[N]
  BY DEF splitBlockToLevel, SplitStep, SplitBody
<1> HIDE DEF it, N
<1>3. it[0] = m /\ \A n \in Nat : n + 1 <= N => it[n + 1] = SplitBody(it[n], b, i - (n + 1))
  <2>1. \A n \in 0 .. N : it[n] = SplitStep(m, b, i, it, n)
    BY <1>1
  <2>2. it[0] = m
    BY <1>0, <2>1 DEF SplitStep
  <2>3. ASSUME NEW n \in Nat, n + 1 <= N PROVE it[n + 1] = SplitBody(it[n], b, i - (n + 1))
    <3>1. n + 1 \in 0 .. N /\ n + 1 # 0 /\ (n + 1) - 1 = n
      BY <1>0, <2>3
    <3> QED
      BY <2>1, <3>1 DEF SplitStep
  <2> QED
    BY <2>2, <2>3
<1> DEFINE A == {n \in Nat : n <= N => \E G : SplitTo(m, O, G, b, i - n, it[n])}
<1>4. 0 \in A
  <2>1. i - 0 = i
    OBVIOUS
  <2> QED
    BY <1>3, <2>1
<1>5. ASSUME NEW n \in Nat, n \in A PROVE n + 1 \in A
  <2> SUFFICES ASSUME n + 1 <= N
               PROVE  \E G : SplitTo(m, O, G, b, i - (n + 1), it[n + 1])
    OBVIOUS
  <2>1. PICK G : SplitTo(m, O, G, b, i - n, it[n])
    BY <1>0, <1>5
  <2>2. PICK k \in Nat : k = i - (n + 1) /\ k + 1 = i - n
    <3>1. i - (n + 1) \in Nat /\ (i - (n + 1)) + 1 = i - n
      BY <1>0, <1>d
    <3> QED
      BY <3>1
  <2>3. SplitTo(m, O, G, b, k + 1, it[n])
    BY <2>1, <2>2
  <2>4. \E H : SplitTo(m, O, H, b, k, SplitBody(it[n], b, k))
    BY <2>3, SplitBodyIsSound
  <2> QED
    BY <1>3, <2>2, <2>4
<1> HIDE DEF A
<1>6. N \in A
  BY <1>0, <1>4, <1>5, AllNaturals
<1>7. \E G : SplitTo(m, O, G, b, i - N, it[N])
  BY <1>0, <1>6 DEF A
<1> QED
  BY <1>0, <1>2, <1>7

-----------------------------------------------------------------------------
(* A block that is given out, its inside being its owner's from now on.     *)
GivenOut(m, b, l, written) ==
  [header |-> [a \in HeapAddress |->
                IF a = b THEN [m.header[b] EXCEPT !.blockState = "ALLOCATED"]
                ELSE IF written /\ a \in Inside(b, l) THEN Data ELSE m.header[a]],
   blocks |-> m.blocks]

OutFrom(m, r, O, F, b, l) ==
  /\ Sound(r, O \cup {b}, F) /\ l \in 0 .. RootLevel /\ b \in HeapAddress /\ b \notin O
  /\ r.header[b].level = l /\ r.header[b].prev = NIL
  /\ \A a \in O : r.header[a] = m.header[a]
  /\ \A a \in HeapAddress \ {b} :
       r.header[a].blockState = "ALLOCATED" => m.header[a].blockState = "ALLOCATED"
  /\ HeapIsAligned => Multiples(r, (O \cup {b}) \cup F) /\ NoTwins(r, F)

LEMMA GivenOutIsSound ==
  ASSUME managedMemory \in HeapStarts, NEW m0, NEW O, NEW F, NEW b, NEW l \in Nat, NEW m,
         SplitTo(m0, O, F, b, l, m), NEW written \in BOOLEAN, NEW r, r = GivenOut(m, b, l, written)
  PROVE  OutFrom(m0, r, O, F, b, l)
<1> DEFINE S == (O \cup F) \cup {b}
           h == [a \in HeapAddress |->
                IF a = b THEN [m.header[b] EXCEPT !.blockState = "ALLOCATED"]
                ELSE IF written /\ a \in Inside(b, l) THEN Data ELSE m.header[a]]
<1>1. /\ Held(m, O, F, b) /\ m.header[b].level = l
      /\ \A a \in O : m.header[a] = m0.header[a]
      /\ \A a \in HeapAddress : m.header[a].blockState = "ALLOCATED" => m0.header[a].blockState = "ALLOCATED"
      /\ HeapIsAligned => Multiples(m, S) /\ NoTwins(m, F)
  BY DEF SplitTo
<1>2. /\ m \in Memories /\ O \cap F = {} /\ b \notin O /\ b \notin F /\ b \in S
      /\ Tiled(m, S) /\ StaleAreUpper(m, S)
      /\ m.header[b].blockState = "FREE" /\ m.header[b].prev = NIL
      /\ \A a \in O : m.header[a].blockState = "ALLOCATED"
  BY <1>1 DEF Held
<1>3. PICK at : Linked(m, F, at)
  BY <1>1 DEF Held
<1>4. m.header \in [HeapAddress -> Header] /\ m.blocks \in [Level -> Nat] /\ Data \in Header
  BY <1>2 DEF Memories, Data, Header, NIL
<1>S. S = (O \cup {b}) \cup F /\ \A a : a \in S <=> (a \in O \/ a \in F \/ a = b)
  OBVIOUS
<1> HIDE DEF S
<1>5. S \subseteq HeapAddress /\ b \in HeapAddress /\ l \in 0 .. RootLevel
  BY <1>1, <1>2, TileFacts DEF Tiled
<1>6. \A a \in S : a \notin Inside(b, l)
  <2> SUFFICES ASSUME NEW a \in S, a \in Inside(b, l) PROVE FALSE
    OBVIOUS
  <2> DEFINE s == Pow2[l]
  <2>1. s \in Nat /\ SizeOf(m, b) = s /\ a \in Nat /\ b \in Nat
    BY <1>1, <1>2, <1>5, LevelFacts, TileFacts DEF SizeOf
  <2>2. a \in b + 1 .. b + s - 1
    BY DEF Inside
  <2> HIDE DEF s
  <2>3. b < a => b + s <= a
    BY <1>2, <2>1 DEF Tiled
  <2> QED
    BY <2>1, <2>2, <2>3
<1>7. /\ h \in [HeapAddress -> Header]
      /\ h[b] = [m.header[b] EXCEPT !.blockState = "ALLOCATED"]
      /\ \A a \in HeapAddress \ {b} : h[a] = m.header[a] \/ h[a] = Data
      /\ \A a \in S \ {b} : h[a] = m.header[a]
  <2>1. [m.header[b] EXCEPT !.blockState = "ALLOCATED"] \in Header
    BY <1>4, <1>5 DEF Header
  <2> QED
    BY <1>4, <1>5, <1>6, <2>1
<1>r. r = [header |-> h, blocks |-> m.blocks]
  BY DEF GivenOut
<1> HIDE DEF h
<1>8. r \in Memories /\ r.header = h /\ r.blocks = m.blocks
  BY <1>4, <1>7, <1>r DEF Memories
<1>9. r.header[b].level = l /\ r.header[b].prev = NIL /\ r.header[b].blockState = "ALLOCATED"
  BY <1>1, <1>2, <1>4, <1>5, <1>7, <1>8 DEF Header
<1>10. \A a \in S : r.header[a].level = m.header[a].level /\ SizeOf(r, a) = SizeOf(m, a)
  BY <1>1, <1>7, <1>8, <1>9 DEF SizeOf
<1>11. Tiled(r, S)
  BY <1>2, <1>10 DEF Tiled
<1>12. StaleAreUpper(r, S)
  <2> SUFFICES ASSUME NEW a \in HeapAddress, r.header[a].blockState = "FREE",
                      (a \div SizeOf(r, a)) % 2 = 0
               PROVE  a \in S
    BY DEF StaleAreUpper
  <2>1. a # b /\ r.header[a] # Data
    BY <1>9 DEF Data
  <2>2. r.header[a] = m.header[a] /\ SizeOf(r, a) = SizeOf(m, a)
    BY <1>7, <1>8, <2>1 DEF SizeOf
  <2> QED
    BY <1>2, <2>2 DEF StaleAreUpper
<1>13. Linked(r, F, at)
  <2>1. \A a \in F : r.header[a] = m.header[a]
    BY <1>2, <1>7, <1>8, <1>S
  <2> QED
    BY <1>3, <1>8, <2>1, LinkedIsLocal
<1>14. \A a \in O : r.header[a] = m.header[a]
  BY <1>2, <1>7, <1>8, <1>S
<1>15. Sound(r, O \cup {b}, F)
  <2>1. (O \cup {b}) \cap F = {}
    BY <1>2
  <2> QED
    BY <1>2, <1>8, <1>9, <1>11, <1>12, <1>13, <1>14, <1>S, <2>1 DEF Sound
<1>16. ASSUME HeapIsAligned PROVE Multiples(r, S) /\ NoTwins(r, F)
  <2>1. Multiples(m, S) /\ NoTwins(m, F)
    BY <1>1, <1>16
  <2>2. Multiples(r, S)
    BY <1>10, <2>1 DEF Multiples
  <2>3. NoTwins(r, F)
    <3> SUFFICES ASSUME NEW a \in F, (a \div SizeOf(r, a)) % 2 = 0,
                      a + SizeOf(r, a) \in F,
                      r.header[a + SizeOf(r, a)].level = r.header[a].level
               PROVE  FALSE
      BY DEF NoTwins
    <3>1. a \in S /\ a + SizeOf(r, a) \in S
      BY <1>S
    <3>2. SizeOf(r, a) = SizeOf(m, a)
      BY <1>10, <3>1
    <3>3. m.header[a + SizeOf(m, a)].level = m.header[a].level
      BY <1>10, <3>1, <3>2
    <3> QED
      BY <2>1, <3>2, <3>3 DEF NoTwins
  <2> QED
    BY <2>2, <2>3
<1>17. \A a \in HeapAddress \ {b} :
              r.header[a].blockState = "ALLOCATED" => m0.header[a].blockState = "ALLOCATED"
  BY <1>1, <1>7, <1>8 DEF Data
<1>18. \A a \in O : r.header[a] = m0.header[a]
  BY <1>1, <1>14
<1>19. HeapIsAligned => Multiples(r, (O \cup {b}) \cup F) /\ NoTwins(r, F)
  BY <1>16, <1>S
<1> QED
  BY <1>2, <1>5, <1>9, <1>15, <1>17, <1>18, <1>19 DEF OutFrom

TakenFrom(m, m2, O, F, b, i) ==
  /\ SplitTo(m2, O, F \ {b}, b, i, m2) /\ b \in F
  /\ \A a \in O : m2.header[a] = m.header[a]
  /\ \A a \in HeapAddress : m2.header[a].blockState = m.header[a].blockState

(* The head of a list is held once it is taken out. *)
LEMMA PoppedIsHeld ==
  ASSUME managedMemory \in HeapStarts, NEW m, NEW O, NEW F, Sound(m, O, F),
         HeapIsAligned => Multiples(m, O \cup F) /\ NoTwins(m, F),
         NEW i \in Level, m.blocks[i] # NIL, NEW m2, m2 = popFree(m, i)
  PROVE  TakenFrom(m, m2, O, F, m.blocks[i], i)
<1> DEFINE b == m.blocks[i]
           G == F \ {b}
<1>1. /\ m \in Memories /\ O \cap F = {} /\ Tiled(m, O \cup F) /\ StaleAreUpper(m, O \cup F)
      /\ \A a \in O : m.header[a].blockState = "ALLOCATED"
  BY DEF Sound
<1>2. PICK at : Linked(m, F, at)
  BY DEF Sound
<1>3. /\ b \in F /\ m.header[b].level = i /\ m.header[b].blockState = "FREE"
      /\ m2.header[b].prev = NIL /\ LeavesList(m, m2, F, b)
  BY <1>1, <1>2, PopLinks
<1>4. /\ OnlyLinks(m, m2) /\ \E to : Linked(m2, G, to)
      /\ \A a \in HeapAddress : a \notin F => m2.header[a] = m.header[a]
  BY <1>3 DEF LeavesList
<1>5. F \subseteq HeapAddress /\ O \subseteq HeapAddress
  BY <1>1 DEF Tiled
<1>6. \A a \in O : m2.header[a] = m.header[a]
  BY <1>1, <1>4, <1>5
<1>7. \A a \in HeapAddress : m2.header[a].blockState = m.header[a].blockState
                             /\ m2.header[a].level = m.header[a].level /\ SizeOf(m2, a) = SizeOf(m, a)
  BY <1>4 DEF OnlyLinks, SizeOf
<1>S. O \cup F = (O \cup G) \cup {b} /\ b \notin G /\ b \notin O /\ O \cap G = {} /\ G \subseteq F
  BY <1>1, <1>3
<1> HIDE DEF b, G
<1>8. m2 \in Memories /\ Tiled(m2, O \cup F) /\ StaleAreUpper(m2, O \cup F)
  BY <1>1, <1>4, TilesKept DEF OnlyLinks
<1>9. Held(m2, O, G, b) /\ m2.header[b].level = i
  <2>1. m2.header[b].blockState = "FREE" /\ m2.header[b].level = i
    BY <1>3, <1>5, <1>7
  <2>2. \A a \in O : m2.header[a].blockState = "ALLOCATED"
    BY <1>1, <1>6
  <2>3. Tiled(m2, (O \cup G) \cup {b}) /\ StaleAreUpper(m2, (O \cup G) \cup {b})
    BY <1>8, <1>S
  <2> QED
    BY <1>3, <1>4, <1>8, <1>S, <2>1, <2>2, <2>3 DEF Held
<1>10. ASSUME HeapIsAligned PROVE Multiples(m2, O \cup F) /\ NoTwins(m2, G)
  <2>1. Multiples(m, O \cup F) /\ NoTwins(m, F)
    BY <1>10
  <2>2. Multiples(m2, O \cup F)
    BY <1>5, <1>7, <2>1 DEF Multiples
  <2>3. NoTwins(m2, G)
    <3> SUFFICES ASSUME NEW a \in G, (a \div SizeOf(m2, a)) % 2 = 0,
                      a + SizeOf(m2, a) \in G,
                      m2.header[a + SizeOf(m2, a)].level = m2.header[a].level
               PROVE  FALSE
      BY DEF NoTwins
    <3>1. a \in F /\ a \in HeapAddress /\ a + SizeOf(m2, a) \in F /\ a + SizeOf(m2, a) \in HeapAddress
      BY <1>5, <1>S
    <3>2. SizeOf(m2, a) = SizeOf(m, a)
      BY <1>7, <3>1
    <3>3. m.header[a + SizeOf(m, a)].level = m.header[a].level
      BY <1>7, <3>1, <3>2
    <3> QED
      BY <2>1, <3>1, <3>2, <3>3 DEF NoTwins
  <2> QED
    BY <2>2, <2>3
<1>11. SplitTo(m2, O, G, b, i, m2)
  BY <1>9, <1>10, <1>S DEF SplitTo
<1> QED
  BY <1>3, <1>6, <1>7, <1>11 DEF b, G, TakenFrom

LEMMA LeastExists ==
  ASSUME NEW S \in SUBSET Nat, S # {}
  PROVE  Min(S) \in S /\ \A x \in S : Min(S) <= x
<1>1. IsWellFoundedOn(OpToRel(<, Nat), Nat)
  BY NatLessThanWellFounded
<1>2. PICK x \in S : \A y \in S : ~(<<y, x>> \in OpToRel(<, Nat))
  BY <1>1, WFMin
<1>3. \A y \in S : ~(y < x)
  BY <1>2 DEF OpToRel
<1>4. \A y \in S : x <= y
  BY <1>3
<1> QED
  BY <1>4 DEF Min

LEMMA LevelIsEnough ==
  ASSUME NEW n \in Nat \ {0}
  PROVE  memoryToLevel(n) \in Nat /\ Pow2[memoryToLevel(n)] >= n
<1> DEFINE S == {l \in 0 .. n : Pow2[l] >= n}
<1>1. n \in S
  <2>1. n < Pow2[n] /\ Pow2[n] \in Nat
    BY Powers
  <2>2. Pow2[n] >= n
    BY <2>1
  <2> QED
    BY <2>2
<1>2. S \in SUBSET Nat /\ S # {}
  BY <1>1
<1>3. memoryToLevel(n) = Min(S)
  BY DEF memoryToLevel
<1>4. Min(S) \in S
  <2> HIDE DEF S
  <2> QED
    BY <1>2, LeastExists
<1> QED
  BY <1>3, <1>4

FreedFrom(m, r, O, F, b) ==
  /\ MergedTo(r, O \ {b}, F \cup {b}, [memory |-> r, block |-> b])
  /\ \A a \in O \ {b} : r.header[a] = m.header[a]
  /\ \A a \in HeapAddress \ {b} : r.header[a].blockState = m.header[a].blockState
  /\ r.header[b].blockState = "FREE"

(* A given block that is freed is free, then merged. *)
LEMMA FreedIsSound ==
  ASSUME managedMemory \in HeapStarts, NEW m, NEW O, NEW F, Sound(m, O, F),
         HeapIsAligned => Multiples(m, O \cup F) /\ NoTwins(m, F),
         NEW b \in O, m.header[b].prev = NIL,
         NEW r, r = pushFree([m EXCEPT !.header[b].blockState = "FREE"], b)
  PROVE  FreedFrom(m, r, O, F, b)
<1> DEFINE h == [m.header EXCEPT ![b].blockState = "FREE"]
           m1 == [m EXCEPT !.header[b].blockState = "FREE"]
           S == O \cup F
           P == O \ {b}
           G == F \cup {b}
<1>1. /\ m \in Memories /\ O \cap F = {} /\ Tiled(m, S) /\ StaleAreUpper(m, S)
      /\ \A a \in O : m.header[a].blockState = "ALLOCATED"
  BY DEF Sound
<1>2. PICK at : Linked(m, F, at)
  BY DEF Sound
<1>3. F \subseteq HeapAddress /\ O \subseteq HeapAddress /\ b \in HeapAddress /\ b \notin F
      /\ m.header[b].level \in 0 .. RootLevel
  BY <1>1 DEF Tiled
<1>4. m.header \in [HeapAddress -> Header] /\ m.blocks \in [Level -> Nat]
  BY <1>1 DEF Memories
<1>5. /\ h \in [HeapAddress -> Header] /\ h[b].blockState = "FREE"
      /\ h[b].level = m.header[b].level /\ h[b].prev = NIL
      /\ \A a \in HeapAddress \ {b} : h[a] = m.header[a]
  BY <1>3, <1>4 DEF Header
<1>6. m1 = [m EXCEPT !.header = h]
  BY <1>1, <1>4 DEF Memories
<1>r. r = pushFree(m1, b)
  OBVIOUS
<1>S. S = P \cup G /\ P \cap G = {} /\ b \in S /\ b \in G /\ b \notin P /\ P \subseteq O
      /\ \A a \in S : a # b => (a \in P \/ a \in F)
  BY <1>1
<1> HIDE DEF h, m1, S
<1>7. m1 \in Memories /\ m1.header = h /\ m1.blocks = m.blocks
  BY <1>1, <1>4, <1>5, <1>6 DEF Memories
<1>8. \A a \in HeapAddress : m1.header[a].level = m.header[a].level /\ SizeOf(m1, a) = SizeOf(m, a)
                             /\ (a # b => m1.header[a] = m.header[a])
  BY <1>5, <1>7 DEF SizeOf
<1>9. Tiled(m1, S)
  BY <1>1, <1>8 DEF Tiled
<1>10. StaleAreUpper(m1, S)
  <2> SUFFICES ASSUME NEW a \in HeapAddress, a # b, m1.header[a].blockState = "FREE",
                      (a \div SizeOf(m1, a)) % 2 = 0
               PROVE  a \in S
    BY <1>S DEF StaleAreUpper
  <2>1. m.header[a].blockState = "FREE" /\ (a \div SizeOf(m, a)) % 2 = 0
    BY <1>8
  <2> QED
    BY <1>1, <2>1 DEF StaleAreUpper
<1>11. Linked(m1, F, at)
  <2>1. \A a \in F : m1.header[a] = m.header[a]
    BY <1>3, <1>8
  <2> QED
    BY <1>2, <1>7, <2>1, LinkedIsLocal
<1>12. /\ OnlyLinks(m1, r)
       /\ \A a \in HeapAddress \ G : r.header[a] = m1.header[a]
       /\ \E to : Linked(r, G, to)
  <2>1. /\ b \in HeapAddress \ F /\ m1.header[b].level \in 0 .. RootLevel
        /\ m1.header[b].blockState = "FREE" /\ m1.header[b].prev = NIL
    BY <1>3, <1>5, <1>7
  <2>3. m1 \in Memories
    BY <1>7
  <2> HIDE DEF G
  <2>4. /\ OnlyLinks(m1, pushFree(m1, b))
        /\ \A a \in HeapAddress \ (F \cup {b}) : pushFree(m1, b).header[a] = m1.header[a]
        /\ \E to : Linked(pushFree(m1, b), F \cup {b}, to)
    BY <1>11, <2>1, <2>3, PushLinks
  <2> QED
    BY <1>r, <2>4 DEF G
<1>13. r \in Memories /\ Tiled(r, S) /\ StaleAreUpper(r, S)
  <2>1. r \in Memories
    BY <1>12 DEF OnlyLinks
  <2> QED
    BY <1>9, <1>10, <1>12, <2>1, TilesKept
<1>14. \A a \in P : r.header[a] = m.header[a]
  BY <1>3, <1>8, <1>12, <1>S
<1>15. \A a \in HeapAddress \ {b} : r.header[a].blockState = m.header[a].blockState
  BY <1>8, <1>12 DEF OnlyLinks
<1>16. r.header[b].blockState = "FREE"
  BY <1>3, <1>5, <1>7, <1>12 DEF OnlyLinks
<1>17. Sound(r, P, G)
  BY <1>1, <1>12, <1>13, <1>14, <1>S DEF Sound
<1>18. ASSUME HeapIsAligned PROVE Multiples(r, S) /\ NoTwins(r, G \ {b})
  <2>0. \A a \in HeapAddress : r.header[a].level = m.header[a].level /\ SizeOf(r, a) = SizeOf(m, a)
    BY <1>8, <1>12 DEF OnlyLinks, SizeOf
  <2>1. Multiples(m, S) /\ NoTwins(m, F) /\ G \ {b} = F
    BY <1>18, <1>3 DEF S
  <2>2. Multiples(r, S)
    BY <1>1, <2>0, <2>1 DEF Multiples, Tiled
  <2>3. NoTwins(r, F)
    BY <1>3, <2>0, <2>1 DEF NoTwins
  <2> QED
    BY <2>1, <2>2, <2>3
<1>19. MergedTo(r, P, G, [memory |-> r, block |-> b])
  BY <1>17, <1>18, <1>S DEF MergedTo
<1> QED
  BY <1>14, <1>15, <1>16, <1>19 DEF FreedFrom
-----------------------------------------------------------------------------
(* The inductive invariant: the blocks that are out and those in the lists  *)
(* tile the heap, and nothing looks given out that is not.                  *)
OutStarts == {g.at : g \in owned}
Neat(m, O) ==
  \E F : Sound(m, O, F) /\ (HeapIsAligned => Multiples(m, O \cup F) /\ NoTwins(m, F))

OwnersAreKnown ==
  /\ owned \subseteq [at : HeapAddress, asked : BuddyAsked]
  /\ \A g \in owned : header[g.at].prev = NIL /\ g.asked <= Pow2[header[g.at].level]
  /\ \A g, h \in owned : g.at = h.at => g = h
  /\ \A a \in HeapAddress : header[a].blockState = "ALLOCATED" => a \in OutStarts

Units(m, a) == a .. a + SizeOf(m, a) - 1
UnitsOut(m, O) == UNION {Units(m, a) : a \in O}

BuddyInv ==
  /\ managedMemory \in HeapStarts
  /\ OwnersAreKnown
  /\ Neat(Memory, OutStarts)
  /\ usedMemory = Cardinality(UnitsOut(Memory, OutStarts))

LEMMA OutIsOwned == UnitsOut(Memory, OutStarts) =
                    UNION {g.at .. g.at + Pow2[header[g.at].level] - 1 : g \in owned}
BY DEF UnitsOut, Units, OutStarts, SizeOf, Memory

LEMMA UnitsApart ==
  ASSUME managedMemory \in HeapStarts, NEW m \in Memories, NEW S, Tiled(m, S), NEW a \in S
  PROVE  /\ Units(m, a) \subseteq HeapAddress
         /\ IsFiniteSet(Units(m, a)) /\ Cardinality(Units(m, a)) = SizeOf(m, a)
         /\ \A b \in S : a # b => Units(m, a) \cap Units(m, b) = {}
<1>1. /\ a \in Nat /\ SizeOf(m, a) \in Nat /\ SizeOf(m, a) > 0 /\ managedMemory <= a
      /\ a + SizeOf(m, a) <= End /\ End \in Nat
  BY TileFacts
<1>2. HeapAddress = managedMemory .. End - 1 /\ managedMemory \in Nat
  BY HeapFacts
<1>3. Units(m, a) \subseteq HeapAddress
  BY <1>1, <1>2 DEF Units
<1>4. IsFiniteSet(Units(m, a)) /\ Cardinality(Units(m, a)) = SizeOf(m, a)
  <2>1. SizeOf(m, a) \in Nat \ {0}
    BY <1>1
  <2>2. IsFiniteSet(a .. a + SizeOf(m, a) - 1) /\ Cardinality(a .. a + SizeOf(m, a) - 1) = SizeOf(m, a)
    BY <1>1, <2>1, GroupSize
  <2> QED
    BY <2>2 DEF Units
<1>5. ASSUME NEW b \in S, a # b PROVE Units(m, a) \cap Units(m, b) = {}
  <2>1. b \in Nat /\ SizeOf(m, b) \in Nat
    BY TileFacts
  <2>2. a < b => a + SizeOf(m, a) <= b
    BY DEF Tiled
  <2>3. b < a => b + SizeOf(m, b) <= a
    BY DEF Tiled
  <2> QED
    BY <1>1, <1>5, <2>1, <2>2, <2>3 DEF Units
<1> QED
  BY <1>3, <1>4, <1>5

LEMMA HeapIsFinite ==
  ASSUME managedMemory \in HeapStarts
  PROVE  IsFiniteSet(HeapAddress) /\ Cardinality(HeapAddress) = Pow2[RootLevel]
<1>1. managedMemory \in Nat /\ Pow2[RootLevel] \in Nat \ {0}
  <2>1. RootLevel \in 0 .. RootLevel
    BY HeapFacts
  <2> QED
    BY <2>1, HeapFacts, LevelFacts
<1> QED
  BY <1>1, GroupSize DEF HeapAddress

LEMMA UnitsOutFinite ==
  ASSUME managedMemory \in HeapStarts, NEW m \in Memories, NEW S, Tiled(m, S), NEW O \in SUBSET S
  PROVE  /\ UnitsOut(m, O) \subseteq HeapAddress /\ IsFiniteSet(UnitsOut(m, O))
         /\ Cardinality(UnitsOut(m, O)) \in Nat
<1>1. \A a \in O : Units(m, a) \subseteq HeapAddress
  BY UnitsApart
<1>2. UnitsOut(m, O) \subseteq HeapAddress
  BY <1>1 DEF UnitsOut
<1> QED
  BY <1>2, HeapIsFinite, FS_Subset, FS_CardinalityType

(* One block more is as many units more as it has.                          *)
LEMMA OneMoreOut ==
  ASSUME managedMemory \in HeapStarts, NEW m \in Memories, NEW S, Tiled(m, S),
         NEW O \in SUBSET S, NEW b \in S \ O
  PROVE  Cardinality(UnitsOut(m, O \cup {b})) = Cardinality(UnitsOut(m, O)) + SizeOf(m, b)
<1>1. UnitsOut(m, O \cup {b}) = UnitsOut(m, O) \cup Units(m, b)
  BY DEF UnitsOut
<1>2. UnitsOut(m, O) \cap Units(m, b) = {}
  <2>1. \A a \in O : Units(m, a) \cap Units(m, b) = {}
    BY UnitsApart
  <2> QED
    BY <2>1 DEF UnitsOut
<1>3. IsFiniteSet(UnitsOut(m, O))
  BY UnitsOutFinite
<1>4. IsFiniteSet(Units(m, b)) /\ Cardinality(Units(m, b)) = SizeOf(m, b)
  BY UnitsApart
<1> QED
  BY <1>1, <1>2, <1>3, <1>4, Together

LEMMA UnitsOutSame ==
  ASSUME NEW m, NEW m2, NEW O, \A a \in O : m2.header[a] = m.header[a]
  PROVE  UnitsOut(m2, O) = UnitsOut(m, O)
BY DEF UnitsOut, Units, SizeOf

(* What is sound before the step's end is sound after it.                   *)
LEMMA NeatPrimed ==
  ASSUME managedMemory' = managedMemory, NEW m, m = Memory', NEW O, O = OutStarts', Neat(m, O)
  PROVE  Neat(Memory, OutStarts)'
<1>1. PICK F : Sound(m, O, F) /\ (HeapIsAligned => Multiples(m, O \cup F) /\ NoTwins(m, F))
  BY DEF Neat
<1>2. HeapAddress' = HeapAddress /\ End' = End /\ HeapIsAligned' = HeapIsAligned
  BY DEF HeapAddress, End, HeapIsAligned
<1>3. Memories' = Memories
  BY <1>2 DEF Memories
<1>4. Tiled(Memory, OutStarts \cup F)'
  <2>1. Tiled(m, O \cup F)
    BY <1>1 DEF Sound
  <2> QED
    BY <1>2, <2>1 DEF Tiled, SizeOf
<1>5. StaleAreUpper(Memory, OutStarts \cup F)'
  <2>1. StaleAreUpper(m, O \cup F)
    BY <1>1 DEF Sound
  <2> QED
    BY <1>2, <2>1 DEF StaleAreUpper, SizeOf
<1>6. PICK at : Linked(m, F, at)
  BY <1>1 DEF Sound
<1>7. Linked(Memory, F, at)'
  BY <1>2, <1>6 DEF Linked
<1>8. Sound(Memory, OutStarts, F)'
  <2>1. (\E to : Linked(Memory, F, to))'
    BY <1>7
  <2>2. m \in Memories /\ O \cap F = {} /\ \A a \in O : m.header[a].blockState = "ALLOCATED"
    BY <1>1 DEF Sound
  <2> QED
    BY <1>3, <1>4, <1>5, <2>1, <2>2 DEF Sound
<1>9. (HeapIsAligned => Multiples(Memory, OutStarts \cup F) /\ NoTwins(Memory, F))'
  <2>1. Multiples(m, O \cup F) => Multiples(Memory, OutStarts \cup F)'
    BY DEF Multiples, SizeOf
  <2>2. NoTwins(m, F) => NoTwins(Memory, F)'
    BY DEF NoTwins, SizeOf
  <2> QED
    BY <1>1, <1>2, <2>1, <2>2
<1> QED
  BY <1>8, <1>9 DEF Neat

LEMMA BuddyInitInv == BuddyInit => BuddyInv
<1> SUFFICES ASSUME BuddyInit PROVE BuddyInv
  OBVIOUS
<1> DEFINE F == {managedMemory}
           at == [a \in HeapAddress |-> 0]
           s == Pow2[RootLevel]
<1>1. managedMemory \in HeapStarts /\ owned = {} /\ usedMemory = 0
  BY DEF BuddyInit
<1>2. /\ managedMemory \in Nat \ {0} /\ RootLevel \in Nat /\ RootLevel \in Level
      /\ HeapAddress = managedMemory .. End - 1 /\ HeapAddress \subseteq Nat
      /\ RootLevel \in 0 .. RootLevel /\ managedMemory # NIL
  BY <1>1, HeapFacts DEF NIL
<1>3. s \in Nat /\ s > 0 /\ End = managedMemory + s
  BY <1>1, <1>2, LevelFacts DEF End
<1>4. managedMemory \in HeapAddress
  BY <1>2, <1>3
<1>5. Memory.header = [a \in HeapAddress |-> IF a = managedMemory THEN FreshBlock(RootLevel) ELSE Data]
      /\ Memory.blocks = [l \in Level |-> IF l = RootLevel THEN managedMemory ELSE NIL]
  BY DEF BuddyInit, Memory
<1>6. Memory \in Memories
  <2>1. FreshBlock(RootLevel) \in Header /\ Data \in Header /\ NIL \in Nat
    BY <1>2 DEF FreshBlock, Data, Header, NIL
  <2> QED
    BY <1>2, <1>5, <2>1 DEF Memories, Memory
<1>7. /\ Memory.header[managedMemory] = FreshBlock(RootLevel)
      /\ \A a \in HeapAddress \ F : Memory.header[a] = Data
  BY <1>4, <1>5
<1>8. SizeOf(Memory, managedMemory) = s
  BY <1>7 DEF SizeOf, FreshBlock
<1> HIDE DEF s
<1>9. Tiled(Memory, F)
  <2>1. Memory.header[managedMemory].level \in 0 .. RootLevel
    BY <1>2, <1>7 DEF FreshBlock
  <2>2. \A x \in HeapAddress : managedMemory <= x /\ x < managedMemory + s
    BY <1>2, <1>3
  <2> QED
    BY <1>2, <1>3, <1>4, <1>8, <2>1, <2>2 DEF Tiled
<1>10. StaleAreUpper(Memory, F)
  <2>1. \A a \in HeapAddress : Memory.header[a].blockState = "FREE" => a \in F
    BY <1>7 DEF Data
  <2> QED
    BY <2>1 DEF StaleAreUpper
<1>11. Linked(Memory, F, at)
  <2>1. at \in [HeapAddress -> Nat] /\ at[managedMemory] = 0
    BY <1>4
  <2>2. \A l \in Level : Memory.blocks[l] # NIL => l = RootLevel /\ Memory.blocks[l] = managedMemory
    BY <1>5
  <2>3. Memory.blocks[RootLevel] = managedMemory
    BY <1>2, <1>5
  <2> HIDE DEF at
  <2> QED
    BY <1>2, <1>4, <1>7, <2>1, <2>2, <2>3 DEF Linked, FreshBlock
<1>12. OutStarts = {}
  BY <1>1 DEF OutStarts
<1>13. Sound(Memory, OutStarts, F)
  <2>1. OutStarts \cup F = F /\ OutStarts \cap F = {}
    BY <1>12
  <2> HIDE DEF at, F
  <2> QED
    BY <1>6, <1>9, <1>10, <1>11, <1>12, <2>1 DEF Sound
<1>14. HeapIsAligned => Multiples(Memory, F) /\ NoTwins(Memory, F)
  <2>1. ASSUME HeapIsAligned PROVE Multiples(Memory, F)
    <3>1. managedMemory % s = 0
      BY <2>1 DEF HeapIsAligned, s
    <3>2. managedMemory = (managedMemory \div s) * s /\ managedMemory \div s \in Nat
      BY <1>2, <1>3, <3>1
    <3> QED
      BY <1>8, <3>2 DEF Multiples
  <2>2. NoTwins(Memory, F)
    BY <1>2, <1>3, <1>8 DEF NoTwins
  <2> QED
    BY <2>1, <2>2
<1>15. Neat(Memory, OutStarts)
  <2>1. OutStarts \cup F = F
    BY <1>12
  <2> QED
    BY <1>13, <1>14, <2>1 DEF Neat
<1>16. UnitsOut(Memory, OutStarts) = {}
  BY <1>12 DEF UnitsOut
<1>17. OwnersAreKnown
  <2>1. \A a \in HeapAddress : header[a].blockState # "ALLOCATED"
    BY <1>7 DEF Memory, FreshBlock, Data
  <2> QED
    BY <1>1, <2>1 DEF OwnersAreKnown
<1> QED
  BY <1>1, <1>15, <1>16, <1>17, FS_EmptySet DEF BuddyInv

(* A memory in which b, of level l, has become one more block that is out.  *)
OneOut(r, O, b, l) ==
  /\ Neat(r, O \cup {b}) /\ b \in HeapAddress /\ b \notin O /\ l \in 0 .. RootLevel
  /\ r.header[b].level = l /\ r.header[b].prev = NIL
  /\ \A a \in O : r.header[a] = header[a]
  /\ \A a \in HeapAddress \ {b} : r.header[a].blockState = "ALLOCATED" => a \in O

LEMMA AllocIsSound ==
  ASSUME BuddyInv, NEW n \in BuddyAsked, NEW written \in BOOLEAN, NEW l, l = memoryToLevel(n),
         LevelsToTakeFrom(l) # {}, NEW b, b = blocks[Min(LevelsToTakeFrom(l))],
         NEW r, r = GivenOut(findFreeBlock(l), b, l, written)
  PROVE  OneOut(r, OutStarts, b, l) /\ n <= Pow2[l]
<1> DEFINE i == Min(LevelsToTakeFrom(l))
           m2 == popFree(Memory, i)
           O == OutStarts
<1>0. managedMemory \in HeapStarts
  BY DEF BuddyInv
<1>1. l \in Nat /\ n <= Pow2[l]
  <2>1. n \in Nat \ {0}
    BY BuddyAssumption
  <2>2. l \in Nat /\ Pow2[l] >= n /\ Pow2[l] \in Nat
    BY <2>1, LevelIsEnough, Powers
  <2> QED
    BY <2>1, <2>2
<1>2. i \in Level /\ i \in Nat /\ l <= i /\ blocks[i] # NIL
  <2>1. LevelsToTakeFrom(l) \in SUBSET Nat
    BY <1>0, HeapFacts DEF LevelsToTakeFrom, Level
  <2>2. i \in LevelsToTakeFrom(l)
    BY <2>1, LeastExists
  <2> QED
    BY <1>1, <2>1, <2>2 DEF LevelsToTakeFrom
<1>3. b = blocks[i] /\ findFreeBlock(l) = splitBlockToLevel(m2, b, i, l)
  BY DEF findFreeBlock
<1>4. Memory.blocks = blocks /\ Memory.header = header
  BY DEF Memory
<1>5. PICK F : Sound(Memory, O, F) /\ (HeapIsAligned => Multiples(Memory, O \cup F) /\ NoTwins(Memory, F))
  BY DEF BuddyInv, Neat
<1> HIDE DEF i, O
<1>6. /\ SplitTo(m2, O, F \ {b}, b, i, m2)
      /\ \A a \in O : m2.header[a] = header[a]
      /\ \A a \in HeapAddress : m2.header[a].blockState = header[a].blockState
  <2> HIDE DEF m2
  <2>1. Memory.blocks[i] # NIL /\ Memory.blocks[i] = b
    BY <1>2, <1>3, <1>4
  <2>2. m2 = popFree(Memory, i)
    BY DEF m2
  <2>3. TakenFrom(Memory, m2, O, F, Memory.blocks[i], i)
    BY <1>0, <1>2, <1>5, <2>1, <2>2, PoppedIsHeld
  <2> QED
    BY <1>4, <2>1, <2>3 DEF TakenFrom
<1> HIDE DEF m2
<1>7. PICK G : SplitTo(m2, O, G, b, l, findFreeBlock(l))
  <2>1. \E G : SplitTo(m2, O, G, b, l, splitBlockToLevel(m2, b, i, l))
    BY <1>0, <1>1, <1>2, <1>6, SplitsAreSound
  <2> QED
    BY <1>3, <2>1
<1>8. /\ Sound(r, O \cup {b}, G) /\ l \in 0 .. RootLevel /\ b \in HeapAddress /\ b \notin O
      /\ r.header[b].level = l /\ r.header[b].prev = NIL
      /\ \A a \in O : r.header[a] = m2.header[a]
      /\ \A a \in HeapAddress \ {b} :
           r.header[a].blockState = "ALLOCATED" => m2.header[a].blockState = "ALLOCATED"
      /\ HeapIsAligned => Multiples(r, (O \cup {b}) \cup G) /\ NoTwins(r, G)
  <2>1. OutFrom(m2, r, O, G, b, l)
    BY <1>0, <1>1, <1>7, GivenOutIsSound
  <2> QED
    BY <2>1 DEF OutFrom
<1>9. Neat(r, O \cup {b})
  BY <1>8 DEF Neat
<1>10. \A a \in HeapAddress : header[a].blockState = "ALLOCATED" => a \in O
  BY DEF BuddyInv, OwnersAreKnown, O
<1>11. OneOut(r, O, b, l)
  BY <1>6, <1>8, <1>9, <1>10 DEF OneOut
<1> QED
  BY <1>1, <1>11 DEF O

(* The invariant after one block more is out.                               *)
LEMMA OneOutKeeps ==
  ASSUME BuddyInv, managedMemory' = managedMemory, NEW n \in BuddyAsked, NEW b, NEW l,
         n <= Pow2[l], OneOut(Memory', OutStarts, b, l),
         usedMemory' = usedMemory + Pow2[l], owned' = owned \cup {[at |-> b, asked |-> n]}
  PROVE  BuddyInv'
<1> PICK r : r = Memory'
  OBVIOUS
<1> PICK O : O = OutStarts
  OBVIOUS
<1>h. header' = r.header /\ HeapAddress' = HeapAddress /\ header = Memory.header
  BY DEF Memory, HeapAddress
<1>1. /\ Neat(r, O \cup {b}) /\ b \in HeapAddress /\ b \notin O /\ l \in 0 .. RootLevel
      /\ r.header[b].level = l /\ r.header[b].prev = NIL
      /\ \A a \in O : r.header[a] = header[a]
      /\ \A a \in HeapAddress \ {b} : r.header[a].blockState = "ALLOCATED" => a \in O
  BY DEF OneOut
<1>2. OutStarts' = O \cup {b}
  <2>1. \A x : x \in OutStarts <=> \E g \in owned : g.at = x
    BY DEF OutStarts
  <2>2. \A x : x \in OutStarts' <=> \E g \in owned' : g.at = x
    BY DEF OutStarts
  <2>3. \A x : (\E g \in owned' : g.at = x) <=> (\E g \in owned : g.at = x) \/ x = b
    <3> DEFINE new == [at |-> b, asked |-> n]
    <3>1. owned' = owned \cup {new} /\ new.at = b
      OBVIOUS
    <3> HIDE DEF new
    <3> QED
      BY <3>1, Zenon
  <2> QED
    BY <2>1, <2>2, <2>3
<1>3. Neat(Memory, OutStarts)'
  <2>1. PICK P : P = OutStarts'
    OBVIOUS
  <2>2. Neat(r, P)
    BY <1>1, <1>2, <2>1
  <2> QED
    BY <2>1, <2>2, NeatPrimed
<1>4. OwnersAreKnown'
  <2>1. owned' \subseteq [at : HeapAddress, asked : BuddyAsked]
    BY <1>1 DEF BuddyInv, OwnersAreKnown
  <2>2. \A g \in owned : g.at \in O /\ g.at # b
    BY <1>1 DEF OutStarts
  <2>3. \A g \in owned : header[g.at].prev = NIL /\ g.asked <= Pow2[header[g.at].level]
    BY DEF BuddyInv, OwnersAreKnown
  <2>4. \A g \in owned' : r.header[g.at].prev = NIL /\ g.asked <= Pow2[r.header[g.at].level]
    BY <1>1, <2>2, <2>3
  <2>5. \A g, g2 \in owned' : g.at = g2.at => g = g2
    BY <2>2 DEF BuddyInv, OwnersAreKnown
  <2>6. \A a \in HeapAddress : r.header[a].blockState = "ALLOCATED" => a \in O \cup {b}
    BY <1>1
  <2> QED
    BY <1>h, <1>2, <2>1, <2>4, <2>5, <2>6 DEF OwnersAreKnown
<1>5. usedMemory' = Cardinality(UnitsOut(Memory, OutStarts)')
  <2>1. PICK F : Sound(r, O \cup {b}, F)
    BY <1>1 DEF Neat
  <2>2. r \in Memories /\ Tiled(r, (O \cup {b}) \cup F)
    BY <2>1 DEF Sound
  <2>3. managedMemory \in HeapStarts
    BY DEF BuddyInv
  <2>4. Cardinality(UnitsOut(r, O \cup {b})) = Cardinality(UnitsOut(r, O)) + SizeOf(r, b)
    <3>1. O \in SUBSET ((O \cup {b}) \cup F) /\ b \in ((O \cup {b}) \cup F) \ O
      BY <1>1
    <3> QED
      BY <2>2, <2>3, <3>1, OneMoreOut
  <2>5. UnitsOut(r, O) = UnitsOut(Memory, O)
    BY <1>1, <1>h, UnitsOutSame
  <2>6. SizeOf(r, b) = Pow2[l]
    BY <1>1 DEF SizeOf
  <2>7. usedMemory = Cardinality(UnitsOut(Memory, O))
    BY DEF BuddyInv
  <2>8. UnitsOut(Memory, OutStarts)' = UnitsOut(r, O \cup {b})
    BY <1>2 DEF UnitsOut, Units, SizeOf
  <2> QED
    BY <2>4, <2>5, <2>6, <2>7, <2>8
<1> QED
  BY <1>3, <1>4, <1>5 DEF BuddyInv

(* A memory from which the block at b is no more out.                       *)
OneBack(r, O, b) ==
  /\ Neat(r, O \ {b})
  /\ \A a \in O \ {b} : r.header[a] = header[a]
  /\ \A a \in HeapAddress : r.header[a].blockState = "ALLOCATED" => a \in O \ {b}

LEMMA FreeIsSound ==
  ASSUME BuddyInv, NEW b \in HeapAddress, IsAllocated(b),
         NEW r, r = mergeBlocks(pushFree([Memory EXCEPT !.header[b].blockState = "FREE"], b), b)
  PROVE  OneBack(r, OutStarts, b) /\ b \in OutStarts
<1> DEFINE O == OutStarts
           m1 == pushFree([Memory EXCEPT !.header[b].blockState = "FREE"], b)
<1>0. managedMemory \in HeapStarts
  BY DEF BuddyInv
<1>1. /\ b \in O /\ \A a \in HeapAddress : header[a].blockState = "ALLOCATED" => a \in O
  BY DEF BuddyInv, OwnersAreKnown, IsAllocated
<1>2. header[b].prev = NIL
  BY <1>1 DEF BuddyInv, OwnersAreKnown, OutStarts
<1>3. PICK F : Sound(Memory, O, F) /\ (HeapIsAligned => Multiples(Memory, O \cup F) /\ NoTwins(Memory, F))
  BY DEF BuddyInv, Neat
<1>4. Memory.header = header
  BY DEF Memory
<1>5. r = mergeBlocks(m1, b)
  OBVIOUS
<1>d. m1 = pushFree([Memory EXCEPT !.header[b].blockState = "FREE"], b)
  OBVIOUS
<1> HIDE DEF O, m1
<1>6. FreedFrom(Memory, m1, O, F, b)
  <2>1. Memory.header[b].prev = NIL
    BY <1>2, <1>4
  <2> QED
    BY <1>0, <1>1, <1>3, <1>d, <2>1, FreedIsSound
<1>7. /\ MergedTo(m1, O \ {b}, F \cup {b}, [memory |-> m1, block |-> b])
      /\ \A a \in O \ {b} : m1.header[a] = header[a]
      /\ \A a \in HeapAddress \ {b} : m1.header[a].blockState = header[a].blockState
      /\ m1.header[b].blockState = "FREE"
  BY <1>4, <1>6 DEF FreedFrom
<1>8. MergedFrom(m1, mergeBlocks(m1, b), O \ {b})
  BY <1>0, <1>7, MergesAreSound
<1>9. /\ Neat(r, O \ {b})
      /\ \A a \in O \ {b} : r.header[a] = m1.header[a]
      /\ \A a \in HeapAddress : r.header[a].blockState = m1.header[a].blockState
  BY <1>5, <1>8 DEF MergedFrom, Neat
<1>10. \A a \in HeapAddress : r.header[a].blockState = "ALLOCATED" => a \in O \ {b}
  BY <1>1, <1>7, <1>9
<1>11. OneBack(r, O, b)
  BY <1>7, <1>9, <1>10 DEF OneBack
<1> QED
  BY <1>1, <1>11 DEF O

LEMMA OneBackKeeps ==
  ASSUME BuddyInv, managedMemory' = managedMemory, NEW b \in OutStarts,
         OneBack(Memory', OutStarts, b), usedMemory' = usedMemory - Pow2[header[b].level],
         owned' = {g \in owned : g.at # b}
  PROVE  BuddyInv'
<1> PICK r : r = Memory'
  OBVIOUS
<1> PICK O : O = OutStarts
  OBVIOUS
<1>0. managedMemory \in HeapStarts
  BY DEF BuddyInv
<1>h. header' = r.header /\ HeapAddress' = HeapAddress /\ header = Memory.header
  BY DEF Memory, HeapAddress
<1>1. /\ Neat(r, O \ {b}) /\ b \in O
      /\ \A a \in O \ {b} : r.header[a] = header[a]
      /\ \A a \in HeapAddress : r.header[a].blockState = "ALLOCATED" => a \in O \ {b}
  BY DEF OneBack
<1>2. OutStarts' = O \ {b}
  <2>1. \A x : x \in OutStarts <=> \E g \in owned : g.at = x
    BY DEF OutStarts
  <2>2. \A x : x \in OutStarts' <=> \E g \in owned' : g.at = x
    BY DEF OutStarts
  <2>3. \A x : (\E g \in owned' : g.at = x) <=> (\E g \in owned : g.at = x) /\ x # b
    OBVIOUS
  <2> QED
    BY <2>1, <2>2, <2>3
<1>3. Neat(Memory, OutStarts)'
  <2>1. PICK P : P = OutStarts'
    OBVIOUS
  <2>2. Neat(r, P)
    BY <1>1, <1>2, <2>1
  <2> QED
    BY <2>1, <2>2, NeatPrimed
<1>4. OwnersAreKnown'
  <2>1. \A g \in owned : g.at \in O /\ (g.at # b => g.at \in O \ {b})
    BY DEF OutStarts
  <2>2. \A g \in owned : header[g.at].prev = NIL /\ g.asked <= Pow2[header[g.at].level]
    BY DEF BuddyInv, OwnersAreKnown
  <2>3. \A g \in owned' : r.header[g.at].prev = NIL /\ g.asked <= Pow2[r.header[g.at].level]
    BY <1>1, <2>1, <2>2
  <2>4. owned' \subseteq [at : HeapAddress, asked : BuddyAsked]
        /\ \A g, g2 \in owned' : g.at = g2.at => g = g2
    BY DEF BuddyInv, OwnersAreKnown
  <2> QED
    BY <1>h, <1>1, <1>2, <2>3, <2>4 DEF OwnersAreKnown
<1>5. usedMemory' = Cardinality(UnitsOut(Memory, OutStarts)')
  <2>1. PICK F : Sound(Memory, O, F)
    BY DEF BuddyInv, Neat
  <2>2. Memory \in Memories /\ Tiled(Memory, O \cup F)
    BY <2>1 DEF Sound
  <2>3. (O \ {b}) \cup {b} = O
    BY <1>1
  <2>4. Cardinality(UnitsOut(Memory, O)) = Cardinality(UnitsOut(Memory, O \ {b})) + SizeOf(Memory, b)
    <3>1. O \ {b} \in SUBSET (O \cup F) /\ b \in (O \cup F) \ (O \ {b})
      BY <1>1
    <3>2. Cardinality(UnitsOut(Memory, (O \ {b}) \cup {b})) = Cardinality(UnitsOut(Memory, O \ {b})) + SizeOf(Memory, b)
      BY <1>0, <2>2, <3>1, OneMoreOut
    <3> QED
      BY <2>3, <3>2
  <2>5. Cardinality(UnitsOut(Memory, O \ {b})) \in Nat
    <3>1. O \ {b} \in SUBSET (O \cup F)
      OBVIOUS
    <3> QED
      BY <1>0, <2>2, <3>1, UnitsOutFinite
  <2>6. SizeOf(Memory, b) = Pow2[header[b].level] /\ SizeOf(Memory, b) \in Nat
    <3>1. b \in O \cup F
      BY <1>1
    <3>2. SizeOf(Memory, b) \in Nat
      BY <1>0, <2>2, <3>1, TileFacts
    <3> QED
      BY <1>h, <3>2 DEF SizeOf
  <2>7. usedMemory = Cardinality(UnitsOut(Memory, O))
    BY DEF BuddyInv
  <2>8. UnitsOut(r, O \ {b}) = UnitsOut(Memory, O \ {b})
    BY <1>1, <1>h, UnitsOutSame
  <2>9. UnitsOut(Memory, OutStarts)' = UnitsOut(r, O \ {b})
    BY <1>2 DEF UnitsOut, Units, SizeOf
  <2> QED
    BY <2>4, <2>5, <2>6, <2>7, <2>8, <2>9
<1> QED
  BY <1>0, <1>3, <1>4, <1>5 DEF BuddyInv

-----------------------------------------------------------------------------
(* What the callers see of a block that is out.                             *)
Shown(g) == [at |-> g.at - managedMemory, size |-> Pow2[header[g.at].level], asked |-> g.asked]
AllShown == {Shown(g) : g \in owned}

LEMMA OutsideIsPromised ==
  /\ BuddyPromise!AllocatorSpec <=>
       AllShown = {} /\ [][BuddyPromise!Alloc \/ BuddyPromise!Free]_AllShown
BY DEF BuddyPromise!AllocatorSpec, BuddyPromise!NothingAllocated, AllShown, Shown

LEMMA OneOutIsPromised ==
  ASSUME BuddyInv, managedMemory' = managedMemory, NEW n \in BuddyAsked, NEW b, NEW l,
         n <= Pow2[l], OneOut(Memory', OutStarts, b, l),
         owned' = owned \cup {[at |-> b, asked |-> n]}
  PROVE  BuddyPromise!Alloc
<1> PICK r : r = Memory'
  OBVIOUS
<1> PICK O : O = OutStarts
  OBVIOUS
<1> DEFINE g0 == [at |-> b, asked |-> n]
           new == [at |-> b - managedMemory, size |-> Pow2[l], asked |-> n]
<1>0. managedMemory \in HeapStarts
  BY DEF BuddyInv
<1>h. header' = r.header
  BY DEF Memory
<1>1. /\ Neat(r, O \cup {b}) /\ b \notin O /\ l \in 0 .. RootLevel
      /\ r.header[b].level = l
      /\ \A a \in O : r.header[a] = header[a]
  BY DEF OneOut
<1>2. PICK F : Sound(r, O \cup {b}, F)
  BY <1>1 DEF Neat
<1>3. r \in Memories /\ Tiled(r, (O \cup {b}) \cup F)
  BY <1>2 DEF Sound
<1>4. /\ managedMemory \in Nat /\ b \in Nat /\ managedMemory <= b /\ Pow2[l] \in Nat /\ Pow2[l] > 0
      /\ b + Pow2[l] <= managedMemory + Pow2[RootLevel] /\ Pow2[RootLevel] \in Nat /\ SizeOf(r, b) = Pow2[l]
  <2>1. b \in (O \cup {b}) \cup F
    OBVIOUS
  <2>2. SizeOf(r, b) = Pow2[l]
    BY <1>1 DEF SizeOf
  <2>3. b \in Nat /\ managedMemory <= b /\ Pow2[l] \in Nat /\ Pow2[l] > 0 /\ b + Pow2[l] <= End
    BY <1>0, <1>3, <2>1, <2>2, TileFacts
  <2> QED
    BY <1>0, <2>2, <2>3, HeapFacts DEF End
<1>5. \A g \in owned : g.at \in O /\ Shown(g)' = Shown(g)
  <2> SUFFICES ASSUME NEW g \in owned PROVE g.at \in O /\ Shown(g)' = Shown(g)
    OBVIOUS
  <2>1. g.at \in O
    BY DEF OutStarts
  <2>2. header'[g.at] = header[g.at]
    BY <1>1, <1>h, <2>1
  <2> QED
    BY <2>1, <2>2 DEF Shown
<1>6. g0.at = b /\ Shown(g0)' = new
  BY <1>1, <1>h DEF Shown
<1>7. AllShown' = AllShown \cup {new}
  <2> HIDE DEF g0, new
  <2>1. owned' = owned \cup {g0}
    BY DEF g0
  <2>2. AllShown' = {Shown(g)' : g \in owned'}
    BY DEF AllShown
  <2>3. \A x : x \in AllShown' <=> x \in AllShown \/ x = new
    BY <1>5, <1>6, <2>1, <2>2, Zenon DEF AllShown
  <2> QED
    BY <2>3
<1>8. BuddyPromise!Extent(new) \subseteq 0 .. Pow2[RootLevel] - 1
  BY <1>4 DEF BuddyPromise!Extent
<1>9. ASSUME NEW c \in AllShown PROVE BuddyPromise!Extent(new) \cap BuddyPromise!Extent(c) = {}
  <2>1. PICK g \in owned : c = Shown(g)
    BY DEF AllShown
  <2> DEFINE a == g.at
             s == Pow2[header[a].level]
             t == Pow2[l]
  <2>2. a \in O /\ a # b
    BY <1>1, <1>5
  <2>3. SizeOf(r, a) = s
    BY <1>1, <2>2 DEF SizeOf
  <2>4. a \in Nat /\ s \in Nat /\ (a < b => a + s <= b) /\ (b < a => b + t <= a)
    <3>1. a \in (O \cup {b}) \cup F /\ b \in (O \cup {b}) \cup F
      BY <2>2
    <3>2. a \in Nat /\ SizeOf(r, a) \in Nat
      BY <1>0, <1>3, <3>1, TileFacts
    <3> QED
      BY <1>3, <1>4, <2>3, <3>1, <3>2 DEF Tiled
  <2>5. c.at = a - managedMemory /\ c.size = s
    BY <2>1 DEF Shown
  <2> HIDE DEF a, s, t
  <2>6. BuddyPromise!Extent(c) = a - managedMemory .. a - managedMemory + s - 1
    BY <2>5 DEF BuddyPromise!Extent
  <2>7. BuddyPromise!Extent(new) = b - managedMemory .. b - managedMemory + t - 1
    BY DEF BuddyPromise!Extent, t
  <2>8. t \in Nat
    BY <1>4 DEF t
  <2> QED
    BY <1>4, <2>2, <2>4, <2>6, <2>7, <2>8
<1>10. new \in AllShown' /\ new.asked \in BuddyAsked /\ new.asked <= new.size
       /\ new.size \in {Pow2[k] : k \in 0 .. RootLevel}
  BY <1>1, <1>7
<1> HIDE DEF new
<1>11. \E x \in AllShown' :
         /\ AllShown' = AllShown \cup {x}
         /\ x.asked \in BuddyAsked /\ x.size \in {Pow2[k] : k \in 0 .. RootLevel} /\ x.asked <= x.size
         /\ BuddyPromise!Extent(x) \subseteq 0 .. Pow2[RootLevel] - 1
         /\ \A c \in AllShown : BuddyPromise!Extent(x) \cap BuddyPromise!Extent(c) = {}
  BY <1>7, <1>8, <1>9, <1>10
<1> QED
  BY <1>11 DEF BuddyPromise!Alloc, AllShown, Shown

LEMMA OneBackIsPromised ==
  ASSUME BuddyInv, managedMemory' = managedMemory, NEW b \in OutStarts,
         OneBack(Memory', OutStarts, b), owned' = {g \in owned : g.at # b}
  PROVE  BuddyPromise!Free
<1> PICK r : r = Memory'
  OBVIOUS
<1>0. managedMemory \in HeapStarts
  BY DEF BuddyInv
<1>1. header' = r.header /\ \A a \in OutStarts \ {b} : r.header[a] = header[a]
  BY DEF Memory, OneBack
<1>2. PICK g0 \in owned : g0.at = b
  BY DEF OutStarts
<1>3. \A g, g2 \in owned : g.at = g2.at => g = g2
  BY DEF BuddyInv, OwnersAreKnown
<1>4. \A g \in owned : g.at # b <=> g # g0
  BY <1>2, <1>3
<1>5. \A g \in owned : g # g0 => Shown(g)' = Shown(g) /\ Shown(g) # Shown(g0)
  <2> SUFFICES ASSUME NEW g \in owned, g # g0 PROVE Shown(g)' = Shown(g) /\ Shown(g) # Shown(g0)
    OBVIOUS
  <2>1. g.at # b /\ g.at \in OutStarts
    BY <1>4 DEF OutStarts
  <2>2. header'[g.at] = header[g.at]
    BY <1>1, <2>1
  <2>3. Shown(g)' = Shown(g)
    BY <2>2 DEF Shown
  <2>4. g.at \in Nat /\ g0.at \in Nat /\ managedMemory \in Nat
    BY <1>0, <1>2, HeapFacts DEF BuddyInv, OwnersAreKnown
  <2>5. Shown(g) # Shown(g0)
    <3>1. Shown(g).at = g.at - managedMemory /\ Shown(g0).at = g0.at - managedMemory
      BY DEF Shown
    <3> QED
      BY <1>2, <2>1, <2>4, <3>1
  <2> QED
    BY <2>3, <2>5
<1>6. AllShown' = AllShown \ {Shown(g0)}
  <2>1. \A g : g \in owned' <=> g \in owned /\ g # g0
    BY <1>4
  <2>2. AllShown' = {Shown(g)' : g \in owned'}
    BY DEF AllShown
  <2>3. \A x : x \in AllShown' <=> x \in AllShown /\ x # Shown(g0)
    BY <1>5, <2>1, <2>2, Zenon DEF AllShown
  <2> QED
    BY <2>3
<1>7. \E x \in AllShown : AllShown' = AllShown \ {x}
  BY <1>6 DEF AllShown
<1> QED
  BY <1>7 DEF BuddyPromise!Free, AllShown, Shown

LEMMA BuddyStep ==
  ASSUME BuddyInv, [BuddyNext]_buddyVars
  PROVE  BuddyInv' /\ [BuddyPromise!Alloc \/ BuddyPromise!Free]_AllShown
<1>1. CASE AllocSucceeds
  <2>1. PICK n \in BuddyAsked, written \in BOOLEAN :
          LET l == memoryToLevel(n)
              b == blocks[Min(LevelsToTakeFrom(l))]
              m == findFreeBlock(l)
          IN /\ LevelsToTakeFrom(l) # {}
             /\ header' = [a \in HeapAddress |->
                  IF a = b THEN [m.header[b] EXCEPT !.blockState = "ALLOCATED"]
                  ELSE IF written /\ a \in Inside(b, l) THEN Data ELSE m.header[a]]
             /\ blocks' = m.blocks
             /\ usedMemory' = usedMemory + Pow2[l]
             /\ owned' = owned \cup {[at |-> b, asked |-> n]}
    BY <1>1 DEF AllocSucceeds
  <2> DEFINE l == memoryToLevel(n)
             b == blocks[Min(LevelsToTakeFrom(l))]
             r == GivenOut(findFreeBlock(l), b, l, written)
  <2>2. /\ LevelsToTakeFrom(l) # {} /\ Memory' = r
        /\ usedMemory' = usedMemory + Pow2[l] /\ owned' = owned \cup {[at |-> b, asked |-> n]}
    BY <2>1 DEF Memory, GivenOut
  <2>3. managedMemory' = managedMemory
    BY <1>1 DEF AllocSucceeds
  <2>d. l = memoryToLevel(n) /\ b = blocks[Min(LevelsToTakeFrom(l))]
        /\ r = GivenOut(findFreeBlock(l), b, l, written)
    OBVIOUS
  <2> HIDE DEF l, b, r
  <2>4. OneOut(r, OutStarts, b, l) /\ n <= Pow2[l]
    BY <2>2, <2>d, AllocIsSound
  <2>5. OneOut(Memory', OutStarts, b, l)
    BY <2>2, <2>4
  <2>6. BuddyInv'
    BY <2>2, <2>3, <2>4, <2>5, OneOutKeeps
  <2>7. BuddyPromise!Alloc
    BY <2>2, <2>3, <2>4, <2>5, OneOutIsPromised
  <2> QED
    BY <2>6, <2>7
<1>2. CASE BuddyFrees
  <2>1. PICK b \in HeapAddress :
          /\ IsAllocated(b)
          /\ LET freed == [Memory EXCEPT !.header[b].blockState = "FREE"]
                 m == mergeBlocks(pushFree(freed, b), b)
             IN header' = m.header /\ blocks' = m.blocks
          /\ usedMemory' = usedMemory - Pow2[header[b].level]
          /\ owned' = {g \in owned : g.at # b}
    BY <1>2 DEF BuddyFrees
  <2> DEFINE r == mergeBlocks(pushFree([Memory EXCEPT !.header[b].blockState = "FREE"], b), b)
  <2>2. header' = r.header /\ blocks' = r.blocks
    BY <2>1
  <2>3. managedMemory' = managedMemory
    BY <1>2 DEF BuddyFrees
  <2>d. r = mergeBlocks(pushFree([Memory EXCEPT !.header[b].blockState = "FREE"], b), b)
    OBVIOUS
  <2> HIDE DEF r
  <2>4. OneBack(r, OutStarts, b) /\ b \in OutStarts
    BY <2>1, <2>d, FreeIsSound
  <2>5. r = Memory'
    <3>1. r \in Memories
      BY <2>4 DEF OneBack, Neat, Sound
    <3>2. r = [header |-> r.header, blocks |-> r.blocks]
      BY <3>1 DEF Memories
    <3> QED
      BY <2>2, <3>2 DEF Memory
  <2>6. OneBack(Memory', OutStarts, b)
    BY <2>4, <2>5
  <2>7. BuddyInv'
    BY <2>1, <2>3, <2>4, <2>6, OneBackKeeps
  <2>8. BuddyPromise!Free
    BY <2>1, <2>3, <2>4, <2>6, OneBackIsPromised
  <2> QED
    BY <2>7, <2>8
<1>3. CASE AllocTooLarge \/ UNCHANGED buddyVars
  <2>1. UNCHANGED <<managedMemory, blocks, header, usedMemory, owned>>
    BY <1>3 DEF AllocTooLarge, buddyVars
  <2>2. Memory' = Memory /\ OutStarts' = OutStarts /\ HeapAddress' = HeapAddress
    BY <2>1 DEF Memory, OutStarts, HeapAddress
  <2>3. Neat(Memory, OutStarts)'
    <3>1. PICK m : m = Memory'
      OBVIOUS
    <3>2. PICK O : O = OutStarts'
      OBVIOUS
    <3>3. Neat(m, O)
      BY <2>2, <3>1, <3>2 DEF BuddyInv
    <3> QED
      BY <2>1, <3>1, <3>2, <3>3, NeatPrimed
  <2>4. OwnersAreKnown'
    BY <2>1, <2>2 DEF BuddyInv, OwnersAreKnown
  <2>5. UnitsOut(Memory, OutStarts)' = UnitsOut(Memory, OutStarts)
    BY <2>2 DEF UnitsOut, Units, SizeOf
  <2>6. BuddyInv'
    BY <2>1, <2>3, <2>4, <2>5 DEF BuddyInv
  <2>7. UNCHANGED AllShown
    BY <2>1 DEF AllShown, Shown
  <2> QED
    BY <2>6, <2>7
<1> QED
  BY <1>1, <1>2, <1>3 DEF BuddyNext

LEMMA BuddyIsInv == BuddySpec => []BuddyInv
<1>1. BuddyInv /\ [BuddyNext]_buddyVars => BuddyInv'
  BY BuddyStep
<1> QED
  BY <1>1, BuddyInitInv, PTL DEF BuddySpec

(* The callers of the buddy manager get what memoryManager.h promises: a    *)
(* block inside the heap, at least as long as they asked for, that overlaps *)
(* no other; each block is given back once.                                 *)
THEOREM BuddyKeepsThePromise == BuddySpec => BuddyImplementsAllocator
<1>1. BuddyInit => AllShown = {}
  BY DEF BuddyInit, AllShown
<1>2. BuddyInv /\ [BuddyNext]_buddyVars => [BuddyPromise!Alloc \/ BuddyPromise!Free]_AllShown
  BY BuddyStep
<1>3. BuddySpec => AllShown = {} /\ [][BuddyPromise!Alloc \/ BuddyPromise!Free]_AllShown
  BY <1>1, <1>2, BuddyIsInv, PTL DEF BuddySpec
<1> QED
  BY <1>3, OutsideIsPromised DEF BuddyImplementsAllocator

-----------------------------------------------------------------------------
(* Following next from the head of a list finds the blocks of that list,    *)
(* all of them: there are fewer than the heap has units.                    *)
ListStep(l, it, n) ==
  IF n = 0 THEN {blocks[l]} \ {NIL} ELSE it[n - 1] \cup ({header[a].next : a \in it[n - 1]} \ {NIL})

LEMMA ListingExists ==
  ASSUME NEW l, NEW N \in Nat
  PROVE  \E it : it = [n \in 0 .. N |-> ListStep(l, it, n)]
<1> DEFINE UpTo(j, it) == \A n \in 0 .. N : n <= j => it[n] = ListStep(l, it, n)
           A == {j \in Nat : \E it : it = [n \in 0 .. N |-> it[n]] /\ UpTo(j, it)}
<1>1. 0 \in A
  <2> DEFINE it == [n \in 0 .. N |-> {blocks[l]} \ {NIL}]
  <2>1. it = [n \in 0 .. N |-> it[n]] /\ UpTo(0, it)
    BY DEF ListStep
  <2> HIDE DEF it, UpTo
  <2> QED
    BY <2>1
<1>2. ASSUME NEW j \in Nat, j \in A PROVE j + 1 \in A
  <2>1. PICK it : it = [n \in 0 .. N |-> it[n]] /\ UpTo(j, it)
    BY <1>2
  <2> DEFINE jt == [n \in 0 .. N |-> ListStep(l, it, n)]
  <2>2. ASSUME NEW n \in 0 .. N, n <= j + 1 PROVE jt[n] = ListStep(l, jt, n)
    <3>1. CASE n = 0
      BY <3>1 DEF ListStep
    <3>2. CASE n # 0
      <4>1. n - 1 \in 0 .. N /\ n - 1 <= j
        BY <2>2, <3>2
      <4>2. it[n - 1] = ListStep(l, it, n - 1)
        BY <2>1, <4>1
      <4>3. jt[n - 1] = it[n - 1]
        BY <4>1, <4>2
      <4> QED
        BY <3>2, <4>3 DEF ListStep
    <3> QED
      BY <3>1, <3>2
  <2>3. jt = [n \in 0 .. N |-> jt[n]]
    OBVIOUS
  <2>4. UpTo(j + 1, jt)
    BY <2>2
  <2> HIDE DEF jt, UpTo
  <2>5. \E it_1 : it_1 = [n \in 0 .. N |-> it_1[n]] /\ UpTo(j + 1, it_1)
    BY <2>3, <2>4
  <2>6. j + 1 \in Nat
    OBVIOUS
  <2> QED
    BY <2>5, <2>6, Zenon
<1> HIDE DEF A
<1>3. N \in A
  BY <1>1, <1>2, AllNaturals
<1>4. PICK it : it = [n \in 0 .. N |-> it[n]] /\ UpTo(N, it)
  BY <1>3 DEF A
<1>5. it = [n \in 0 .. N |-> ListStep(l, it, n)]
  <2>1. \A n \in 0 .. N : it[n] = ListStep(l, it, n)
    BY <1>4
  <2> QED
    BY <1>4, <2>1
<1> QED
  BY <1>5

(* The blocks of a list before a given one, with it, are as many as its     *)
(* place says.                                                              *)
LEMMA PlacesAreFew ==
  ASSUME managedMemory \in HeapStarts, NEW F, NEW at, Linked(Memory, F, at), NEW x \in F
  PROVE  at[x] \in Nat /\ at[x] < Pow2[RootLevel]
<1> DEFINE l == header[x].level
           Fl == {a \in F : header[a].level = l}
           A == {k \in Nat : \A a \in Fl : at[a] = k =>
                   \E T \in SUBSET Fl : IsFiniteSet(T) /\ Cardinality(T) = k + 1 /\ \A c \in T : at[c] <= k}
<1>1. /\ F \subseteq HeapAddress /\ at \in [HeapAddress -> Nat]
      /\ \A a \in F : LET h == header[a] IN
           h.prev # NIL => h.prev \in F /\ header[h.prev].level = h.level /\ at[a] = at[h.prev] + 1
      /\ \A a \in F : header[a].prev = NIL => at[a] = 0
  BY DEF Linked, Memory
<1>2. \A a \in F : at[a] \in Nat
  BY <1>1
<1>3. 0 \in A
  <2> SUFFICES ASSUME NEW a \in Fl, at[a] = 0
               PROVE  \E T \in SUBSET Fl : IsFiniteSet(T) /\ Cardinality(T) = 0 + 1 /\ \A c \in T : at[c] <= 0
    OBVIOUS
  <2>1. IsFiniteSet({a}) /\ Cardinality({a}) = 1
    BY FS_Singleton
  <2> WITNESS {a} \in SUBSET Fl
  <2> QED
    BY <2>1
<1>4. ASSUME NEW k \in Nat, k \in A PROVE k + 1 \in A
  <2> SUFFICES ASSUME NEW a \in Fl, at[a] = k + 1
               PROVE  \E T \in SUBSET Fl : IsFiniteSet(T) /\ Cardinality(T) = (k + 1) + 1
                                           /\ \A c \in T : at[c] <= k + 1
    OBVIOUS
  <2> DEFINE p == header[a].prev
  <2>1. p # NIL
    BY <1>1
  <2>2. p \in Fl /\ at[p] = k
    <3>1. p \in F /\ header[p].level = l /\ at[a] = at[p] + 1
      BY <1>1, <2>1
    <3>2. at[p] \in Nat
      BY <1>2, <3>1
    <3> QED
      BY <3>1, <3>2
  <2>3. PICK T \in SUBSET Fl : IsFiniteSet(T) /\ Cardinality(T) = k + 1 /\ \A c \in T : at[c] <= k
    BY <1>4, <2>2
  <2>4. a \notin T
    BY <2>3
  <2>5. IsFiniteSet(T \cup {a}) /\ Cardinality(T \cup {a}) = Cardinality(T) + 1
    BY <2>3, <2>4, FS_AddElement
  <2>6. \A c \in T \cup {a} : at[c] <= k + 1
    <3>1. \A c \in T : at[c] \in Nat
      BY <1>2, <2>3
    <3> QED
      BY <2>3, <3>1
  <2> WITNESS T \cup {a} \in SUBSET Fl
  <2> QED
    BY <2>3, <2>5, <2>6
<1> HIDE DEF A
<1>5. at[x] \in A /\ at[x] \in Nat
  BY <1>2, <1>3, <1>4, AllNaturals
<1>6. PICK T \in SUBSET Fl : IsFiniteSet(T) /\ Cardinality(T) = at[x] + 1
  BY <1>5 DEF A
<1>7. T \subseteq HeapAddress
  BY <1>1
<1>8. Cardinality(T) <= Pow2[RootLevel]
  BY <1>7, HeapIsFinite, FS_Subset
<1>9. Pow2[RootLevel] \in Nat
  BY HeapFacts
<1> QED
  BY <1>5, <1>6, <1>8, <1>9

LEMMA OnListIs ==
  ASSUME managedMemory \in HeapStarts, NEW F, NEW at, Linked(Memory, F, at), NEW l \in Level
  PROVE  OnList(l) = {a \in F : header[a].level = l}
<1> DEFINE N == Pow2[RootLevel]
           Fl == {a \in F : header[a].level = l}
           it == CHOOSE it : it = [n \in 0 .. N |-> ListStep(l, it, n)]
<1>0. N \in Nat
  BY HeapFacts
<1>1. it = [n \in 0 .. N |-> ListStep(l, it, n)]
  <2> HIDE DEF N
  <2> QED
    BY <1>0, ListingExists
<1>2. OnList(l) = it[N]
  BY DEF OnList, ListStep
<1>e. \A k \in Nat : k <= N => k \in 0 .. N
  BY <1>0
<1> HIDE DEF it, N
<1>3. /\ it[0] = {blocks[l]} \ {NIL}
      /\ \A n \in Nat : n + 1 <= N => it[n + 1] = it[n] \cup ({header[a].next : a \in it[n]} \ {NIL})
  <2>1. \A n \in 0 .. N : it[n] = ListStep(l, it, n)
    BY <1>1
  <2>2. it[0] = {blocks[l]} \ {NIL}
    <3>1. 0 \in 0 .. N
      BY <1>0
    <3>2. it[0] = ListStep(l, it, 0)
      BY <2>1, <3>1
    <3> QED
      BY <3>2, Zenon DEF ListStep
  <2>3. ASSUME NEW n \in Nat, n + 1 <= N
        PROVE  it[n + 1] = it[n] \cup ({header[a].next : a \in it[n]} \ {NIL})
    <3>1. n + 1 \in 0 .. N /\ n + 1 # 0 /\ (n + 1) - 1 = n
      BY <1>0, <2>3
    <3>2. it[n + 1] = ListStep(l, it, n + 1)
      BY <2>1, <3>1
    <3> QED
      BY <3>1, <3>2 DEF ListStep
  <2> QED
    BY <2>2, <2>3
<1>4. /\ F \subseteq HeapAddress /\ at \in [HeapAddress -> Nat]
      /\ blocks[l] # NIL => blocks[l] \in Fl
      /\ \A a \in Fl : header[a].next # NIL => header[a].next \in Fl
      /\ \A a \in Fl : header[a].prev # NIL =>
           /\ header[a].prev \in Fl /\ header[header[a].prev].next = a
           /\ at[a] = at[header[a].prev] + 1
      /\ \A a \in Fl : header[a].prev = NIL => at[a] = 0 /\ blocks[l] = a
  BY DEF Linked, Memory
<1>5. \A a \in Fl : at[a] \in Nat /\ at[a] < N /\ a # NIL
  <2> SUFFICES ASSUME NEW a \in Fl PROVE at[a] \in Nat /\ at[a] < N /\ a # NIL
    OBVIOUS
  <2>1. a \in F /\ a \in HeapAddress
    BY <1>4
  <2>2. at[a] \in Nat /\ at[a] < Pow2[RootLevel]
    BY <2>1, PlacesAreFew
  <2> QED
    BY <2>1, <2>2, HeapFacts DEF N
<1> HIDE DEF Fl
(* Nothing else is found. *)
<1> DEFINE A == {n \in Nat : n <= N => it[n] \subseteq Fl}
<1>6. 0 \in A
  BY <1>3, <1>4
<1>7. ASSUME NEW n \in Nat, n \in A PROVE n + 1 \in A
  <2> SUFFICES ASSUME n + 1 <= N PROVE it[n + 1] \subseteq Fl
    OBVIOUS
  <2>1. it[n] \subseteq Fl
    BY <1>0, <1>7
  <2>2. it[n + 1] = it[n] \cup ({header[a].next : a \in it[n]} \ {NIL})
    BY <1>3
  <2> QED
    BY <1>4, <2>1, <2>2
<1> HIDE DEF A
<1>8. it[N] \subseteq Fl
  <2>1. N \in A
    BY <1>0, <1>6, <1>7, AllNaturals
  <2> QED
    BY <1>0, <2>1 DEF A
(* What is found stays found. *)
<1> DEFINE B == {k \in Nat : \A n \in Nat : n + k <= N => it[n] \subseteq it[n + k]}
<1>9. 0 \in B
  OBVIOUS
<1>10. ASSUME NEW k \in Nat, k \in B PROVE k + 1 \in B
  <2> SUFFICES ASSUME NEW n \in Nat, n + (k + 1) <= N PROVE it[n] \subseteq it[n + (k + 1)]
    OBVIOUS
  <2>1. n + k \in Nat /\ n + k <= N /\ (n + k) + 1 <= N /\ (n + k) + 1 = n + (k + 1)
    BY <1>0
  <2>2. it[n] \subseteq it[n + k]
    BY <1>10, <2>1
  <2>3. it[n + k] \subseteq it[(n + k) + 1]
    BY <1>3, <2>1
  <2> QED
    BY <2>1, <2>2, <2>3
<1> HIDE DEF B
<1>11. Nat \subseteq B
  BY <1>9, <1>10, AllNaturals
(* A block is found when its place comes. *)
<1> DEFINE C == {k \in Nat : k <= N => \A a \in Fl : at[a] = k => a \in it[k]}
<1>12. 0 \in C
  <2> SUFFICES ASSUME NEW a \in Fl, at[a] = 0 PROVE a \in it[0]
    OBVIOUS
  <2>1. header[a].prev = NIL
    <3> SUFFICES ASSUME header[a].prev # NIL PROVE FALSE
      OBVIOUS
    <3>1. header[a].prev \in Fl /\ at[a] = at[header[a].prev] + 1
      BY <1>4
    <3>2. at[header[a].prev] \in Nat
      BY <1>5, <3>1
    <3> QED
      BY <3>1, <3>2
  <2> QED
    BY <1>3, <1>4, <1>5, <2>1
<1>13. ASSUME NEW k \in Nat, k \in C PROVE k + 1 \in C
  <2> SUFFICES ASSUME k + 1 <= N, NEW a \in Fl, at[a] = k + 1 PROVE a \in it[k + 1]
    OBVIOUS
  <2> DEFINE p == header[a].prev
  <2>1. p # NIL
    BY <1>4
  <2>2. p \in Fl /\ header[p].next = a /\ at[a] = at[p] + 1
    BY <1>4, <2>1
  <2>3. at[p] \in Nat
    BY <1>5, <2>2
  <2>4. at[p] = k /\ k <= N
    BY <1>0, <2>2, <2>3
  <2>5. p \in it[k]
    BY <1>13, <2>2, <2>4
  <2>6. a \in {header[c].next : c \in it[k]} \ {NIL}
    BY <1>5, <2>2, <2>5
  <2> QED
    BY <1>3, <2>6
<1> HIDE DEF C
<1>14. Fl \subseteq it[N]
  <2> SUFFICES ASSUME NEW a \in Fl PROVE a \in it[N]
    OBVIOUS
  <2>1. at[a] \in Nat /\ at[a] <= N /\ N - at[a] \in Nat /\ at[a] + (N - at[a]) = N
    BY <1>0, <1>5
  <2>2. at[a] \in C
    BY <1>12, <1>13, <2>1, AllNaturals
  <2>3. a \in it[at[a]]
    BY <2>1, <2>2 DEF C
  <2>4. N - at[a] \in B
    BY <1>11, <2>1
  <2>5. it[at[a]] \subseteq it[at[a] + (N - at[a])]
    BY <1>0, <2>1, <2>4 DEF B
  <2> QED
    BY <2>1, <2>3, <2>5
<1> QED
  BY <1>2, <1>8, <1>14 DEF Fl

LEMMA InvLists ==
  ASSUME BuddyInv, NEW F, Sound(Memory, OutStarts, F)
  PROVE  ListsAreLinked /\ \A l \in Level : OnList(l) = {a \in F : header[a].level = l}
<1>0. managedMemory \in HeapStarts
  BY DEF BuddyInv
<1>1. PICK at : Linked(Memory, F, at)
  BY DEF Sound
<1>2. \A l \in Level : OnList(l) = {a \in F : header[a].level = l}
  BY <1>0, <1>1, OnListIs
<1>3. /\ \A a \in F : LET h == header[a] IN
           /\ h.blockState = "FREE"
           /\ h.next # NIL => header[h.next].prev = a
      /\ \A l \in Level : blocks[l] # NIL => header[blocks[l]].prev = NIL
  BY <1>1 DEF Linked, Memory
<1>4. ListsAreLinked
  <2> SUFFICES ASSUME NEW l \in Level
               PROVE  /\ blocks[l] # NIL => header[blocks[l]].prev = NIL
                      /\ \A a \in OnList(l) :
                           /\ header[a].level = l /\ header[a].blockState = "FREE"
                           /\ header[a].next # NIL => header[header[a].next].prev = a
    BY DEF ListsAreLinked
  <2>1. \A a \in OnList(l) : a \in F /\ header[a].level = l
    BY <1>2
  <2> QED
    BY <1>3, <2>1
<1> QED
  BY <1>2, <1>4

LEMMA InvNothingLost == BuddyInv => NothingLostOrShared
<1> SUFFICES ASSUME BuddyInv PROVE NothingLostOrShared
  OBVIOUS
<1>0. managedMemory \in HeapStarts
  BY DEF BuddyInv
<1>1. PICK F : Sound(Memory, OutStarts, F)
  BY DEF BuddyInv, Neat
<1>2. ListsAreLinked /\ \A l \in Level : OnList(l) = {a \in F : header[a].level = l}
  BY <1>1, InvLists
<1>3. UsedMemoryIsExact
  BY OutIsOwned DEF BuddyInv, UsedMemoryIsExact
<1>4. Memory \in Memories /\ Tiled(Memory, OutStarts \cup F)
  BY <1>1 DEF Sound
<1>h. Memory.header = header
  BY DEF Memory
<1>5. BlockStarts = OutStarts \cup F
  <2>1. \A a \in F : header[a].level \in Level
    <3> SUFFICES ASSUME NEW a \in F PROVE header[a].level \in Level
      OBVIOUS
    <3>1. a \in OutStarts \cup F
      OBVIOUS
    <3>2. Memory.header[a].level \in 0 .. RootLevel
      BY <1>0, <1>4, <3>1, TileFacts
    <3> QED
      BY <1>0, <1>h, <3>2, HeapFacts
  <2>2. UNION {OnList(l) : l \in Level} = F
    BY <1>2, <2>1
  <2> QED
    BY <2>2 DEF BlockStarts, OutStarts
<1>6. ASSUME NEW a \in HeapAddress
      PROVE  Cardinality({b \in BlockStarts : b <= a /\ a < b + Pow2[header[b].level]}) = 1
  <2> DEFINE S == OutStarts \cup F
             Q == {b \in BlockStarts : b <= a /\ a < b + Pow2[header[b].level]}
  <2>0. \A b \in S : SizeOf(Memory, b) = Pow2[header[b].level] /\ SizeOf(Memory, b) \in Nat /\ b \in Nat
    BY <1>0, <1>4, <1>h, TileFacts DEF SizeOf
  <2>a. a \in Nat
    BY <1>0, HeapFacts
  <2>1. PICK c \in S : c <= a /\ a < c + SizeOf(Memory, c)
    BY <1>4 DEF Tiled
  <2>2. ASSUME NEW b \in S, b <= a, a < b + SizeOf(Memory, b) PROVE b = c
    <3>1. b < c => b + SizeOf(Memory, b) <= c
      BY <1>4 DEF Tiled
    <3>2. c < b => c + SizeOf(Memory, c) <= b
      BY <1>4 DEF Tiled
    <3> QED
      BY <2>0, <2>a, <2>1, <2>2, <3>1, <3>2
  <2>3. Q = {c}
    <3>1. \A b : b \in Q <=> b \in S /\ b <= a /\ a < b + SizeOf(Memory, b)
      BY <1>5, <2>0
    <3> HIDE DEF Q, S
    <3>2. \A b : b \in Q <=> b = c
      BY <2>1, <2>2, <3>1
    <3> QED
      BY <3>2
  <2> QED
    BY <2>3, FS_Singleton
<1> QED
  BY <1>2, <1>3, <1>6 DEF NothingLostOrShared

LEMMA InvMerges == BuddyInv => AlignedHeapMerges
<1> SUFFICES ASSUME BuddyInv, managedMemory % Pow2[RootLevel] = 0,
                    NEW l \in Level, NEW a \in OnList(l), NEW b \in OnList(l), AreHalves(a, b)
             PROVE  FALSE
  BY DEF AlignedHeapMerges, FreeHalvesAreMerged
<1>0. managedMemory \in HeapStarts /\ HeapIsAligned
  BY DEF BuddyInv, HeapIsAligned
<1>1. PICK F : Sound(Memory, OutStarts, F) /\ (HeapIsAligned => Multiples(Memory, OutStarts \cup F) /\ NoTwins(Memory, F))
  BY DEF BuddyInv, Neat
<1>2. a \in F /\ b \in F /\ NoTwins(Memory, F)
  BY <1>0, <1>1, InvLists
<1>h. Memory.header = header
  BY DEF Memory
<1> DEFINE s == Pow2[header[a].level]
           lv == header[a].level
           root == Pow2[RootLevel]
<1>3. /\ header[a].level = header[b].level /\ b = a + s /\ (a - managedMemory) % (2 * s) = 0
      /\ SizeOf(Memory, a) = s /\ SizeOf(Memory, b) = s
  BY <1>h DEF AreHalves, SizeOf
<1>4. /\ a \in Nat /\ s \in Nat /\ s > 0 /\ managedMemory <= a /\ lv \in 0 .. RootLevel
      /\ b + s <= managedMemory + root /\ root \in Nat /\ managedMemory \in Nat /\ RootLevel \in Nat
  <2>1. Memory \in Memories /\ Tiled(Memory, OutStarts \cup F) /\ a \in OutStarts \cup F /\ b \in OutStarts \cup F
    BY <1>1, <1>2 DEF Sound
  <2>2. a \in Nat /\ managedMemory <= a /\ SizeOf(Memory, a) \in Nat /\ SizeOf(Memory, a) > 0
        /\ Memory.header[a].level \in 0 .. RootLevel
    BY <1>0, <2>1, TileFacts
  <2>3. b + SizeOf(Memory, b) <= End
    BY <1>0, <2>1, TileFacts
  <2> QED
    BY <1>0, <1>3, <1>h, <2>2, <2>3, HeapFacts DEF End
<1>d. s = Pow2[lv] /\ root = Pow2[RootLevel]
  OBVIOUS
<1>r. managedMemory % root = 0
  OBVIOUS
<1> HIDE DEF s, lv, root
<1>5. lv + 1 <= RootLevel /\ lv \in Nat
  <2>1. 2 * s <= root
    BY <1>3, <1>4
  <2>2. s # root
    BY <1>4, <2>1
  <2> QED
    BY <1>4, <1>d, <2>2
<1>6. PICK q \in Nat : root = q * (2 * s)
  <2>1. lv + 1 \in Nat /\ RootLevel - (lv + 1) \in Nat /\ (lv + 1) + (RootLevel - (lv + 1)) = RootLevel
    BY <1>4, <1>5
  <2>2. \E q \in Nat : Pow2[(lv + 1) + (RootLevel - (lv + 1))] = q * Pow2[lv + 1]
    BY <2>1, PowersGrow
  <2>3. Pow2[lv + 1] = 2 * s
    BY <1>5, <1>d, Powers
  <2> QED
    BY <1>d, <2>1, <2>2, <2>3
<1>7. PICK k \in Nat : managedMemory = k * root
  <2>1. root > 0
    BY <1>3, <1>4
  <2>2. managedMemory = (managedMemory \div root) * root /\ managedMemory \div root \in Nat
    BY <1>4, <1>r, <2>1
  <2> QED
    BY <2>2
<1>8. PICK j \in Nat : a - managedMemory = j * (2 * s)
  <2> DEFINE x == a - managedMemory
             t == 2 * s
  <2>1. x \in Nat /\ t \in Nat /\ t > 0 /\ x % t = 0
    BY <1>3, <1>4
  <2> HIDE DEF x, t
  <2>2. x = (x \div t) * t /\ x \div t \in Nat
    BY <2>1
  <2> QED
    BY <2>2 DEF x, t
<1>9. (a \div s) % 2 = 0
  <2>1. k * q \in Nat /\ managedMemory = (k * q) * (2 * s)
    BY <1>4, <1>6, <1>7
  <2> DEFINE z == k * q + j
  <2>2. z \in Nat
    BY <2>1
  <2>3. a = (k * q) * (2 * s) + j * (2 * s)
    BY <1>4, <1>8, <2>1
  <2>4. a = z * (2 * s)
    BY <1>4, <2>1, <2>3
  <2> HIDE DEF z
  <2>5. a = (2 * z) * s /\ 2 * z \in Nat
    BY <1>4, <2>2, <2>4
  <2>6. a \div s = 2 * z
    BY <1>4, <2>5, QuotientOfMultiple
  <2> QED
    BY <2>2, <2>6
<1>10. a + SizeOf(Memory, a) \in F /\ Memory.header[a + SizeOf(Memory, a)].level = Memory.header[a].level
  BY <1>2, <1>3, <1>h
<1> QED
  BY <1>2, <1>3, <1>9, <1>10 DEF NoTwins

(* Every unit of the heap is in exactly one block, which is given out or in *)
(* the list of its level; the lists are linked both ways and usedMemory is  *)
(* what is out: for heaps of any size that start anywhere, also the         *)
(* kernel's, which is not aligned.                                          *)
THEOREM BuddyLosesNothing == BuddySpec => []NothingLostOrShared
<1> QED
  BY BuddyIsInv, InvNothingLost, PTL

(* In a heap that starts at a multiple of its size, mergeBlocks() leaves no *)
(* two halves of a block free.                                              *)
THEOREM BuddyMergesHalves == BuddySpec => []AlignedHeapMerges
<1> QED
  BY BuddyIsInv, InvMerges, PTL

=============================================================================
