\* The kernel's heap: free buddies that are not merged.
SPECIFICATION BuddySpec
CONSTANTS
  HeapStarts = {3}
  MemorySize = 15
  RootLevel = 3
  BLOCKS = 5
  BuddyAsked = {1, 3, 17}
  MaxGiven = 4
INVARIANT FreeHalvesAreMerged
\* After a request that is too large the manager answers no more.
CHECK_DEADLOCK FALSE
