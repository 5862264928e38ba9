\* The disk image, the clock, the module loader, the list queue, the terminal and the two
\* memory managers, one at a time.
SPECIFICATION ServicesSpec
CONSTANTS
  f1 = f1
  f2 = f2
  f3 = f3
  x = x
  y = y
  FileName <- MCFileName
  Datum <- MCDatum
  Records = 3
  Wrap = 256
  Kilo = 4
  SizeArgs <- MCSizeArgs
  ShortSizes = {0, 3}
  MaxSizes = {1, 3}
  DiskBound = 6
  KernelSize = 2
  KernelBss = 3
  KernelEnd = 10
  Target <- MCTarget
  MemoryEnd = 21
  ModuleSizes = {0, 1, 2, 3, 4, 5, 6}
  UserBss = 1
  u = u
  v = v
  w = w
  n1 = n1
  n2 = n2
  n3 = n3
  Address <- MCAddress
  Item <- MCItem
  NULL = NULL
  Key = {1, 2, 3}
  KeyOf <- MCKeyOf
  Cols = 3
  Rows = 3
  Length = 8
  TypedAhead = 1
  LetterKeys = {"c"}
  blockQty = 9
  Asked = {1, 2, 4, 6}
  HeapStarts = {3, 8}
  MemorySize = 15
  RootLevel = 3
  BLOCKS = 5
  BuddyAsked = {1, 3, 17}
  MaxGiven = 4
  Minute = 2
  Hour = 2
  Day = 2
  daytab <- MCdaytab
  Century = 2
  Y2K = 2000
  Millis = 3
  MonthDays = 3
  YearDays = 10
  Word = 128
  Begins <- MCBegins
  Waits = {2}
  Patience = 3
  MaxTouches = 2
  Strays <- MCStrays
INVARIANTS
  DiskHasTheSizeAsked
  ReadsWhatWasWritten
  ModulesAreInPlace
  EchoMatchesLine
  Chained
  MarksMatchBlocks
  RoomIsFound
  NothingLostOrShared
  AlignedHeapMerges
PROPERTIES
  SleepsAsAsked
  KeepsOrder
  ImplementsAllocator
  BuddyImplementsAllocator
CONSTRAINT Undisturbed
\* A loaded image and a buddy manager after a request that is too large go no further.
CHECK_DEADLOCK FALSE
