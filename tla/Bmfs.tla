-------------------------------- MODULE Bmfs --------------------------------
(***************************************************************************)
(* The file system of the disk image, as the host tool                     *)
(* Bootloader/BMFS/bmfs.c keeps it: a directory of fixed records at 4 KiB  *)
(* and files that each reserve a run of 2 MiB blocks.  Every call of the   *)
(* tool is an action; a file's data is one datum per block.                *)
(***************************************************************************)
EXTENDS Integers, FiniteSets, Sequences, SequencesExt, FiniteSetsExt

CONSTANTS
  FileName,   \* names of files
  Datum,      \* contents of a block
  Records,    \* 64: records of the directory
  Wrap,       \* 2^64: where unsigned long long wraps around
  Kilo,       \* 1024
  SizeArgs,   \* the size arguments of initialize: digits and unit (0: none, 1: K, 2: M)
  ShortSizes, \* bound: the MiB written when filling the disk fails
  MaxSizes,   \* bound: the sizes in MiB asked for in create
  DiskBound   \* bound: blocks the model follows

ASSUME BmfsAssumption ==
  /\ Records \in Nat \ {0} /\ Wrap \in Nat \ {0} /\ Kilo \in Nat \ {0, 1} /\ DiskBound \in Nat
  /\ MaxSizes \subseteq Nat \ {0} /\ \E n \in MaxSizes : \A m \in MaxSizes : m <= n
  /\ ShortSizes \subseteq Nat /\ FileName \cap {"end", "deleted"} = {}
  /\ \A a \in SizeArgs : a.unit \in Nat /\ a.digits \in Seq(0..9)

VARIABLES
  sizeArg,   \* what the last initialize was asked for
  diskBytes, \* diskSize: the size the last initialize read
  disksize,  \* global: size of the disk in MiB, measured at every call
  formatted, \* is the BMFS tag there?
  directory, \* Directory
  block,     \* contents of the disk's blocks
  stored,    \* history: what write() was last given for each file that was created
  strayed    \* history: has create() looked for room where it cannot tell?

diskVars == <<sizeArg, diskBytes, disksize, formatted, directory, block, stored, strayed>>

End == "end"          \* FileName[0] = 0x00: no records from here on
Deleted == "deleted"  \* FileName[0] = 0x01
Zero == "zero"
Bad == -1
NoFile == <<"no file">>

Index == 0..Records - 1
EmptyRecord == [name |-> End, start |-> 0, reserved |-> 0, size |-> 0]

BmfsInit ==
  /\ sizeArg = [digits |-> <<>>, unit |-> 0] /\ diskBytes = 0 /\ disksize = 0
  /\ formatted = FALSE
  /\ directory = [i \in Index |-> EmptyRecord]
  /\ block = [b \in 0..DiskBound |-> Zero]
  /\ stored = [f \in FileName |-> NoFile]
  /\ strayed = FALSE

-----------------------------------------------------------------------------
(* initialize(): the size argument, in 64-bit arithmetic.  The test against *)
(* overflow compares the product with its factor.                           *)
readDigit(n, d) ==
  CASE n > 0 /\ (10 * n) % Wrap > n -> (10 * n + d) % Wrap
    [] n = 0                        -> d
    [] OTHER                        -> Bad

readDigits(digits) ==
  LET n[k \in 0..Len(digits)] == IF k = 0 THEN 0 ELSE readDigit(n[k - 1], digits[k])
  IN n[Len(digits)]

timesKilo(n) == IF n # Bad /\ (Kilo * n) % Wrap > n THEN (Kilo * n) % Wrap ELSE Bad

timesUnit(n, unit) ==
  LET times[k \in 0..unit] == IF k = 0 THEN n ELSE timesKilo(times[k - 1])
  IN IF n <= 0 THEN n ELSE times[unit]

\* Faulty: the case of a unit falls through into the next one.
applyUnit_FallsThrough(n, unit) == timesUnit(n, IF unit = 0 THEN 0 ELSE unit + 1)

applyUnit(n, unit) == timesUnit(n, unit)

diskSizeOf(arg) == applyUnit(readDigits(arg.digits), arg.unit)

MiB == Kilo * Kilo
minimumDiskSize == 6 * MiB

format == /\ formatted' = TRUE
          /\ directory' = [i \in Index |-> EmptyRecord]

(* Nothing is touched until the arguments are good and every file is open;  *)
(* then the disk file is truncated and filled with zeros, which may fail    *)
(* half way, before it is formatted.  The boot files that follow stay       *)
(* inside block 0, and a failure among them changes nothing modelled.       *)
Initialize ==
  \E arg \in SizeArgs : \E measured \in ShortSizes \cup {diskSizeOf(arg) \div MiB} :
    /\ diskSizeOf(arg) >= minimumDiskSize
    /\ sizeArg' = arg
    /\ diskBytes' = diskSizeOf(arg)
    /\ disksize' = measured
    /\ block' = [b \in 0..DiskBound |-> Zero]
    /\ IF measured \notin ShortSizes THEN format
       ELSE formatted' = FALSE /\ directory' = [i \in Index |-> EmptyRecord]
    /\ stored' = [f \in FileName |-> NoFile] /\ strayed' = FALSE

(* main(): format on a disk with no tag, or with /FORCE. *)
Format ==
  /\ disksize > 0
  /\ format
  /\ stored' = [f \in FileName |-> NoFile] /\ strayed' = FALSE
  /\ UNCHANGED <<sizeArg, diskBytes, disksize, block>>

-----------------------------------------------------------------------------
Ends == {i \in Index : directory[i].name = End}

(* findfile(): the search ends at the end mark. *)
Listed == {i \in Index : \A j \in 0..i : directory[j].name # End}
findfile(f) == {i \in Listed : directory[i].name = f}

(* A full directory has no end mark, and the count stays at zero. *)
numUsedEntries == IF Ends = {} THEN 0 ELSE Min(Ends)

freeEntries == {i \in Index : directory[i].name \in {End, Deleted}}

(* The copy of the directory that create() sorts: by starting block, with   *)
(* the deleted records last, in whatever order qsort() leaves them.         *)
SortedCopies ==
  {order \in [1..numUsedEntries -> 0..numUsedEntries - 1] :
     /\ IsInjective(order)
     /\ \A t, u \in 1..numUsedEntries :
          t < u => \/ directory[order[u]].name = Deleted
                   \/ /\ directory[order[t]].name # Deleted
                      /\ directory[order[t]].start <= directory[order[u]].start}

prevFileEnd(order, t) ==
  IF t = 1 THEN 1 ELSE directory[order[t - 1]].start + directory[order[t - 1]].reserved

thisFileStart(order, t) ==
  IF t > numUsedEntries \/ directory[order[t]].name = Deleted
  THEN disksize \div 2 - 1 ELSE directory[order[t]].start

(* The difference is unsigned: below zero it is huge. *)
fitsBefore(order, t, blocks) ==
  LET room == thisFileStart(order, t) - prevFileEnd(order, t)
  IN room < 0 \/ room >= blocks

(* The new record; when it takes the place of the end mark, the mark moves. *)
withRecord(slot, record) ==
  [i \in Index |-> IF i = slot THEN record
                   ELSE IF i = slot + 1 /\ slot = numUsedEntries
                        THEN [directory[i] EXCEPT !.name = End]
                   ELSE directory[i]]

Create ==
  \E f \in FileName, maxsize \in MaxSizes, order \in SortedCopies :
    LET blocks == (maxsize + 1) \div 2
        fitting == {t \in 1..numUsedEntries + 1 : fitsBefore(order, t, blocks)}
        t == Min(fitting)
    IN /\ formatted
       /\ findfile(f) = {} /\ freeEntries # {} /\ fitting # {}
       /\ prevFileEnd(order, t) + blocks <= DiskBound
       /\ directory' = withRecord(Min(freeEntries),
            [name |-> f, start |-> prevFileEnd(order, t), reserved |-> blocks, size |-> 0])
       /\ stored' = [stored EXCEPT ![f] = <<>>]
       /\ strayed' = \/ strayed \/ Ends = {} \/ disksize * MiB < minimumDiskSize
                     \/ t > 1 /\ directory[order[t - 1]].name = Deleted
       /\ UNCHANGED <<sizeArg, diskBytes, disksize, formatted, block>>

\* Faulty: a file may be longer than what it reserves.
hasRoom_OneMore(record, data) == Len(data) <= record.reserved + 1

hasRoom(record, data) == Len(data) <= record.reserved

(* write(): the data goes behind the file's start, past the end of the disk *)
(* if need be, which makes the disk file longer.                            *)
Write ==
  \E f \in FileName : \E slot \in findfile(f) : \E data \in SeqOf(Datum, Max(MaxSizes) \div 2 + 1) :
    LET start == directory[slot].start
    IN /\ formatted
       /\ hasRoom(directory[slot], data) /\ start + Len(data) <= DiskBound + 1
       /\ block' = [b \in 0..DiskBound |->
            IF b \in start..start + Len(data) - 1 THEN data[b - start + 1] ELSE block[b]]
       /\ directory' = [directory EXCEPT ![slot].size = Len(data)]
       /\ disksize' = IF data = <<>> THEN disksize ELSE Max({disksize, 2 * (start + Len(data))})
       /\ stored' = [stored EXCEPT ![f] = data]
       /\ UNCHANGED <<sizeArg, diskBytes, formatted, strayed>>

(* delete() marks the record and leaves its numbers. *)
Delete ==
  \E f \in FileName : \E slot \in findfile(f) :
    /\ formatted
    /\ directory' = [directory EXCEPT ![slot].name = Deleted]
    /\ stored' = [stored EXCEPT ![f] = NoFile]
    /\ UNCHANGED <<sizeArg, diskBytes, disksize, formatted, block, strayed>>

(* What read() copies to a local file. *)
read(slot) == [k \in 1..directory[slot].size |-> block[directory[slot].start + k - 1]]

BmfsNext == Initialize \/ Format \/ Create \/ Write \/ Delete

BmfsSpec == BmfsInit /\ [][BmfsNext]_diskVars

-----------------------------------------------------------------------------
Reserved(i) == directory[i].start..directory[i].start + directory[i].reserved - 1
Files == {i \in Listed : directory[i].name # Deleted}

(* A size that fits into 64 bits is read for what it is, with leading zeros *)
(* and units.                                                               *)
Decimal(digits) ==
  LET n[k \in 0..Len(digits)] == IF k = 0 THEN 0 ELSE 10 * n[k - 1] + digits[k]
  IN n[Len(digits)]
Scaled(n, unit) ==
  LET times[k \in 0..unit] == IF k = 0 THEN n ELSE Kilo * times[k - 1]
  IN times[unit]
Number(arg) == Scaled(Decimal(arg.digits), arg.unit)
DiskHasTheSizeAsked == Number(sizeArg) < Wrap => diskBytes = Number(sizeArg)

(* "Find an area with enough free blocks" (bmfs.c:659): no two files share  *)
(* a block, whatever was created and deleted before.                        *)
FilesAreDisjoint ==
  \A i, j \in Files : i # j => Reserved(i) \cap Reserved(j) = {}

(* Until create() looks for room behind a deleted record, in a directory    *)
(* without an end mark or on a disk cut short, every file that was created  *)
(* and not deleted is listed once, read() gives back what was last written  *)
(* to it, and it lies between block 0, which boots, and the last block.     *)
ReadsWhatWasWritten ==
  ~strayed => \A f \in FileName : stored[f] # NoFile =>
    \E i \in Index : /\ findfile(f) = {i}
                     /\ read(i) = stored[f]
                     /\ Reserved(i) \subseteq 1..disksize \div 2 - 2
=============================================================================
