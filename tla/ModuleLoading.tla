---------------------------- MODULE ModuleLoading ----------------------------
(***************************************************************************)
(* From the packer to the first user instruction: the Module Packer        *)
(* appends the user binaries to the kernel, the boot loader puts the       *)
(* result at the kernel's address, and the kernel, on its way to main(),   *)
(* copies every binary to where it was linked for and clears its own BSS,  *)
(* in which the packed binaries lie.  Memory is counted in cells.          *)
(***************************************************************************)
EXTENDS Integers, Sequences, SequencesExt

CONSTANTS
  KernelSize,  \* cells of the kernel binary: text, rodata and data
  KernelBss,   \* first cell of the kernel's BSS, aligned behind the binary
  KernelEnd,   \* endOfKernel
  Target,      \* the addresses the modules are linked for, in ascending order
  MemoryEnd,   \* the cell behind the last module's place: the heap
  ModuleSizes, \* bound: sizes of module binaries
  UserBss      \* bound: cells of the first module's BSS

ASSUME LoaderAssumption ==
  /\ KernelSize \in Nat /\ KernelBss \in Nat /\ KernelEnd \in Nat /\ KernelSize <= KernelBss
  /\ MemoryEnd \in Nat /\ UserBss \in Nat /\ ModuleSizes \subseteq Nat
  /\ Target \in Seq(0 .. MemoryEnd) /\ Target # <<>>
  /\ \A i, j \in 1 .. Len(Target) : i < j => Target[i] < Target[j]

VARIABLES
  modules,       \* the sizes of the binaries that were packed
  memory,        \* what lies in every cell
  currentModule, \* the loader's cursor in the payload
  moduleIndex,   \* i of loadModules()
  moduleSize,    \* what readUint32() returned
  copied,        \* the cells memcpy() has copied
  bootPhase      \* where initializeKernelBinary() is

loaderVars == <<modules, memory, currentModule, moduleIndex, moduleSize, copied, bootPhase>>

(* A cell: whose binary it is part of and its place in it, or a number.     *)
KernelBinary == 0
Number32 == -1
Rest == <<Number32, 0>>  \* a cell nobody wrote, and a cleared one

write_file(who, size) == [k \in 1..size |-> <<who, k>>]

(* buildImage(): the kernel, the number of modules, then each with its size. *)
buildImage(sizes) ==
  write_file(KernelBinary, KernelSize) \o <<<<Number32, Len(sizes)>>>>
    \o FlattenSeq([i \in 1..Len(sizes) |-> <<<<Number32, sizes[i]>>>> \o write_file(i, sizes[i])])

endOfKernelBinary == KernelSize

LoaderInit ==
  \E sizes \in SeqOf(ModuleSizes, Len(Target)) :
    LET image == buildImage(sizes)
    IN /\ modules = sizes
       /\ memory = [a \in 0..MemoryEnd + UserBss |->
                      IF a < Len(image) THEN image[a + 1] ELSE Rest]
       /\ currentModule = endOfKernelBinary + 1
       /\ moduleIndex = 1 /\ moduleSize = 0 /\ copied = 0
       /\ bootPhase = IF sizes = <<>> THEN "loaded" ELSE "size"

(* loadModule(): readUint32() takes the size and steps over it. *)
ReadSize ==
  /\ bootPhase = "size"
  /\ moduleSize' = memory[currentModule][2]
  /\ currentModule' = currentModule + 1
  /\ copied' = 0
  /\ bootPhase' = "copy"
  /\ UNCHANGED <<modules, memory, moduleIndex>>

(* memcpy(), cell by cell and forwards. *)
CopyCell ==
  /\ bootPhase = "copy"
  /\ copied < moduleSize
  /\ memory' = [memory EXCEPT ![Target[moduleIndex] + copied] = memory[currentModule + copied]]
  /\ copied' = copied + 1
  /\ UNCHANGED <<modules, currentModule, moduleIndex, moduleSize, bootPhase>>

stepOver == currentModule + moduleSize

\* Faulty: the loop ends one module early.
lastModule_TooEarly == moduleIndex >= Len(modules) - 1

lastModule == moduleIndex = Len(modules)

NextModule ==
  /\ bootPhase = "copy"
  /\ copied = moduleSize
  /\ currentModule' = stepOver
  /\ moduleIndex' = moduleIndex + 1
  /\ bootPhase' = IF lastModule THEN "loaded" ELSE "size"
  /\ UNCHANGED <<modules, memory, moduleSize, copied>>

(* clearBSS(), and then the first module runs and clears its own. *)
ClearBSS ==
  /\ bootPhase = "loaded"
  /\ memory' = [a \in DOMAIN memory |-> IF a \in KernelBss..KernelEnd - 1 THEN Rest ELSE memory[a]]
  /\ bootPhase' = "main"
  /\ UNCHANGED <<modules, currentModule, moduleIndex, moduleSize, copied>>

StartUser ==
  /\ bootPhase = "main" /\ modules # <<>>
  /\ LET bss == Target[1] + modules[1]
     IN memory' = [a \in DOMAIN memory |-> IF a \in bss..bss + UserBss - 1 THEN Rest ELSE memory[a]]
  /\ bootPhase' = "user"
  /\ UNCHANGED <<modules, currentModule, moduleIndex, moduleSize, copied>>

LoaderNext == ReadSize \/ CopyCell \/ NextModule \/ ClearBSS \/ StartUser

LoaderSpec == LoaderInit /\ [][LoaderNext]_loaderVars

-----------------------------------------------------------------------------
(* What the addresses in kernel.c and the linker scripts take for granted:  *)
(* the payload and the kernel end below the first module, and every binary  *)
(* with its BSS below the next one or the heap.                             *)
ImageFits ==
  /\ Len(buildImage(modules)) <= Target[1] /\ KernelEnd <= Target[1]
  /\ \A i \in 1..Len(modules) :
       Target[i] + modules[i] + (IF i = 1 THEN UserBss ELSE 0)
         <= (IF i = Len(Target) THEN MemoryEnd ELSE Target[i + 1])

(* When they fit, every user binary reaches its address whole although the  *)
(* packed copies lie in the BSS the kernel clears, the kernel's text and    *)
(* data are untouched, and both BSS areas are clean when main() runs.       *)
ModulesAreInPlace ==
  ImageFits /\ bootPhase \in {"main", "user"} =>
    /\ \A i \in 1..Len(modules) : \A k \in 1..modules[i] : memory[Target[i] + k - 1] = <<i, k>>
    /\ \A k \in 1..KernelSize : memory[k - 1] = <<KernelBinary, k>>
    /\ \A a \in KernelBss..KernelEnd - 1 : memory[a] = Rest
    /\ bootPhase = "user" =>
         \A a \in Target[1] + modules[1]..Target[1] + modules[1] + UserBss - 1 : memory[a] = Rest
=============================================================================
