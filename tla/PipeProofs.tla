------------------------------ MODULE PipeProofs ------------------------------
(***************************************************************************)
(* Proofs about Pipes, for any number of processes, slots, semaphores and  *)
(* bytes: every slot is the bounded queue of bytes that Channel specifies, *)
(* a pipe that was handed out has its semaphores to itself, and, while     *)
(* nothing from outside takes tokens away, its tokens count its bytes and  *)
(* its room and no byte is skipped.                                        *)
(***************************************************************************)
EXTENDS Pipes, FiniteSetTheorems, TLAPS

-----------------------------------------------------------------------------
(* Arithmetic of a ring of n places.                                        *)
LEMMA ModSmall ==
  ASSUME NEW n \in Nat \ {0}, NEW x \in Nat
  PROVE  /\ x < n => x % n = x
         /\ n <= x /\ x < n + n => x % n = x - n
OBVIOUS

Index == 0 .. PIPE_BUFFER_SIZE - 1

(* A place of the ring, and the one k places further on.                    *)
Wrapped(n, x) == IF x < n THEN x ELSE x - n

LEMMA ModWrapped ==
  ASSUME NEW n \in Nat \ {0}, NEW x \in Nat, x < n + n
  PROVE  x % n = Wrapped(n, x) /\ Wrapped(n, x) \in 0 .. n - 1
<1>1. x < n => x % n = x
  BY ModSmall
<1>2. n <= x => x % n = x - n
  BY ModSmall
<1> QED
  BY <1>1, <1>2 DEF Wrapped

LEMMA RingPlace ==
  ASSUME NEW r \in Index, NEW k \in 0 .. PIPE_BUFFER_SIZE
  PROVE  /\ (r + k) % PIPE_BUFFER_SIZE = Wrapped(PIPE_BUFFER_SIZE, r + k)
         /\ Wrapped(PIPE_BUFFER_SIZE, r + k) \in Index
<1> DEFINE n == PIPE_BUFFER_SIZE
           x == r + k
<1>1. n \in Nat \ {0} /\ x \in Nat /\ x < n + n
  BY PipesAssumption DEF Index
<1> HIDE DEF n, x
<1>2. x % n = Wrapped(n, x) /\ Wrapped(n, x) \in 0 .. n - 1
  BY <1>1, ModWrapped
<1> QED
  BY <1>2 DEF Index, n, x

Pipe ==
  [isOpen: BOOLEAN, buffer: [Index -> Byte \cup {Nothing}], readIdx: Index, writeIdx: Index,
   count: 0 .. PIPE_BUFFER_SIZE, semReaders: Int, semWriters: Int, mutex: Int]

(* The bytes lie between the two indices.                                   *)
GoodRing(p) ==
  /\ p \in Pipe
  /\ p.writeIdx = (p.readIdx + p.count) % PIPE_BUFFER_SIZE

LEMMA RingFacts ==
  ASSUME NEW p, GoodRing(p)
  PROVE  /\ p.buffer \in [Index -> Byte \cup {Nothing}] /\ p.readIdx \in Index /\ p.writeIdx \in Index
         /\ p.count \in 0 .. PIPE_BUFFER_SIZE
         /\ p.writeIdx = (p.readIdx + p.count) % PIPE_BUFFER_SIZE
         /\ p.isOpen \in BOOLEAN /\ p.semReaders \in Int /\ p.semWriters \in Int /\ p.mutex \in Int
         /\ Contents(p) \in Seq(Byte \cup {Nothing})
         /\ Len(Contents(p)) = p.count
         /\ DOMAIN Contents(p) = 1 .. p.count
         /\ \A i \in 1 .. p.count :
              Contents(p)[i] = p.buffer[(p.readIdx + (i - 1)) % PIPE_BUFFER_SIZE]
<1>1. /\ p.buffer \in [Index -> Byte \cup {Nothing}] /\ p.readIdx \in Index /\ p.writeIdx \in Index
      /\ p.count \in 0 .. PIPE_BUFFER_SIZE
      /\ p.isOpen \in BOOLEAN /\ p.semReaders \in Int /\ p.semWriters \in Int /\ p.mutex \in Int
  BY DEF GoodRing, Pipe
<1>2. p.count \in Nat /\ p.readIdx \in Int /\ \A i \in 1 .. p.count : p.readIdx + i - 1 = p.readIdx + (i - 1)
  BY <1>1, PipesAssumption DEF Index
<1>3. \A i \in 1 .. p.count : (p.readIdx + (i - 1)) % PIPE_BUFFER_SIZE \in Index
  <2> SUFFICES ASSUME NEW i \in 1 .. p.count
               PROVE  (p.readIdx + (i - 1)) % PIPE_BUFFER_SIZE \in Index
    OBVIOUS
  <2>1. i - 1 \in 0 .. PIPE_BUFFER_SIZE
    BY <1>1, PipesAssumption
  <2> QED
    BY <1>1, <2>1, RingPlace
<1> DEFINE C == Contents(p)
           at(i) == p.buffer[(p.readIdx + (i - 1)) % PIPE_BUFFER_SIZE]
<1>4. C = [i \in 1 .. p.count |-> at(i)] /\ \A i \in 1 .. p.count : at(i) \in Byte \cup {Nothing}
  BY <1>1, <1>2, <1>3 DEF Contents
<1> HIDE DEF at, C
<1>5. /\ C \in Seq(Byte \cup {Nothing}) /\ Len(C) = p.count /\ DOMAIN C = 1 .. p.count
      /\ \A i \in 1 .. p.count : C[i] = at(i)
  BY <1>2, <1>4
<1> QED
  BY <1>1, <1>2, <1>5 DEF GoodRing, at, C

LEMMA EmptyRing ==
  ASSUME NEW p \in Pipe, p.readIdx = 0, p.writeIdx = 0, p.count = 0
  PROVE  GoodRing(p) /\ Contents(p) = <<>>
<1>1. 0 \in Index /\ (0 + 0) % PIPE_BUFFER_SIZE = 0
  BY PipesAssumption DEF Index
<1> QED
  BY <1>1 DEF GoodRing, Contents

(* A byte behind the last one. *)
LEMMA WriteRing ==
  ASSUME NEW p, GoodRing(p), p.count < PIPE_BUFFER_SIZE, NEW b \in Byte
  PROVE  /\ GoodRing(afterWrite(p, b))
         /\ Contents(afterWrite(p, b)) = Append(Contents(p), b)
<1> DEFINE q == afterWrite(p, b)
           n == p.count
<1>1. /\ p \in Pipe /\ n \in Nat /\ n + 1 \in 0 .. PIPE_BUFFER_SIZE /\ p.readIdx \in Index
      /\ p.writeIdx \in Index /\ p.writeIdx = (p.readIdx + n) % PIPE_BUFFER_SIZE
      /\ p.buffer \in [Index -> Byte \cup {Nothing}]
  BY RingFacts, PipesAssumption DEF GoodRing
<1> DEFINE N == PIPE_BUFFER_SIZE
<1>n. N \in Nat \ {0} /\ Index = 0 .. N - 1
  BY PipesAssumption DEF Index
<1>2. /\ p.writeIdx = Wrapped(N, p.readIdx + n)
      /\ Following(p.writeIdx) = (p.readIdx + (n + 1)) % PIPE_BUFFER_SIZE /\ Following(p.writeIdx) \in Index
  <2> DEFINE w == p.writeIdx
             r == p.readIdx
  <2>1. 1 \in 0 .. PIPE_BUFFER_SIZE /\ n \in 0 .. PIPE_BUFFER_SIZE
    BY <1>1, PipesAssumption
  <2>2. w = Wrapped(N, r + n)
    BY <1>1, <2>1, RingPlace
  <2>3. (r + (n + 1)) % N = Wrapped(N, r + (n + 1))
    BY <1>1, RingPlace
  <2>4. Following(w) = Wrapped(N, w + 1) /\ Wrapped(N, w + 1) \in Index
    BY <1>1, <2>1, RingPlace DEF Following
  <2>5. w \in Index /\ r \in Index /\ n \in Nat /\ n + 1 <= N
    BY <1>1
  <2> HIDE DEF w, r, n, N
  <2>6. Wrapped(N, w + 1) = Wrapped(N, r + (n + 1))
    BY <1>n, <2>2, <2>5 DEF Wrapped
  <2> QED
    BY <2>2, <2>3, <2>4, <2>6 DEF w, r, n, N
<1>3. /\ q \in Pipe
      /\ q.count = n + 1 /\ q.readIdx = p.readIdx /\ q.writeIdx = Following(p.writeIdx)
      /\ q.buffer = [p.buffer EXCEPT ![p.writeIdx] = b]
  BY <1>1, <1>2 DEF afterWrite, Pipe
<1> HIDE DEF q
<1>4. GoodRing(q)
  BY <1>2, <1>3 DEF GoodRing
<1>5. \A i \in 1 .. n + 1 :
        q.buffer[(p.readIdx + (i - 1)) % PIPE_BUFFER_SIZE]
          = IF i = n + 1 THEN b ELSE p.buffer[(p.readIdx + (i - 1)) % PIPE_BUFFER_SIZE]
  <2> SUFFICES ASSUME NEW i \in 1 .. n + 1
               PROVE  q.buffer[(p.readIdx + (i - 1)) % PIPE_BUFFER_SIZE]
                        = IF i = n + 1 THEN b
                          ELSE p.buffer[(p.readIdx + (i - 1)) % PIPE_BUFFER_SIZE]
    OBVIOUS
  <2> DEFINE k == (p.readIdx + (i - 1)) % PIPE_BUFFER_SIZE
  <2>1. i - 1 \in 0 .. PIPE_BUFFER_SIZE /\ n \in 0 .. PIPE_BUFFER_SIZE
    BY <1>1, PipesAssumption
  <2>2. k \in Index /\ k = Wrapped(N, p.readIdx + (i - 1))
    BY <1>1, <2>1, RingPlace
  <2>3. n + 1 <= N /\ i \in 1 .. n + 1
    BY <1>1
  <2> HIDE DEF k, n, N
  <2>4. k = p.writeIdx <=> i = n + 1
    BY <1>1, <1>n, <1>2, <2>2, <2>3 DEF Wrapped
  <2>5. q.buffer[k] = IF i = n + 1 THEN b ELSE p.buffer[k]
    BY <1>1, <1>3, <2>2, <2>4
  <2> QED
    BY <2>5 DEF k, n
<1>6. Contents(q) = Append(Contents(p), b)
  <2>1. Contents(q) = [i \in 1 .. n + 1 |-> q.buffer[(p.readIdx + i - 1) % PIPE_BUFFER_SIZE]]
    BY <1>3 DEF Contents
  <2>2. p.readIdx \in Int /\ \A i \in 1 .. n + 1 : p.readIdx + i - 1 = p.readIdx + (i - 1)
    BY <1>1 DEF Index
  <2>3. /\ Contents(p) = [i \in 1 .. n |-> p.buffer[(p.readIdx + i - 1) % PIPE_BUFFER_SIZE]]
        /\ Len(Contents(p)) = n
    BY RingFacts DEF Contents
  <2>4. \A i \in 1 .. n + 1 : Contents(q)[i] = IF i = n + 1 THEN b ELSE Contents(p)[i]
    BY <1>1, <1>5, <2>1, <2>2, <2>3
  <2>5. Append(Contents(p), b) = [i \in 1 .. n + 1 |-> IF i = n + 1 THEN b ELSE Contents(p)[i]]
    BY <1>1, <2>3
  <2> HIDE DEF n
  <2> QED
    BY <2>1, <2>4, <2>5
<1> QED
  BY <1>4, <1>6 DEF q

(* The oldest byte goes. *)
LEMMA ReadRing ==
  ASSUME NEW p, GoodRing(p), p.count > 0
  PROVE  /\ GoodRing(afterRead(p))
         /\ Contents(p) # <<>> /\ Head(Contents(p)) = p.buffer[p.readIdx]
         /\ Contents(afterRead(p)) = Tail(Contents(p))
<1> DEFINE q == afterRead(p)
           n == p.count
           N == PIPE_BUFFER_SIZE
<1>1. /\ p \in Pipe /\ n \in 1 .. N /\ n - 1 \in 0 .. N /\ p.readIdx \in Index
      /\ p.writeIdx \in Index /\ p.writeIdx = (p.readIdx + n) % PIPE_BUFFER_SIZE
      /\ p.buffer \in [Index -> Byte \cup {Nothing}]
  BY RingFacts, PipesAssumption DEF GoodRing
<1>2. N \in Nat \ {0} /\ Index = 0 .. N - 1
  BY PipesAssumption DEF Index
<1>3. Following(p.readIdx) = Wrapped(N, p.readIdx + 1) /\ Following(p.readIdx) \in Index
  <2>1. 1 \in 0 .. PIPE_BUFFER_SIZE
    BY <1>2
  <2> QED
    BY <1>1, <2>1, RingPlace DEF Following
(* k places behind the new first byte are k + 1 behind the old one. *)
<1>4. \A k \in 0 .. N - 1 :
        (Following(p.readIdx) + k) % PIPE_BUFFER_SIZE = (p.readIdx + (k + 1)) % PIPE_BUFFER_SIZE
  <2> SUFFICES ASSUME NEW k \in 0 .. N - 1
               PROVE  (Following(p.readIdx) + k) % PIPE_BUFFER_SIZE
                        = (p.readIdx + (k + 1)) % PIPE_BUFFER_SIZE
    OBVIOUS
  <2> DEFINE r == p.readIdx
             f == Following(p.readIdx)
  <2>1. k \in 0 .. PIPE_BUFFER_SIZE /\ k + 1 \in 0 .. PIPE_BUFFER_SIZE
    BY <1>2
  <2>2. (f + k) % PIPE_BUFFER_SIZE = Wrapped(N, f + k)
    BY <1>3, <2>1, RingPlace
  <2>3. (r + (k + 1)) % PIPE_BUFFER_SIZE = Wrapped(N, r + (k + 1))
    BY <1>1, <2>1, RingPlace
  <2>4. r \in Index /\ f = Wrapped(N, r + 1)
    BY <1>1, <1>3
  <2> HIDE DEF r, f, N
  <2>5. Wrapped(N, f + k) = Wrapped(N, r + (k + 1))
    BY <1>2, <2>4 DEF Wrapped
  <2> QED
    BY <2>2, <2>3, <2>5 DEF r, f, N
<1>5. /\ q \in Pipe /\ q.count = n - 1 /\ q.readIdx = Following(p.readIdx)
      /\ q.writeIdx = p.writeIdx /\ q.buffer = p.buffer
  BY <1>1, <1>3 DEF afterRead, Pipe
<1> HIDE DEF q
<1>6. GoodRing(q)
  <2>1. (Following(p.readIdx) + (n - 1)) % PIPE_BUFFER_SIZE = (p.readIdx + ((n - 1) + 1)) % PIPE_BUFFER_SIZE
    <3>1. n - 1 \in 0 .. N - 1
      BY <1>1, <1>2
    <3> QED
      BY <1>4, <3>1
  <2>2. (n - 1) + 1 = n
    BY <1>1, <1>2
  <2>3. p.writeIdx = (Following(p.readIdx) + (n - 1)) % PIPE_BUFFER_SIZE
    BY <1>1, <2>1, <2>2
  <2> QED
    BY <1>5, <2>3 DEF GoodRing
<1> DEFINE C == Contents(p)
           D == Contents(q)
<1>7. /\ C \in Seq(Byte \cup {Nothing}) /\ Len(C) = n
      /\ \A i \in 1 .. n : C[i] = p.buffer[(p.readIdx + (i - 1)) % PIPE_BUFFER_SIZE]
  BY RingFacts
<1>8. /\ D \in Seq(Byte \cup {Nothing}) /\ Len(D) = n - 1
      /\ \A i \in 1 .. n - 1 : D[i] = p.buffer[(Following(p.readIdx) + (i - 1)) % PIPE_BUFFER_SIZE]
  BY <1>5, <1>6, RingFacts
<1> HIDE DEF C, D
<1>9. C[1] = p.buffer[p.readIdx]
  <2> DEFINE r == p.readIdx
  <2>1. 0 \in 0 .. PIPE_BUFFER_SIZE /\ 1 \in 1 .. n /\ 1 - 1 = 0
    BY <1>1, <1>2
  <2>2. (r + 0) % PIPE_BUFFER_SIZE = Wrapped(N, r + 0)
    BY <1>1, <2>1, RingPlace
  <2>3. Wrapped(N, r + 0) = r
    BY <1>1, <1>2 DEF Wrapped
  <2>4. C[1] = p.buffer[(p.readIdx + (1 - 1)) % PIPE_BUFFER_SIZE]
    BY <1>7, <2>1
  <2> QED
    BY <2>1, <2>2, <2>3, <2>4
<1>10. \A i \in 1 .. n - 1 : D[i] = C[i + 1]
  <2> SUFFICES ASSUME NEW i \in 1 .. n - 1 PROVE D[i] = C[i + 1]
    OBVIOUS
  <2>1. i - 1 \in 0 .. N - 1 /\ (i - 1) + 1 = i /\ i + 1 \in 1 .. n /\ (i + 1) - 1 = i
    BY <1>1, <1>2
  <2>2. D[i] = p.buffer[(p.readIdx + i) % PIPE_BUFFER_SIZE]
    BY <1>4, <1>8, <2>1
  <2>3. C[i + 1] = p.buffer[(p.readIdx + ((i + 1) - 1)) % PIPE_BUFFER_SIZE]
    BY <1>7, <2>1
  <2> QED
    BY <2>1, <2>2, <2>3
<1>11. C # <<>> /\ Head(C) = C[1] /\ D = Tail(C)
  <2>1. n \in Nat /\ n >= 1
    BY <1>1
  <2> HIDE DEF n
  <2>2. C # <<>> /\ Head(C) = C[1]
    BY <1>7, <2>1
  <2>3. Tail(C) \in Seq(Byte \cup {Nothing}) /\ Len(Tail(C)) = n - 1
        /\ \A i \in 1 .. n - 1 : Tail(C)[i] = C[i + 1]
    BY <1>7, <2>1, <2>2
  <2> QED
    BY <1>8, <1>10, <2>1, <2>2, <2>3
<1> QED
  BY <1>6, <1>9, <1>11 DEF q, C, D

-----------------------------------------------------------------------------
(* Every slot holds a ring, and a call is on a slot of the table.           *)
CallRecord ==
  [op: Call \cup {"none"}, slot: Slot, left: Int, at: {"user", "tokens", "mutex", "critical", "post"}]

RingInv ==
  /\ pipes \in [Slot -> Pipe] /\ \A s \in Slot : GoodRing(pipes[s])
  /\ call \in [Actor -> CallRecord]
  /\ next_sem_id \in Nat

ContentsOf == [s \in Slot |-> Contents(pipes[s])]

LEMMA SlotFacts ==
  /\ 0 \in Slot /\ Slot \subseteq Nat
  /\ \A id : IsValid(id) => id \in Nat /\ SlotOf(id) \in Slot
BY PipesAssumption DEF Slot, IsValid, SlotOf

LEMMA NewRings ==
  /\ ClosedPipe \in Pipe /\ GoodRing(ClosedPipe) /\ Contents(ClosedPipe) = <<>>
  /\ \A n \in Nat : FreshPipe(n) \in Pipe /\ GoodRing(FreshPipe(n)) /\ Contents(FreshPipe(n)) = <<>>
<1>1. 0 \in Index /\ 0 \in 0 .. PIPE_BUFFER_SIZE
  BY PipesAssumption DEF Index
<1>2. NoBuffer \in [Index -> Byte \cup {Nothing}]
  BY DEF NoBuffer, Index
<1>3. ClosedPipe \in Pipe /\ ClosedPipe.readIdx = 0 /\ ClosedPipe.writeIdx = 0 /\ ClosedPipe.count = 0
  BY <1>1, <1>2 DEF ClosedPipe, Pipe, NoSem
<1>4. ASSUME NEW n \in Nat
      PROVE  /\ FreshPipe(n) \in Pipe
             /\ FreshPipe(n).readIdx = 0 /\ FreshPipe(n).writeIdx = 0 /\ FreshPipe(n).count = 0
  <2>1. n \in Int /\ n + 1 \in Int /\ n + 2 \in Int
    OBVIOUS
  <2> QED
    BY <1>3, <2>1 DEF FreshPipe, Pipe
<1> QED
  BY <1>3, <1>4, EmptyRing

LEMMA OneRing ==
  ASSUME RingInv, NEW s \in Slot, NEW r, GoodRing(r), pipes' = [pipes EXCEPT ![s] = r]
  PROVE  /\ pipes' \in [Slot -> Pipe] /\ \A t \in Slot : GoodRing(pipes'[t])
         /\ ContentsOf' = [ContentsOf EXCEPT ![s] = Contents(r)]
<1>1. r \in Pipe
  BY DEF GoodRing
<1>2. pipes' \in [Slot -> Pipe] /\ \A t \in Slot : pipes'[t] = IF t = s THEN r ELSE pipes[t]
  BY <1>1 DEF RingInv
<1> QED
  BY <1>2 DEF RingInv, ContentsOf

LEMMA CallFacts ==
  ASSUME RingInv, NEW a \in Actor
  PROVE  /\ call[a] \in CallRecord /\ call[a].slot \in Slot
         /\ GoodRing(pipes[call[a].slot]) /\ PipeOf(a) = pipes[call[a].slot]
         /\ NoCall \in CallRecord
         /\ \A place \in {"mutex", "critical", "post"} : [call[a] EXCEPT !.at = place] \in CallRecord
         /\ call[a].left \in Int
BY SlotFacts DEF RingInv, CallRecord, PipeOf, NoCall

(* What every step does to the calls and to the ids. *)
LEMMA CallStep ==
  ASSUME RingInv, [Next]_vars
  PROVE  call' \in [Actor -> CallRecord] /\ next_sem_id' \in Nat
<1>0. call \in [Actor -> CallRecord] /\ next_sem_id \in Nat
  BY DEF RingInv
<1>1. next_sem_id' \in Nat
  <2>1. next_sem_id' = next_sem_id \/ next_sem_id' = next_sem_id + 3
    BY DEF Next, Switch, Create, createPipe, ClosePipe, closePipe, SemOpen, ReadOrWrite, Clear,
       KeyPress, Begin, KernelStep, WaitForTokens, WaitForMutex, CriticalSection, PostTokens, Die,
       Awaken, vars, table
  <2> QED
    BY <1>0, <2>1
<1>2. CASE Switch \/ Create \/ ClosePipe \/ SemOpen \/ UNCHANGED vars
  <2>1. call' = call
    BY <1>2 DEF Switch, Create, createPipe, ClosePipe, closePipe, SemOpen, vars
  <2> QED
    BY <1>0, <1>1, <2>1
<1>3. ASSUME NEW a, NEW op \in Call, NEW id, NEW size \in Int, Begin(a, op, id, size)
      PROVE  call' \in [Actor -> CallRecord]
  <2>1. SlotOf(id) \in Slot
    BY <1>3, SlotFacts DEF Begin
  <2> DEFINE c == [op |-> op, slot |-> SlotOf(id), left |-> size,
                   at |-> IF op = "clear" THEN "mutex" ELSE "tokens"]
  <2>2. c \in CallRecord
    BY <1>3, <2>1 DEF CallRecord
  <2>3. call' = [call EXCEPT ![a] = c]
    BY <1>3 DEF Begin
  <2> HIDE DEF c
  <2> QED
    BY <1>0, <2>2, <2>3
<1>4. CASE ReadOrWrite \/ Clear \/ KeyPress
  <2>1. {"read", "write", "clear"} \subseteq Call /\ 1 \in Int /\ 1 .. MaxSize \subseteq Int
    BY PipesAssumption DEF Call
  <2> QED
    BY <1>1, <1>3, <1>4, <2>1 DEF ReadOrWrite, Clear, KeyPress
<1>5. ASSUME NEW a \in Actor, KernelStep(a)
      PROVE  call' \in [Actor -> CallRecord]
  <2>1. /\ call[a] \in CallRecord /\ NoCall \in CallRecord /\ call[a].left \in Int
        /\ \A place \in {"mutex", "critical", "post"} : [call[a] EXCEPT !.at = place] \in CallRecord
    BY CallFacts
  <2>2. CASE \E place \in {"mutex", "critical", "post"} : MovesTo(a, place)
    <3>1. PICK place \in {"mutex", "critical", "post"} : call' = [call EXCEPT ![a].at = place]
      BY <2>2 DEF MovesTo
    <3> DEFINE c == [call[a] EXCEPT !.at = place]
    <3>2. call' = [call EXCEPT ![a] = c] /\ c \in CallRecord
      BY <3>1, <2>1
    <3> HIDE DEF c
    <3> QED
      BY <1>0, <3>2
  <2>3. CASE call' = [call EXCEPT ![a] = NoCall]
    BY <1>0, <2>1, <2>3
  <2>4. CASE PostTokens(a)
    <3> DEFINE c == IF call[a].left > 1 THEN [call[a] EXCEPT !.left = call[a].left - 1, !.at = "tokens"]
                   ELSE NoCall
    <3>1. c \in CallRecord
      <4> DEFINE d == [call[a] EXCEPT !.left = call[a].left - 1, !.at = "tokens"]
      <4>1. call[a].left - 1 \in Int
        BY <2>1
      <4>2. d \in CallRecord
        BY <2>1, <4>1 DEF CallRecord
      <4> QED
        BY <2>1, <4>2
    <3>2. call' = [call EXCEPT ![a] = c]
      <4>1. CASE call[a].left > 1
        BY <1>0, <2>4, <4>1 DEF PostTokens
      <4>2. CASE ~(call[a].left > 1)
        BY <1>0, <2>4, <4>2 DEF PostTokens
      <4> QED
        BY <4>1, <4>2
    <3> HIDE DEF c
    <3> QED
      BY <1>0, <3>1, <3>2
  <2> QED
    BY <1>5, <2>2, <2>3, <2>4 DEF KernelStep, WaitForTokens, WaitForMutex, CriticalSection,
       ReadByte, WriteByte, ClearBytes
<1>6. ASSUME NEW p \in Proc, Die(p) \/ Awaken(p)
      PROVE  call' \in [Actor -> CallRecord]
  <2>1. NoCall \in CallRecord
    BY SlotFacts DEF CallRecord, NoCall
  <2> QED
    BY <1>0, <1>6, <2>1 DEF Die, Awaken
<1> QED
  BY <1>1, <1>2, <1>4, <1>5, <1>6 DEF Next

-----------------------------------------------------------------------------
(* Each step of the pipes is one of the channels', or none.                 *)
RingStep == RingInv' /\ [Queue!ChannelStep]_(Queue!channels)

LEMMA QuietRings ==
  ASSUME RingInv, [Next]_vars, UNCHANGED <<pipes, got>>
  PROVE  RingStep
BY CallStep DEF RingInv, RingStep, Queue!channels

(* A slot is cleared, closed or opened. *)
LEMMA DropRings ==
  ASSUME RingInv, [Next]_vars, NEW s \in Slot, NEW r, GoodRing(r), Contents(r) = <<>>,
         pipes' = [pipes EXCEPT ![s] = r], UNCHANGED got
  PROVE  RingStep
<1>1. RingInv'
  BY CallStep, OneRing DEF RingInv
<1>2. ContentsOf' = [ContentsOf EXCEPT ![s] = <<>>]
  BY OneRing
<1>3. Queue!Drop(s)
  BY <1>2 DEF Queue!Drop, ContentsOf
<1> QED
  BY <1>1, <1>3 DEF RingStep, Queue!ChannelStep

LEMMA CreateRings ==
  ASSUME RingInv, [Next]_vars, NEW p, createPipe(p)
  PROVE  RingStep
<1>1. PICK s \in Slot : pipes' = [pipes EXCEPT ![s] = FreshPipe(next_sem_id)] /\ UNCHANGED got
  BY DEF createPipe
<1> QED
  BY <1>1, NewRings, DropRings DEF RingInv

LEMMA CloseRings ==
  ASSUME RingInv, [Next]_vars, NEW p, NEW id, closePipe(p, id)
  PROVE  RingStep
<1>1. PICK s \in Slot : s = SlotOf(id)
  BY SlotFacts DEF closePipe
<1>2. pipes' = [pipes EXCEPT ![s] = ClosedPipe] /\ UNCHANGED got
  BY <1>1 DEF closePipe
<1> QED
  BY <1>2, NewRings, DropRings

LEMMA BeginRings ==
  ASSUME RingInv, [Next]_vars, NEW a \in Actor, UNCHANGED pipes,
         got' = got \/ got' = [got EXCEPT ![a] = Nothing]
  PROVE  RingStep
<1>1. RingInv'
  BY CallStep DEF RingInv
<1>2. CASE got' = [got EXCEPT ![a] = Nothing]
  <2>1. Queue!Begin(a)
    BY <1>2 DEF Queue!Begin
  <2> QED
    BY <1>1, <2>1 DEF RingStep, Queue!ChannelStep
<1> QED
  BY <1>1, <1>2, QuietRings

LEMMA CriticalRings ==
  ASSUME RingInv, [Next]_vars, NEW a \in Actor, CriticalSection(a)
  PROVE  RingStep
<1>1. PICK s \in Slot : s = call[a].slot
  BY CallFacts
<1>2. GoodRing(pipes[s]) /\ PipeOf(a) = pipes[s] /\ ContentsOf[s] = Contents(pipes[s])
  BY <1>1, CallFacts DEF RingInv, ContentsOf
<1>3. RingInv' \/ ~(pipes' \in [Slot -> Pipe] /\ \A t \in Slot : GoodRing(pipes'[t]))
  BY CallStep DEF RingInv
<1>4. CASE ReadByte(a) /\ pipes[s].count > 0
  <2> DEFINE r == afterRead(pipes[s])
  <2>1. pipes' = [pipes EXCEPT ![s] = r]
    BY <1>1, <1>2, <1>4 DEF ReadByte
  <2>2. got' = [got EXCEPT ![a] = pipes[s].buffer[pipes[s].readIdx]]
    BY <1>2, <1>4 DEF ReadByte
  <2>3. /\ GoodRing(r) /\ Contents(r) = Tail(Contents(pipes[s]))
        /\ Contents(pipes[s]) # <<>>
        /\ Head(Contents(pipes[s])) = pipes[s].buffer[pipes[s].readIdx]
    BY <1>2, <1>4, ReadRing
  <2> HIDE DEF r
  <2>4. /\ RingInv' /\ ContentsOf' = [ContentsOf EXCEPT ![s] = Contents(r)]
    BY <1>3, <2>1, <2>3, OneRing
  <2>5. /\ ContentsOf[s] # <<>> /\ ContentsOf' = [ContentsOf EXCEPT ![s] = Tail(@)]
        /\ got' = [got EXCEPT ![a] = Head(ContentsOf[s])]
    BY <1>2, <2>2, <2>3, <2>4
  <2>6. Queue!Take(s, a)
    BY <2>5 DEF Queue!Take, ContentsOf
  <2> QED
    BY <2>4, <2>6 DEF RingStep, Queue!ChannelStep
<1>5. CASE WriteByte(a) /\ pipes[s].count < PIPE_BUFFER_SIZE
  <2>1. PICK b \in Byte : pipes' = [pipes EXCEPT ![s] = afterWrite(pipes[s], b)]
    BY <1>1, <1>2, <1>5 DEF WriteByte, HasRoom
  <2> DEFINE r == afterWrite(pipes[s], b)
  <2>2. GoodRing(r) /\ Contents(r) = Append(Contents(pipes[s]), b)
    BY <1>2, <1>5, WriteRing
  <2>3. pipes' = [pipes EXCEPT ![s] = r]
    BY <2>1
  <2>4. Len(ContentsOf[s]) < PIPE_BUFFER_SIZE
    BY <1>2, <1>5, RingFacts
  <2> HIDE DEF r
  <2>5. /\ RingInv' /\ ContentsOf' = [ContentsOf EXCEPT ![s] = Contents(r)]
    BY <1>3, <2>2, <2>3, OneRing
  <2>6. ContentsOf' = [ContentsOf EXCEPT ![s] = Append(@, b)] /\ got' = got
    BY <1>2, <1>5, <2>2, <2>5 DEF WriteByte
  <2>7. Queue!Put(s, b)
    BY <2>4, <2>6 DEF Queue!Put, ContentsOf
  <2> QED
    BY <2>5, <2>7 DEF RingStep, Queue!ChannelStep
<1>6. CASE ClearBytes(a)
  <2> DEFINE r == afterClear(pipes[s])
  <2>1. pipes' = [pipes EXCEPT ![s] = r] /\ UNCHANGED got
    BY <1>1, <1>6 DEF ClearBytes
  <2>2. r \in Pipe /\ r.readIdx = 0 /\ r.writeIdx = 0 /\ r.count = 0
    <3>1. pipes[s] \in Pipe /\ 0 \in Index /\ 0 \in 0 .. PIPE_BUFFER_SIZE
      BY <1>2, PipesAssumption DEF GoodRing, Index
    <3> QED
      BY <3>1 DEF afterClear, Pipe
  <2> HIDE DEF r
  <2> QED
    BY <2>1, <2>2, EmptyRing, DropRings
<1>7. CASE UNCHANGED <<pipes, got>>
  BY <1>7, QuietRings
<1>8. pipes[s].count \in Nat /\ PIPE_BUFFER_SIZE \in Nat
  BY <1>2, RingFacts, PipesAssumption
<1>9. CASE ReadByte(a) /\ ~(pipes[s].count > 0)
  BY <1>2, <1>7, <1>9 DEF ReadByte
<1>10. CASE WriteByte(a) /\ ~(pipes[s].count < PIPE_BUFFER_SIZE)
  BY <1>2, <1>7, <1>10 DEF WriteByte, HasRoom
<1> QED
  BY <1>4, <1>5, <1>6, <1>9, <1>10 DEF CriticalSection

LEMMA NextRings ==
  ASSUME RingInv, [Next]_vars
  PROVE  RingStep
<1>1. CASE Create \/ ClosePipe
  BY <1>1, CreateRings, CloseRings DEF Create, ClosePipe
<1>2. CASE Switch \/ SemOpen \/ UNCHANGED vars
  BY <1>2, QuietRings DEF Switch, SemOpen, vars, table
<1>3. CASE ReadOrWrite \/ Clear
  <2>1. PICK p \in Proc : UNCHANGED pipes /\ (got' = got \/ got' = [got EXCEPT ![p] = Nothing])
    BY <1>3 DEF ReadOrWrite, Clear, Begin, table
  <2> QED
    BY <2>1, BeginRings DEF Actor
<1>4. CASE KeyPress
  <2>1. got' = got /\ UNCHANGED pipes
    BY <1>4 DEF KeyPress, Begin, table
  <2> QED
    BY <2>1, QuietRings
<1>5. ASSUME NEW a \in Actor, KernelStep(a)
      PROVE  RingStep
  <2>1. CASE WaitForTokens(a) \/ WaitForMutex(a) \/ PostTokens(a)
    BY <2>1, QuietRings DEF WaitForTokens, WaitForMutex, PostTokens, table
  <2> QED
    BY <1>5, <2>1, CriticalRings DEF KernelStep
<1>6. ASSUME NEW p \in Proc, Die(p) \/ Awaken(p)
      PROVE  RingStep
  <2>1. p \in Actor /\ UNCHANGED pipes /\ (got' = got \/ got' = [got EXCEPT ![p] = Nothing])
    BY <1>6 DEF Die, Awaken, table, Actor
  <2> QED
    BY <2>1, BeginRings
<1> QED
  BY <1>1, <1>2, <1>3, <1>4, <1>5, <1>6 DEF Next

LEMMA InitRings == Init => RingInv /\ Queue!Empty
<1> SUFFICES ASSUME Init PROVE RingInv /\ Queue!Empty
  OBVIOUS
<1>1. /\ pipes = [s \in Slot |-> IF s = 0 THEN FreshPipe(0) ELSE ClosedPipe]
      /\ \A s \in Slot : pipes[s] \in Pipe /\ GoodRing(pipes[s]) /\ Contents(pipes[s]) = <<>>
  BY NewRings DEF Init
<1>2. call \in [Actor -> CallRecord] /\ next_sem_id \in Nat
  BY SlotFacts DEF Init, CallRecord, NoCall
<1>3. RingInv
  BY <1>1, <1>2 DEF RingInv
<1>4. ContentsOf = [s \in Slot |-> <<>>]
  BY <1>1 DEF ContentsOf
<1> QED
  BY <1>3, <1>4 DEF Queue!Empty, ContentsOf, Init

(* Every slot of the table is a bounded queue of bytes, whatever happens    *)
(* around it: wrap-around of both indices, full and empty buffers, clears,  *)
(* closes and reopens, kills and unblocks in the middle of a call, calls    *)
(* that go on after a semWait() that gave them no token.  A read stores the *)
(* oldest byte that was written and not yet read, or nothing.               *)
THEOREM PipesAreChannels == Spec => ImplementsChannel
<1>1. Init => RingInv /\ Queue!Empty
  BY InitRings
<1>2. RingInv /\ [Next]_vars => RingInv' /\ [Queue!ChannelStep]_(Queue!channels)
  BY NextRings DEF RingStep
<1> QED
  BY <1>1, <1>2, PTL DEF Spec, ImplementsChannel, Queue!ChannelSpec

-----------------------------------------------------------------------------
(* Whose semaphore an id is.  An open pipe has three consecutive ids below  *)
(* next_sem_id, also one whose semaphores could not all be initialised; a   *)
(* pipe that was handed out has initialised them itself.                    *)
HasTriple(p, n) ==
  /\ p.semReaders \in Nat /\ p.semReaders + 3 <= n
  /\ p.semWriters = p.semReaders + 1 /\ p.mutex = p.semReaders + 2

Apart(p, q) == p.semReaders + 3 <= q.semReaders \/ q.semReaders + 3 <= p.semReaders

OwnPart ==
  /\ queued = used /\ opened \subseteq used
  /\ \A s \in Slot :
       IF pipes[s].isOpen THEN HasTriple(pipes[s], next_sem_id)
       ELSE pipes[s].semReaders = NoSem /\ pipes[s].semWriters = NoSem /\ pipes[s].mutex = NoSem
  /\ \A s, t \in Slot : s # t /\ pipes[s].isOpen /\ pipes[t].isOpen => Apart(pipes[s], pipes[t])
  /\ \A id \in handed :
       /\ id \in Nat /\ id \notin {1, 2} /\ SlotOf(id) \in Slot /\ pipes[SlotOf(id)].isOpen
       /\ SemsOf(SlotOf(id)) \subseteq used \ opened

OwnInv == RingInv /\ OwnPart

LEMMA ThreeIds ==
  ASSUME NEW n \in Int
  PROVE  /\ Cardinality(n .. n + 2) = 3 /\ IsFiniteSet(n .. n + 2)
         /\ n .. n + 2 = {n, n + 1, n + 2}
<1>1. n + 2 \in Int /\ (n + 2) - n + 1 = 3 /\ ~(n > n + 2)
  OBVIOUS
<1>2. IsFiniteSet(n .. n + 2) /\ Cardinality(n .. n + 2) = 3
  BY <1>1, FS_Interval
<1> QED
  BY <1>2

LEMMA FreshFacts ==
  ASSUME NEW n \in Nat
  PROVE  /\ FreshPipe(n).isOpen /\ FreshPipe(n).semReaders = n
         /\ FreshPipe(n).semWriters = n + 1 /\ FreshPipe(n).mutex = n + 2
         /\ ~ClosedPipe.isOpen /\ ClosedPipe.semReaders = NoSem
         /\ ClosedPipe.semWriters = NoSem /\ ClosedPipe.mutex = NoSem
<1>1. ~ClosedPipe.isOpen /\ ClosedPipe.semReaders = NoSem /\ ClosedPipe.semWriters = NoSem
      /\ ClosedPipe.mutex = NoSem
  BY DEF ClosedPipe
<1>2. ClosedPipe \in Pipe
  BY NewRings
<1>3. FreshPipe(n).isOpen /\ FreshPipe(n).semReaders = n /\ FreshPipe(n).semWriters = n + 1
      /\ FreshPipe(n).mutex = n + 2
  BY <1>2 DEF FreshPipe, Pipe
<1> QED
  BY <1>1, <1>3

(* The ids that go with different slots are different.                      *)
LEMMA IdFacts ==
  ASSUME OwnPart, NEW id \in handed
  PROVE  /\ id = 0 => SlotOf(id) = 0
         /\ id # 0 => SlotOf(id) = id - 2 /\ id > 2
         /\ id \in Nat /\ SlotOf(id) \in Nat
         /\ \A jd \in handed : SlotOf(jd) = SlotOf(id) => jd = id
<1>1. ASSUME NEW jd \in handed
      PROVE  /\ jd = 0 => SlotOf(jd) = 0
             /\ jd # 0 => SlotOf(jd) = jd - 2 /\ jd > 2
             /\ jd \in Nat /\ SlotOf(jd) \in Nat
  BY SlotFacts DEF OwnPart, SlotOf
<1> QED
  BY <1>1

(* Two slots have no semaphore in common, if one is open.                   *)
LEMMA SlotsApart ==
  ASSUME OwnPart, RingInv, NEW s \in Slot, NEW t \in Slot, s # t, pipes[s].isOpen
  PROVE  SemsOf(s) \cap SemsOf(t) = {}
<1>1. /\ pipes[s].semReaders \in Nat /\ pipes[s].semWriters = pipes[s].semReaders + 1
      /\ pipes[s].mutex = pipes[s].semReaders + 2
  BY DEF OwnPart, HasTriple
<1>2. CASE pipes[t].isOpen
  <2>1. /\ pipes[t].semReaders \in Nat /\ pipes[t].semWriters = pipes[t].semReaders + 1
        /\ pipes[t].mutex = pipes[t].semReaders + 2 /\ Apart(pipes[s], pipes[t])
    BY <1>2 DEF OwnPart, HasTriple
  <2> QED
    BY <1>1, <2>1 DEF SemsOf, Apart
<1>3. CASE ~pipes[t].isOpen
  <2>1. pipes[t].semReaders = NoSem /\ pipes[t].semWriters = NoSem /\ pipes[t].mutex = NoSem
    BY <1>3 DEF OwnPart
  <2> QED
    BY <1>1, <2>1 DEF SemsOf, NoSem
<1> QED
  BY <1>2, <1>3

LEMMA OwnImplies == OwnInv => SemaphoresAreItsOwn
<1> SUFFICES ASSUME OwnInv, NEW id \in handed
             PROVE  LET slot == SlotOf(id)
                    IN /\ pipes[slot].isOpen
                       /\ Cardinality(SemsOf(slot)) = 3 /\ SemsOf(slot) \subseteq (used \cap queued) \ opened
                       /\ \A s \in Slot \ {slot} : SemsOf(s) \cap SemsOf(slot) = {}
  BY DEF SemaphoresAreItsOwn
<1>1. PICK s \in Slot : s = SlotOf(id)
  BY DEF OwnInv, OwnPart
<1>2. pipes[s].isOpen /\ SemsOf(s) \subseteq (used \cap queued) \ opened
  BY <1>1 DEF OwnInv, OwnPart
<1>3. Cardinality(SemsOf(s)) = 3
  <2>1. SemsOf(s) = {pipes[s].semReaders, pipes[s].semReaders + 1, pipes[s].semReaders + 2}
    BY <1>2 DEF OwnInv, OwnPart, HasTriple, SemsOf
  <2>2. pipes[s].semReaders \in Int
    BY <1>2 DEF OwnInv, OwnPart, HasTriple
  <2> QED
    BY <2>1, <2>2, ThreeIds
<1>4. \A t \in Slot \ {s} : SemsOf(t) \cap SemsOf(s) = {}
  BY <1>2, SlotsApart DEF OwnInv
<1> QED
  BY <1>1, <1>2, <1>3, <1>4

SameSems ==
  \A s \in Slot : /\ pipes'[s].isOpen <=> pipes[s].isOpen
                  /\ pipes'[s].semReaders = pipes[s].semReaders
                  /\ pipes'[s].semWriters = pipes[s].semWriters
                  /\ pipes'[s].mutex = pipes[s].mutex

(* What each step leaves alone. *)
LEMMA QuietOwn ==
  ASSUME OwnInv, UNCHANGED <<next_sem_id, handed, used, opened, queued>>, SameSems
  PROVE  OwnPart'
BY DEF OwnInv, OwnPart, SameSems, HasTriple, Apart, SemsOf

LEMMA RingsKeepSems ==
  ASSUME RingInv, NEW a \in Actor, CriticalSection(a)
  PROVE  SameSems
<1>1. PICK s \in Slot : s = call[a].slot
  BY CallFacts
<1>2. GoodRing(pipes[s]) /\ PipeOf(a) = pipes[s] /\ pipes[s] \in Pipe /\ pipes \in [Slot -> Pipe]
  BY <1>1, CallFacts DEF RingInv, GoodRing
<1> DEFINE Same(r) == /\ r.isOpen <=> pipes[s].isOpen
                      /\ r.semReaders = pipes[s].semReaders
                      /\ r.semWriters = pipes[s].semWriters /\ r.mutex = pipes[s].mutex
<1>3. /\ Same(afterRead(pipes[s])) /\ Same(afterClear(pipes[s]))
      /\ \A b \in Byte : Same(afterWrite(pipes[s], b))
  BY <1>2 DEF afterRead, afterClear, afterWrite, Pipe
<1>4. pipes' = pipes \/ \E r : pipes' = [pipes EXCEPT ![s] = r] /\ Same(r)
  <2>1. CASE ReadByte(a)
    BY <1>1, <1>2, <1>3, <2>1 DEF ReadByte
  <2>2. CASE WriteByte(a)
    <3>1. PICK b \in Byte : \/ pipes' = pipes
                            \/ pipes' = [pipes EXCEPT ![s] = afterWrite(pipes[s], b)]
      BY <1>1, <1>2, <2>2 DEF WriteByte
    <3> QED
      BY <1>3, <3>1
  <2>3. CASE ClearBytes(a)
    <3>1. pipes' = [pipes EXCEPT ![s] = afterClear(pipes[s])]
      BY <1>1, <2>3 DEF ClearBytes
    <3> QED
      BY <1>3, <3>1
  <2> QED
    BY <2>1, <2>2, <2>3 DEF CriticalSection
<1>5. ASSUME NEW r, pipes' = [pipes EXCEPT ![s] = r], Same(r)
      PROVE  SameSems
  <2>1. pipes'[s] = r /\ \A t \in Slot \ {s} : pipes'[t] = pipes[t]
    BY <1>2, <1>5
  <2> QED
    BY <1>5, <2>1 DEF SameSems
<1> QED
  BY <1>4, <1>5 DEF SameSems

LEMMA CreateOwn ==
  ASSUME OwnInv, NEW p, createPipe(p)
  PROVE  OwnPart'
<1> DEFINE n == next_sem_id
           done == {s \in n .. n + 2 : \A t \in n .. s : t < NUM_SEMS /\ t \notin used}
<1>1. PICK slot \in Slot :
        /\ ~pipes[slot].isOpen
        /\ pipes' = [pipes EXCEPT ![slot] = FreshPipe(n)]
        /\ next_sem_id' = n + 3
        /\ queued' = queued \cup done /\ used' = used \cup done
        /\ handed' = handedByCreate(slot, done)
        /\ opened' = opened
  BY DEF createPipe, InitSems
<1>2. /\ n \in Nat /\ pipes \in [Slot -> Pipe] /\ slot \in Nat
      /\ queued = used /\ opened \subseteq used
  BY SlotFacts DEF OwnInv, OwnPart, RingInv
<1> DEFINE r == FreshPipe(n)
<1>3. r.isOpen /\ r.semReaders = n /\ r.semWriters = n + 1 /\ r.mutex = n + 2
  BY <1>2, FreshFacts
<1> HIDE DEF r
<1>4. pipes'[slot] = r /\ \A s \in Slot \ {slot} : pipes'[s] = pipes[s]
  BY <1>1, <1>2 DEF r
<1>5. \A s \in Slot :
        IF pipes'[s].isOpen THEN HasTriple(pipes'[s], n + 3)
        ELSE pipes'[s].semReaders = NoSem /\ pipes'[s].semWriters = NoSem /\ pipes'[s].mutex = NoSem
  <2>1. HasTriple(r, n + 3)
    BY <1>2, <1>3 DEF HasTriple
  <2>2. \A s \in Slot : pipes[s].isOpen => HasTriple(pipes[s], n + 3)
    BY <1>2 DEF OwnInv, OwnPart, HasTriple
  <2> QED
    BY <1>3, <1>4, <2>1, <2>2 DEF OwnInv, OwnPart
<1>6. \A s, t \in Slot : s # t /\ pipes'[s].isOpen /\ pipes'[t].isOpen => Apart(pipes'[s], pipes'[t])
  <2>1. \A s \in Slot \ {slot} : pipes[s].isOpen => Apart(r, pipes[s]) /\ Apart(pipes[s], r)
    BY <1>3 DEF OwnInv, OwnPart, HasTriple, Apart
  <2> QED
    BY <1>4, <2>1 DEF OwnInv, OwnPart
<1>7. ASSUME NEW id \in handed
      PROVE  /\ id \in Nat /\ id \notin {1, 2} /\ SlotOf(id) \in Slot /\ SlotOf(id) # slot
             /\ pipes[SlotOf(id)].isOpen /\ SemsOf(SlotOf(id)) \subseteq used \ opened
  BY <1>1 DEF OwnInv, OwnPart
<1> DEFINE new == IF slot = 0 THEN 0 ELSE slot + 2
<1>8. new \in Nat /\ new \notin {1, 2} /\ SlotOf(new) = slot
  BY <1>2 DEF SlotOf
<1>9. handed' = handed \/ (handed' = handed \cup {new} /\ done = n .. n + 2)
  <2>1. CASE Cardinality(done) = 3
    <3>1. done \subseteq n .. n + 2 /\ n \in Int
      BY <1>2
    <3> HIDE DEF done
    <3>2. done = n .. n + 2
      BY <2>1, <3>1, ThreeIds, FS_Subset
    <3> QED
      BY <1>1, <2>1, <3>2 DEF handedByCreate
  <2> QED
    BY <1>1, <2>1 DEF handedByCreate
<1>10. ASSUME NEW id \in handed'
       PROVE  /\ id \in Nat /\ id \notin {1, 2} /\ SlotOf(id) \in Slot /\ pipes'[SlotOf(id)].isOpen
              /\ {pipes'[SlotOf(id)].semReaders, pipes'[SlotOf(id)].semWriters, pipes'[SlotOf(id)].mutex}
                   \subseteq used' \ opened'
  <2>1. CASE id \in handed
    BY <1>1, <1>4, <1>7, <2>1 DEF SemsOf
  <2>2. CASE id = new /\ done = n .. n + 2
    <3>0. \A k \in done : k \in n .. k /\ k \notin used
      BY <1>2
    <3> HIDE DEF done, new
    <3>1. {n, n + 1, n + 2} = done /\ done \cap used = {}
      <4>1. n \in Int
        BY <1>2
      <4>2. n .. n + 2 = {n, n + 1, n + 2}
        BY <4>1, ThreeIds
      <4> QED
        BY <2>2, <3>0, <4>2
    <3> QED
      BY <1>1, <1>2, <1>3, <1>4, <1>8, <2>2, <3>1
  <2> QED
    BY <1>9, <1>10, <2>1, <2>2
<1>11. queued' = used' /\ opened' \subseteq used'
  BY <1>1, <1>2
<1> HIDE DEF done, new
<1> QED
  BY <1>1, <1>5, <1>6, <1>10, <1>11 DEF OwnPart, SemsOf

LEMMA CloseOwn ==
  ASSUME OwnInv, NEW p, NEW id \in handed, closePipe(p, id)
  PROVE  OwnPart'
<1>1. PICK slot \in Slot : slot = SlotOf(id)
  BY DEF OwnInv, OwnPart
<1> DEFINE mine == SemsOf(slot) \cap used
<1>2. /\ pipes' = [pipes EXCEPT ![slot] = ClosedPipe]
      /\ used' = used \ mine /\ queued' = queued \ mine
      /\ handed' = handed \ {id} /\ next_sem_id' = next_sem_id /\ opened' = opened
  BY <1>1 DEF closePipe
<1>3. /\ pipes \in [Slot -> Pipe] /\ pipes[slot].isOpen /\ SemsOf(slot) \subseteq used \ opened
      /\ queued = used /\ opened \subseteq used /\ next_sem_id \in Nat
  BY <1>1 DEF OwnInv, OwnPart, RingInv
<1>4. pipes'[slot] = ClosedPipe /\ \A s \in Slot \ {slot} : pipes'[s] = pipes[s]
  BY <1>2, <1>3
<1>5. ~ClosedPipe.isOpen /\ ClosedPipe.semReaders = NoSem /\ ClosedPipe.semWriters = NoSem
      /\ ClosedPipe.mutex = NoSem
  BY <1>3, FreshFacts
<1>6. queued' = used' /\ opened' \subseteq used'
  BY <1>2, <1>3
<1>7. ASSUME NEW jd \in handed'
      PROVE  /\ jd \in Nat /\ jd \notin {1, 2} /\ SlotOf(jd) \in Slot /\ pipes'[SlotOf(jd)].isOpen
             /\ {pipes'[SlotOf(jd)].semReaders, pipes'[SlotOf(jd)].semWriters, pipes'[SlotOf(jd)].mutex}
                  \subseteq used' \ opened'
  <2>1. jd \in handed /\ jd # id
    BY <1>2
  <2>2. PICK s \in Slot : s = SlotOf(jd)
    BY <2>1 DEF OwnInv, OwnPart
  <2>3. s # slot
    BY <1>1, <2>1, <2>2, IdFacts DEF OwnInv
  <2>4. SemsOf(s) \cap SemsOf(slot) = {} /\ SemsOf(s) \subseteq used \ opened /\ pipes[s].isOpen
    BY <1>3, <2>1, <2>2, <2>3, SlotsApart DEF OwnInv, OwnPart
  <2>5. SemsOf(s) \subseteq used' \ opened'
    BY <1>2, <2>4
  <2> QED
    BY <1>4, <2>1, <2>2, <2>3, <2>4, <2>5 DEF OwnInv, OwnPart, SemsOf
<1> HIDE DEF mine
<1>8. \A s, t \in Slot : s # t /\ pipes'[s].isOpen /\ pipes'[t].isOpen => Apart(pipes'[s], pipes'[t])
  BY <1>4, <1>5 DEF OwnInv, OwnPart
<1>9. \A s \in Slot :
        IF pipes'[s].isOpen THEN HasTriple(pipes'[s], next_sem_id')
        ELSE pipes'[s].semReaders = NoSem /\ pipes'[s].semWriters = NoSem /\ pipes'[s].mutex = NoSem
  BY <1>2, <1>4, <1>5 DEF OwnInv, OwnPart
<1> QED
  BY <1>6, <1>7, <1>8, <1>9 DEF OwnPart, SemsOf

LEMMA NextOwn ==
  ASSUME OwnInv, [Next]_vars
  PROVE  OwnInv'
<1>1. RingInv' /\ RingInv
  BY NextRings DEF OwnInv, RingStep
<1>2. CASE Create
  BY <1>1, <1>2, CreateOwn DEF Create, OwnInv
<1>3. CASE ClosePipe
  BY <1>1, <1>3, CloseOwn DEF ClosePipe, OwnInv
<1>4. CASE SemOpen
  <2>1. PICK s \in UserSems \ used :
          /\ queued' = queued \cup {s} /\ used' = used \cup {s} /\ opened' = opened \cup {s}
          /\ UNCHANGED <<pipes, next_sem_id, handed>>
    BY <1>4 DEF SemOpen, InitSems
  <2> QED
    BY <1>1, <2>1 DEF OwnInv, OwnPart, SemsOf, SlotOf
<1>5. ASSUME UNCHANGED <<next_sem_id, handed, used, opened, queued>>, SameSems
      PROVE  OwnInv'
  BY <1>1, <1>5, QuietOwn DEF OwnInv
<1>6. CASE Switch \/ ReadOrWrite \/ Clear \/ KeyPress \/ UNCHANGED vars
  BY <1>5, <1>6 DEF Switch, ReadOrWrite, Clear, KeyPress, Begin, vars, table, sems, SameSems
<1>7. ASSUME NEW a \in Actor, KernelStep(a)
      PROVE  OwnInv'
  <2>1. UNCHANGED <<next_sem_id, handed, used, opened, queued>>
    BY <1>7 DEF KernelStep, WaitForTokens, WaitForMutex, CriticalSection, PostTokens, table, semWait,
       semPost, Sem!WaitTakes, Sem!WaitFails, Sem!WaitGoesOn, Sem!WaitSleeps, Sem!Post, Sem!semaphores
  <2>2. CASE CriticalSection(a)
    BY <1>1, <1>5, <2>1, <2>2, RingsKeepSems
  <2>3. CASE pipes' = pipes
    BY <1>5, <2>1, <2>3 DEF SameSems
  <2> QED
    BY <1>7, <2>2, <2>3 DEF KernelStep, WaitForTokens, WaitForMutex, PostTokens, table
<1>8. ASSUME NEW p \in Proc, Die(p) \/ Awaken(p)
      PROVE  OwnInv'
  BY <1>5, <1>8 DEF Die, Awaken, table, Sem!Leave, SameSems
<1> QED
  BY <1>2, <1>3, <1>4, <1>6, <1>7, <1>8 DEF Next

LEMMA InitOwn == Init => OwnInv
<1> SUFFICES ASSUME Init PROVE OwnInv
  OBVIOUS
<1>1. RingInv
  BY InitRings
<1>2. /\ next_sem_id = 3 /\ handed = {0} /\ used = {0, 1, 2} /\ queued = {0, 1, 2} /\ opened = {}
      /\ pipes = [s \in Slot |-> IF s = 0 THEN FreshPipe(0) ELSE ClosedPipe]
  BY DEF Init
<1>3. /\ FreshPipe(0).isOpen /\ FreshPipe(0).semReaders = 0
      /\ FreshPipe(0).semWriters = 1 /\ FreshPipe(0).mutex = 2
      /\ ~ClosedPipe.isOpen /\ ClosedPipe.semReaders = NoSem
      /\ ClosedPipe.semWriters = NoSem /\ ClosedPipe.mutex = NoSem
  <2>1. 0 \in Nat /\ 0 + 1 = 1 /\ 0 + 2 = 2
    OBVIOUS
  <2> QED
    BY <2>1, FreshFacts
<1>4. 0 \in Slot /\ SlotOf(0) = 0
  BY SlotFacts DEF SlotOf
<1> QED
  BY <1>1, <1>2, <1>3, <1>4 DEF OwnInv, OwnPart, HasTriple, Apart, SemsOf

(* A pipe that createPipe() handed out keeps its three semaphores to        *)
(* itself: whatever is opened and closed, in whatever order, whether slots  *)
(* or ids run out, and whichever ids programs take for themselves.          *)
THEOREM PipesOwnTheirSemaphores == Spec => []SemaphoresAreItsOwn
<1>1. Init => OwnInv
  BY InitOwn
<1>2. OwnInv /\ [Next]_vars => OwnInv'
  BY NextOwn
<1> QED
  BY <1>1, <1>2, OwnImplies, PTL DEF Spec

-----------------------------------------------------------------------------
(* The two accounts of a pipe, the readers' and the writers', are the same  *)
(* but for the names.                                                       *)
Side == {"read", "write"}
Other(op) == IF op = "read" THEN "write" ELSE "read"

SemOf(slot, op) == IF op = "read" THEN pipes[slot].semReaders ELSE pipes[slot].semWriters

(* What a call of this kind waits for: bytes, or free places.               *)
Avail(slot, op) == IF op = "read" THEN pipes[slot].count ELSE PIPE_BUFFER_SIZE - pipes[slot].count

Holding(slot, op) == WithToken(slot, op, SemOf(slot, op))
Posting(slot, op) == CallsAt(slot, op, {"post"})

Account(slot, op) ==
  Avail(slot, op) = value[SemOf(slot, op)] + Cardinality(Holding(slot, op))
                      + Cardinality(Posting(slot, Other(op)))

Handed == {SlotOf(id) : id \in handed}

(* Nobody sleeps but in the semWait() of a call on a pipe that is there.    *)
InCall(a) ==
  /\ a \in Proc /\ call[a].op \in Side /\ call[a].slot \in Handed
  /\ call[a].at \in {"tokens", "mutex", "critical", "post"}
  /\ asleep[a] # Awake => \/ call[a].at = "mutex" /\ asleep[a] = SemOf(call[a].slot, call[a].op)
                          \/ call[a].at = "critical" /\ asleep[a] = pipes[call[a].slot].mutex

InNone(a) == call[a].op = "none" /\ call[a].at = "user" /\ asleep[a] = Awake

(* A queue holds sleepers, each once.                                       *)
GoodWaiters(W, A) ==
  \A s \in SemId :
    /\ W[s] \in Seq(Actor)
    /\ \A i \in 1 .. Len(W[s]) : A[W[s][i]] = s
    /\ \A i, j \in 1 .. Len(W[s]) : W[s][i] = W[s][j] => i = j

CalmPart ==
  /\ used \subseteq SemId
  /\ value \in [SemId -> Nat] /\ waiters \in [SemId -> Seq(Actor)] /\ asleep \in [Actor -> SemId \cup {Awake}]
  /\ cpu \in Actor /\ asleep[cpu] = Awake
  /\ \A a \in Actor : InCall(a) \/ InNone(a)
  /\ GoodWaiters(waiters, asleep)
  /\ \A slot \in Handed, op \in Side : Account(slot, op)

CalmInv == OwnInv /\ CalmPart

(* Nothing presses keys, kills or blocks by pid, clears a pipe, or closes   *)
(* one in use, and the kernel has memory: each of these breaks an account.  *)
Calm == ~Keyboard /\ ~Interfere /\ ~AllocFails /\ Orderly /\ \A p \in Proc : "clear" \notin May[p]

LEMMA SideFacts ==
  /\ \A op \in Side : Other(op) \in Side /\ Other(op) # op /\ Other(Other(op)) = op
  /\ \A op, po \in Side : po = op \/ po = Other(op)
  /\ \A op \in Side : op # "none" /\ op # "clear"
  /\ Awake \notin SemId /\ Awake \in Int /\ Idle \in Actor /\ Proc \subseteq Actor
BY PipesAssumption DEF Side, Other, Awake, SemId, NoSem, Actor

(* The semaphores of the pipes that were handed out are different ones.     *)
LEMMA HandedFacts ==
  ASSUME OwnInv, used \subseteq SemId, NEW slot \in Handed
  PROVE  /\ slot \in Slot /\ pipes[slot].isOpen
         /\ pipes[slot].mutex \in used /\ pipes[slot].mutex \in SemId
         /\ \A op \in Side :
              /\ SemOf(slot, op) \in used /\ SemOf(slot, op) \in SemId /\ SemOf(slot, op) # Awake
              /\ SemOf(slot, op) \notin opened
              /\ \A t \in Handed : pipes[t].mutex # SemOf(slot, op)
              /\ \A t \in Handed, po \in Side : SemOf(t, po) = SemOf(slot, op) => t = slot /\ po = op
<1>1. ASSUME NEW t \in Handed
      PROVE  /\ t \in Slot /\ pipes[t].isOpen /\ SemsOf(t) \subseteq used \ opened
             /\ pipes[t].semReaders \in Nat /\ pipes[t].semWriters = pipes[t].semReaders + 1
             /\ pipes[t].mutex = pipes[t].semReaders + 2
  BY DEF OwnInv, OwnPart, Handed, HasTriple
<1>2. ASSUME NEW t \in Handed, t # slot
      PROVE  SemsOf(t) \cap SemsOf(slot) = {}
  BY <1>1, <1>2, SlotsApart DEF OwnInv
<1>3. \A t \in Handed, op \in Side :
        /\ SemOf(t, op) \in SemsOf(t) /\ pipes[t].mutex \in SemsOf(t)
        /\ SemOf(t, op) # pipes[t].mutex
        /\ \A po \in Side : SemOf(t, po) = SemOf(t, op) => po = op
  BY <1>1 DEF SemOf, SemsOf, Side
<1>4. ASSUME NEW t \in Handed, NEW op \in Side
      PROVE  /\ pipes[t].mutex # SemOf(slot, op)
             /\ \A po \in Side : SemOf(t, po) = SemOf(slot, op) => t = slot /\ po = op
  <2>1. SemOf(slot, op) \in SemsOf(slot)
    BY <1>3
  <2>2. \A po \in Side : SemOf(t, po) \in SemsOf(t)
    BY <1>3
  <2>3. pipes[t].mutex \in SemsOf(t)
    BY <1>3
  <2>4. CASE t = slot
    BY <1>3, <2>4
  <2>5. CASE t # slot
    BY <1>2, <2>1, <2>2, <2>3, <2>5
  <2> QED
    BY <2>4, <2>5
<1>5. ASSUME NEW op \in Side
      PROVE  /\ SemOf(slot, op) \in used /\ SemOf(slot, op) \in SemId
             /\ SemOf(slot, op) # Awake /\ SemOf(slot, op) \notin opened
  BY <1>1, <1>3, SideFacts
<1>6. pipes[slot].mutex \in used /\ pipes[slot].mutex \in SemId
  BY <1>1, <1>3, SideFacts DEF Side
<1> QED
  BY <1>1, <1>4, <1>5, <1>6

LEMMA SetFacts ==
  ASSUME NEW slot, NEW op
  PROVE  /\ IsFiniteSet(Holding(slot, op)) /\ Cardinality(Holding(slot, op)) \in Nat
         /\ IsFiniteSet(Posting(slot, op)) /\ Cardinality(Posting(slot, op)) \in Nat
         /\ IsFiniteSet(Holding(slot, op)') /\ Cardinality(Holding(slot, op)') \in Nat
         /\ IsFiniteSet(Posting(slot, op)') /\ Cardinality(Posting(slot, op)') \in Nat
<1>1. IsFiniteSet(Actor)
  BY PipesAssumption, FS_AddElement DEF Actor
<1>2. /\ Holding(slot, op) \subseteq Actor /\ Posting(slot, op) \subseteq Actor
      /\ Holding(slot, op)' \subseteq Actor /\ Posting(slot, op)' \subseteq Actor
  BY DEF Holding, Posting, WithToken, CallsAt
<1> QED
  BY <1>1, <1>2, FS_Subset, FS_CardinalityType

LEMMA SetMembers ==
  ASSUME NEW slot, NEW op
  PROVE  /\ Holding(slot, op) =
              {x \in Actor : call[x].op = op /\ call[x].slot = slot /\ call[x].at \in {"mutex", "critical"}
                             /\ asleep[x] # SemOf(slot, op)}
         /\ Posting(slot, op) =
              {x \in Actor : call[x].op = op /\ call[x].slot = slot /\ call[x].at = "post"}
BY DEF Holding, Posting, WithToken, CallsAt

(* What TokensMatchBytes says, side by side. *)
LEMMA CalmImplies == CalmInv => TokensMatchBytes /\ NothingSkipped
<1> SUFFICES ASSUME CalmInv PROVE TokensMatchBytes /\ NothingSkipped
  OBVIOUS
<1>1. \A slot \in Handed : Account(slot, "read") /\ Account(slot, "write")
  BY DEF CalmInv, CalmPart, Side
<1>2. TokensMatchBytes
  BY <1>1 DEF TokensMatchBytes, Handed, Account, Avail, Holding, Posting, SemOf, Other
<1>3. ASSUME NEW a \in Actor, call[a].at = "critical", asleep[a] = Awake
      PROVE  /\ call[a].op = "write" => PipeOf(a).count < PIPE_BUFFER_SIZE
             /\ call[a].op = "read" => PipeOf(a).count > 0
  <2>1. InCall(a)
    BY <1>3 DEF CalmInv, CalmPart, InNone
  <2>2. PICK z \in Handed, o \in Side : z = call[a].slot /\ o = call[a].op
    BY <2>1 DEF InCall
  <2>3. /\ SemOf(z, o) \in SemId /\ SemOf(z, o) # Awake /\ z \in Slot
    BY <2>2, HandedFacts DEF CalmInv, CalmPart
  <2>4. a \in Holding(z, o)
    BY <1>3, <2>2, <2>3, SetMembers
  <2>5. Cardinality(Holding(z, o)) \in Nat /\ Cardinality(Holding(z, o)) # 0
        /\ Cardinality(Posting(z, Other(o))) \in Nat
    BY <2>4, SetFacts, FS_EmptySet
  <2>6. value[SemOf(z, o)] \in Nat /\ Account(z, o)
    BY <2>3 DEF CalmInv, CalmPart
  <2>7. Avail(z, o) > 0
    BY <2>5, <2>6 DEF Account
  <2>8. pipes[z].count \in 0 .. PIPE_BUFFER_SIZE /\ PIPE_BUFFER_SIZE \in Int
    BY <2>3, RingFacts, PipesAssumption DEF CalmInv, OwnInv, RingInv
  <2> QED
    BY <2>2, <2>7, <2>8 DEF Avail, PipeOf, Side
<1> QED
  BY <1>2, <1>3 DEF NothingSkipped

(* semWait() and semPost() where every waiter is a sleeper.                 *)
SemTypes ==
  /\ value \in [SemId -> Nat] /\ waiters \in [SemId -> Seq(Actor)] /\ asleep \in [Actor -> SemId \cup {Awake}]
  /\ cpu \in Actor /\ asleep[cpu] = Awake
  /\ GoodWaiters(waiters, asleep)

LEMMA WaitStep ==
  ASSUME Calm, CalmInv, NEW a \in Proc, cpu = a, NEW s \in SemId, s \in queued, semWait(a, s)
  PROVE  /\ SemTypes'
         /\ \/ value[s] > 0 /\ value' = [value EXCEPT ![s] = value[s] - 1] /\ asleep' = asleep
            \/ value' = value /\ asleep' = [asleep EXCEPT ![a] = s]
<1>1. /\ value \in [SemId -> Nat] /\ waiters \in [SemId -> Seq(Actor)]
      /\ asleep \in [Actor -> SemId \cup {Awake}] /\ cpu \in Actor /\ asleep[cpu] = Awake
      /\ GoodWaiters(waiters, asleep) /\ a \in Actor /\ a # Idle
  BY SideFacts, PipesAssumption DEF CalmInv, CalmPart
<1>2. CASE Sem!WaitTakes(s) /\ UNCHANGED cpu
  <2>1. value[s] > 0 /\ value' = [value EXCEPT ![s] = value[s] - 1] /\ UNCHANGED <<waiters, asleep, cpu>>
    BY <1>2 DEF Sem!WaitTakes
  <2>2. value[s] \in Nat
    BY <1>1
  <2>3. value[s] - 1 \in Nat
    BY <2>1, <2>2
  <2> QED
    BY <1>1, <2>1, <2>3 DEF SemTypes
<1>3. CASE (\E failed \in {FALSE, AllocFails} : Sem!WaitSleeps(s, a, failed)) /\ cpu' \in Ready(alive, asleep')
  <2>1. /\ UNCHANGED value
        /\ waiters' = [waiters EXCEPT ![s] = Append(waiters[s], a)]
        /\ asleep' = [asleep EXCEPT ![a] = s]
    <3>1. PICK failed \in {FALSE, AllocFails} :
            /\ waiters' = IF failed THEN waiters
                          ELSE IF s \in queued THEN [waiters EXCEPT ![s] = Append(waiters[s], a)] ELSE waiters
            /\ asleep' = [asleep EXCEPT ![a] = s]
            /\ UNCHANGED value
      BY <1>3 DEF Sem!WaitSleeps, Sem!Enqueued
    <3>2. ~failed
      BY Zenon DEF Calm
    <3> QED
      BY <3>1, <3>2
  <2> DEFINE q == Append(waiters[s], a)
  <2>2. /\ q \in Seq(Actor) /\ Len(q) = Len(waiters[s]) + 1 /\ Len(waiters[s]) \in Nat
        /\ q[Len(waiters[s]) + 1] = a /\ \A i \in 1 .. Len(waiters[s]) : q[i] = waiters[s][i]
    BY <1>1
  <2>3. waiters'[s] = q /\ waiters' \in [SemId -> Seq(Actor)]
        /\ \A t \in SemId \ {s} : waiters'[t] = waiters[t]
    BY <1>1, <2>1, <2>2
  <2>4. /\ asleep' \in [Actor -> SemId \cup {Awake}] /\ asleep'[a] = s
        /\ \A x \in Actor \ {a} : asleep'[x] = asleep[x]
    BY <1>1, <2>1
  <2>5. asleep[a] = Awake /\ s # Awake
    BY <1>1, SideFacts
  <2>6. \A t \in SemId : waiters[t] \in Seq(Actor) /\ \A i \in 1 .. Len(waiters[t]) :
          waiters[t][i] \in Actor /\ asleep[waiters[t][i]] = t /\ waiters[t][i] # a /\ t # Awake
    BY <1>1, <2>5, SideFacts DEF GoodWaiters
  <2>7. \A t \in SemId : \A i, j \in 1 .. Len(waiters[t]) : waiters[t][i] = waiters[t][j] => i = j
    BY <1>1 DEF GoodWaiters
  <2> HIDE DEF q
  <2>8. GoodWaiters(waiters', asleep')
    <3>1. ASSUME NEW t \in SemId, t # s
          PROVE  /\ \A i \in 1 .. Len(waiters'[t]) : asleep'[waiters'[t][i]] = t
                 /\ \A i, j \in 1 .. Len(waiters'[t]) : waiters'[t][i] = waiters'[t][j] => i = j
      <4>1. waiters'[t] = waiters[t]
        BY <2>3, <3>1
      <4>2. \A i \in 1 .. Len(waiters[t]) : waiters[t][i] \in Actor \ {a} /\ asleep[waiters[t][i]] = t
        BY <2>6
      <4> QED
        BY <2>4, <2>7, <4>1, <4>2
    <3>2. \A i \in 1 .. Len(q) : i \in 1 .. Len(waiters[s]) \/ i = Len(waiters[s]) + 1
      BY <2>2
    <3>3. \A i \in 1 .. Len(q) : asleep'[q[i]] = s
      BY <2>2, <2>4, <2>6, <3>2
    <3>4. \A i, j \in 1 .. Len(q) : q[i] = q[j] => i = j
      BY <2>2, <2>6, <2>7, <3>2
    <3> QED
      BY <2>3, <3>1, <3>3, <3>4 DEF GoodWaiters
  <2>9. asleep[Idle] = Awake
    BY <1>1, SideFacts, PipesAssumption DEF CalmInv, CalmPart, InCall, InNone
  <2>10. cpu' \in Actor /\ asleep'[cpu'] = Awake
    BY <1>1, <1>3, <2>4, <2>9, SideFacts DEF Ready
  <2> QED
    BY <1>1, <2>1, <2>3, <2>4, <2>8, <2>10 DEF SemTypes
<1> QED
  BY <1>1, <1>2, <1>3 DEF semWait, Calm

LEMMA PostStep ==
  ASSUME CalmInv, NEW s \in SemId, semPost(s)
  PROVE  /\ SemTypes'
         /\ \/ value' = [value EXCEPT ![s] = value[s] + 1] /\ asleep' = asleep
            \/ /\ value' = value
               /\ \E h \in Actor : asleep[h] = s /\ asleep' = [asleep EXCEPT ![h] = Awake]
<1>1. /\ value \in [SemId -> Nat] /\ waiters \in [SemId -> Seq(Actor)]
      /\ asleep \in [Actor -> SemId \cup {Awake}] /\ cpu \in Actor /\ asleep[cpu] = Awake
      /\ GoodWaiters(waiters, asleep) /\ UNCHANGED cpu
  BY DEF CalmInv, CalmPart, semPost
<1>2. CASE /\ value' = [value EXCEPT ![s] = value[s] + 1] /\ UNCHANGED <<waiters, asleep>>
  <2>1. value[s] + 1 \in Nat
    BY <1>1
  <2> QED
    BY <1>1, <1>2, <2>1 DEF SemTypes
<1>3. CASE /\ waiters[s] # <<>> /\ waiters' = [waiters EXCEPT ![s] = Tail(waiters[s])]
           /\ asleep' = [asleep EXCEPT ![Head(waiters[s])] = Awake] /\ UNCHANGED value
  <2> DEFINE h == Head(waiters[s])
             q == Tail(waiters[s])
  <2>1. /\ q \in Seq(Actor) /\ Len(q) = Len(waiters[s]) - 1 /\ Len(waiters[s]) \in Nat \ {0}
        /\ h = waiters[s][1] /\ 1 \in 1 .. Len(waiters[s])
        /\ \A i \in 1 .. Len(q) : q[i] = waiters[s][i + 1]
    BY <1>1, <1>3
  <2>2. h \in Actor /\ asleep[h] = s
    BY <1>1, <2>1 DEF GoodWaiters
  <2>3. \A i \in 1 .. Len(q) : i + 1 \in 1 .. Len(waiters[s]) /\ i + 1 # 1 /\ i \in Int
    BY <2>1
  <2>4. waiters'[s] = q /\ waiters' \in [SemId -> Seq(Actor)]
        /\ \A t \in SemId \ {s} : waiters'[t] = waiters[t]
    BY <1>1, <1>3, <2>1
  <2>5. asleep' = [asleep EXCEPT ![h] = Awake]
    BY <1>3
  <2> HIDE DEF h, q
  <2>6. /\ asleep' \in [Actor -> SemId \cup {Awake}] /\ asleep'[h] = Awake
        /\ \A x \in Actor \ {h} : asleep'[x] = asleep[x]
    BY <1>1, <2>2, <2>5
  <2>7. \A t \in SemId : waiters[t] \in Seq(Actor) /\ \A i \in 1 .. Len(waiters[t]) :
          waiters[t][i] \in Actor /\ asleep[waiters[t][i]] = t
    BY <1>1 DEF GoodWaiters
  <2>8. \A t \in SemId : \A i, j \in 1 .. Len(waiters[t]) : waiters[t][i] = waiters[t][j] => i = j
    BY <1>1 DEF GoodWaiters
  <2>9. GoodWaiters(waiters', asleep')
    <3>1. ASSUME NEW t \in SemId, t # s
          PROVE  /\ \A i \in 1 .. Len(waiters'[t]) : asleep'[waiters'[t][i]] = t
                 /\ \A i, j \in 1 .. Len(waiters'[t]) : waiters'[t][i] = waiters'[t][j] => i = j
      BY <2>2, <2>4, <2>6, <2>7, <2>8, <3>1
    <3>2. ASSUME NEW i \in 1 .. Len(q)
          PROVE  asleep'[q[i]] = s
      <4>1. q[i] = waiters[s][i + 1] /\ i + 1 \in 1 .. Len(waiters[s]) /\ i + 1 # 1
        BY <2>1, <2>3
      <4>2. q[i] # h
        BY <2>1, <2>8, <4>1
      <4> QED
        BY <2>6, <2>7, <4>1, <4>2
    <3>3. ASSUME NEW i \in 1 .. Len(q), NEW j \in 1 .. Len(q), q[i] = q[j]
          PROVE  i = j
      <4>1. i + 1 = j + 1
        BY <2>1, <2>3, <2>8, <3>3
      <4> QED
        BY <2>3, <4>1
    <3> QED
      BY <2>4, <3>1, <3>2, <3>3 DEF GoodWaiters
  <2>10. cpu' \in Actor /\ asleep'[cpu'] = Awake
    BY <1>1, <2>6
  <2> QED
    BY <1>1, <1>3, <2>2, <2>4, <2>5, <2>6, <2>9, <2>10 DEF SemTypes
<1> QED
  BY <1>2, <1>3 DEF semPost, Sem!Post

(* The call of whoever runs in the kernel. *)
LEMMA CallerFacts ==
  ASSUME CalmInv, NEW a \in Actor, cpu = a, call[a].op # "none"
  PROVE  /\ a \in Proc /\ asleep[a] = Awake /\ InCall(a)
         /\ \E z \in Handed, o \in Side :
              /\ z = call[a].slot /\ o = call[a].op /\ PipeOf(a) = pipes[z]
              /\ tokensOf(a) = SemOf(z, o) /\ otherTokensOf(a) = SemOf(z, Other(o))
<1>1. InCall(a) /\ asleep[a] = Awake /\ a \in Proc
  BY DEF CalmInv, CalmPart, InNone, InCall
<1> QED
  BY <1>1 DEF InCall, Side, PipeOf, tokensOf, otherTokensOf, SemOf, Other

(* Who sleeps on a semaphore of a pipe is in a call on that pipe. *)
LEMMA WhoSleeps ==
  ASSUME CalmInv, NEW z \in Handed, NEW h \in Actor
  PROVE  /\ \A o \in Side : asleep[h] = SemOf(z, o) =>
              h \in Proc /\ call[h].op = o /\ call[h].slot = z /\ call[h].at = "mutex"
         /\ asleep[h] = pipes[z].mutex => h \in Proc /\ call[h].at = "critical"
<1>1. OwnInv /\ used \subseteq SemId
  BY DEF CalmInv, CalmPart
<1>2. /\ pipes[z].mutex \in SemId
      /\ \A o \in Side : SemOf(z, o) \in SemId
      /\ \A t \in Handed, o \in Side : pipes[t].mutex # SemOf(z, o)
      /\ \A t \in Handed, o \in Side : \A po \in Side : SemOf(t, po) = SemOf(z, o) => t = z /\ po = o
  BY <1>1, HandedFacts
<1>3. ASSUME asleep[h] \in SemId
      PROVE  \E t \in Handed, po \in Side :
               /\ h \in Proc /\ call[h].op = po /\ call[h].slot = t
               /\ \/ call[h].at = "mutex" /\ asleep[h] = SemOf(t, po)
                  \/ call[h].at = "critical" /\ asleep[h] = pipes[t].mutex
  BY <1>3, SideFacts DEF CalmInv, CalmPart, InCall, InNone
<1>4. ASSUME NEW o \in Side, asleep[h] = SemOf(z, o)
      PROVE  h \in Proc /\ call[h].op = o /\ call[h].slot = z /\ call[h].at = "mutex"
  BY <1>2, <1>3, <1>4
<1>5. ASSUME asleep[h] = pipes[z].mutex
      PROVE  h \in Proc /\ call[h].at = "critical"
  <2>1. PICK t \in Handed, po \in Side :
               /\ h \in Proc /\ call[h].op = po /\ call[h].slot = t
               /\ \/ call[h].at = "mutex" /\ asleep[h] = SemOf(t, po)
                  \/ call[h].at = "critical" /\ asleep[h] = pipes[t].mutex
    BY <1>2, <1>3, <1>5
  <2>2. SemOf(t, po) # pipes[z].mutex
    BY <1>1, HandedFacts
  <2> QED
    BY <1>5, <2>1, <2>2
<1> QED
  BY <1>4, <1>5

LEMMA NextMembers ==
  ASSUME SameSems, NEW t \in Slot, NEW po
  PROVE  /\ SemOf(t, po)' = SemOf(t, po)
         /\ Holding(t, po)' =
              {x \in Actor : call'[x].op = po /\ call'[x].slot = t /\ call'[x].at \in {"mutex", "critical"}
                             /\ asleep'[x] # SemOf(t, po)}
         /\ Posting(t, po)' =
              {x \in Actor : call'[x].op = po /\ call'[x].slot = t /\ call'[x].at = "post"}
<1>1. SemOf(t, po)' = SemOf(t, po)
  BY DEF SameSems, SemOf
<1> QED
  BY <1>1 DEF Holding, Posting, WithToken, CallsAt

(* What is left to show of a step: the caller, and the accounts. *)
LEMMA Assemble ==
  ASSUME CalmInv, SameSems, UNCHANGED <<handed, used>>, SemTypes', NEW a \in Actor,
         InCall(a)' \/ InNone(a)',
         \A x \in Actor \ {a} : call'[x] = call[x] /\ (asleep'[x] = asleep[x] \/ asleep'[x] = Awake),
         \A t \in Handed, po \in Side : Account(t, po)'
  PROVE  CalmPart'
<1>1. Handed' = Handed /\ Handed \subseteq Slot
  BY DEF Handed, SlotOf, CalmInv, OwnInv, OwnPart
<1>2. \A t \in Handed : pipes'[t].mutex = pipes[t].mutex
                        /\ \A po : (IF po = "read" THEN pipes'[t].semReaders ELSE pipes'[t].semWriters)
                                    = (IF po = "read" THEN pipes[t].semReaders ELSE pipes[t].semWriters)
  BY <1>1 DEF SameSems
<1>3. ASSUME NEW x \in Actor, x # a
      PROVE  InCall(x)' \/ InNone(x)'
  <2>1. call'[x] = call[x] /\ (asleep'[x] = asleep[x] \/ asleep'[x] = Awake)
    BY <1>3
  <2>2. CASE InNone(x)
    BY <2>1, <2>2 DEF InNone
  <2>3. CASE InCall(x)
    BY <1>1, <1>2, <2>1, <2>3 DEF InCall, SemOf
  <2> QED
    BY <2>2, <2>3 DEF CalmInv, CalmPart
<1> QED
  BY <1>1, <1>3 DEF CalmInv, CalmPart, SemTypes

LEMMA OneMore ==
  ASSUME NEW S, NEW a, IsFiniteSet(S), a \notin S
  PROVE  Cardinality(S \cup {a}) = Cardinality(S) + 1
BY FS_AddElement

LEMMA OneLess ==
  ASSUME NEW S, NEW a, IsFiniteSet(S), a \in S
  PROVE  Cardinality(S \ {a}) = Cardinality(S) - 1
BY FS_RemoveElement

(* The sum of an account, on integers. *)
LEMMA Balanced ==
  ASSUME CalmInv, SameSems, NEW t \in Handed, NEW po \in Side,
         NEW v \in Int, NEW h \in Int, NEW p \in Int, NEW n \in Int, n = v + h + p,
         value'[SemOf(t, po)] = value[SemOf(t, po)] + v,
         Cardinality(Holding(t, po)') = Cardinality(Holding(t, po)) + h,
         Cardinality(Posting(t, Other(po))') = Cardinality(Posting(t, Other(po))) + p,
         Avail(t, po)' = Avail(t, po) + n
  PROVE  Account(t, po)'
<1>1. t \in Slot /\ SemOf(t, po) \in SemId
  BY HandedFacts DEF CalmInv, CalmPart
<1>2. SemOf(t, po)' = SemOf(t, po)
  BY <1>1, NextMembers
<1>3. value[SemOf(t, po)] \in Int
  BY <1>1 DEF CalmInv, CalmPart
<1>4. Cardinality(Holding(t, po)) \in Int /\ Cardinality(Posting(t, Other(po))) \in Int
  BY SetFacts
<1>5. Avail(t, po) = value[SemOf(t, po)] + Cardinality(Holding(t, po))
                      + Cardinality(Posting(t, Other(po)))
  BY DEF CalmInv, CalmPart, Account
<1>6. Avail(t, po)' = value'[SemOf(t, po)] + Cardinality(Holding(t, po)')
                       + Cardinality(Posting(t, Other(po))')
  BY <1>3, <1>4, <1>5
<1> QED
  BY <1>2, <1>6 DEF Account

(* What a step that leaves an account alone does not change. *)
Unmoved(t, po) ==
  /\ value'[SemOf(t, po)] = value[SemOf(t, po)]
  /\ Holding(t, po)' = Holding(t, po)
  /\ Posting(t, Other(po))' = Posting(t, Other(po))
  /\ Avail(t, po)' = Avail(t, po)

LEMMA Undisturbed ==
  ASSUME CalmInv, SameSems, NEW t \in Handed, NEW po \in Side, Unmoved(t, po)
  PROVE  Account(t, po)'
<1>1. t \in Slot
  BY HandedFacts DEF CalmInv, CalmPart
<1>2. SemOf(t, po)' = SemOf(t, po)
  BY <1>1, NextMembers
<1> QED
  BY <1>2 DEF Unmoved, Account, CalmInv, CalmPart

LEMMA CallMoves ==
  ASSUME RingInv, NEW a \in Actor, NEW place, MovesTo(a, place)
  PROVE  /\ call'[a].op = call[a].op /\ call'[a].slot = call[a].slot /\ call'[a].at = place
         /\ \A x \in Actor \ {a} : call'[x] = call[x]
BY DEF RingInv, CallRecord, MovesTo

(* A reader waits for a byte, a writer for a free place. *)
LEMMA TokensCalm ==
  ASSUME Calm, CalmInv, NEW a \in Actor, WaitForTokens(a)
  PROVE  CalmPart'
<1>1. cpu = a /\ call[a].at = "tokens" /\ call[a].op # "none"
  BY DEF WaitForTokens, At, CalmInv, CalmPart, InCall, InNone, Side
<1>2. a \in Proc /\ asleep[a] = Awake /\ InCall(a)
  BY <1>1, CallerFacts
<1>3. PICK z \in Handed, o \in Side : z = call[a].slot /\ o = call[a].op /\ tokensOf(a) = SemOf(z, o)
  BY <1>1, CallerFacts
<1>4. z \in Slot /\ SemOf(z, o) \in SemId /\ SemOf(z, o) \in queued
      /\ \A t \in Handed, po \in Side : SemOf(t, po) = SemOf(z, o) => t = z /\ po = o
  BY HandedFacts DEF CalmInv, CalmPart, OwnInv, OwnPart
<1>5. PICK s \in SemId : s = SemOf(z, o)
  BY <1>4
<1>6. /\ call'[a].op = o /\ call'[a].slot = z /\ call'[a].at = "mutex"
      /\ \A x \in Actor \ {a} : call'[x] = call[x]
  BY <1>3, CallMoves DEF WaitForTokens, CalmInv, OwnInv
<1>7. UNCHANGED <<pipes, handed, used>> /\ SameSems /\ Handed \subseteq Slot
  BY DEF WaitForTokens, table, SameSems, CalmInv, OwnInv, OwnPart, Handed
<1>8. semWait(a, s)
  BY <1>3, <1>5 DEF WaitForTokens
<1>9. /\ SemTypes'
      /\ \/ value[s] > 0 /\ value' = [value EXCEPT ![s] = value[s] - 1] /\ asleep' = asleep
         \/ value' = value /\ asleep' = [asleep EXCEPT ![a] = s]
  BY <1>1, <1>2, <1>4, <1>5, <1>8, WaitStep
<1>10. asleep \in [Actor -> SemId \cup {Awake}] /\ value \in [SemId -> Nat]
  BY DEF CalmInv, CalmPart
<1>11. InCall(a)'
  <2>1. asleep'[a] = Awake \/ asleep'[a] = s
    BY <1>2, <1>9, <1>10
  <2>2. SemOf(z, o)' = s
    BY <1>4, <1>5, <1>7, NextMembers
  <2>3. Handed' = Handed
    BY <1>7 DEF Handed, SlotOf
  <2> QED
    BY <1>2, <1>6, <2>1, <2>2, <2>3 DEF InCall
<1>12. \A x \in Actor \ {a} : asleep'[x] = asleep[x]
  BY <1>9, <1>10
<1>13. ASSUME NEW t \in Handed, NEW po \in Side
       PROVE  Posting(t, po)' = Posting(t, po) /\ Avail(t, po)' = Avail(t, po) /\ Avail(t, po) \in Int
              /\ SemOf(t, po) \in SemId /\ SemOf(t, po) # Awake /\ t \in Slot
  <2>1. t \in Slot
    BY <1>7
  <2>2. Posting(t, po)' = Posting(t, po)
    BY <1>1, <1>6, <1>7, <2>1, NextMembers, SetMembers
  <2>3. pipes[t].count \in Int /\ PIPE_BUFFER_SIZE \in Int
    BY <2>1, RingFacts, PipesAssumption DEF CalmInv, OwnInv, RingInv
  <2> QED
    BY <1>7, <2>1, <2>2, <2>3, HandedFacts DEF Avail, CalmInv, CalmPart
<1>14. ASSUME NEW t \in Handed, NEW po \in Side, t # z \/ po # o \/ asleep' # asleep
       PROVE  Account(t, po)'
  <2>1. Holding(t, po)' = Holding(t, po)
    <3>1. a \notin Holding(t, po)
      BY <1>1, <1>13, SetMembers
    <3>2. a \notin Holding(t, po)'
      <4>1. asleep' # asleep => asleep'[a] = s
        BY <1>9, <1>10
      <4>2. t = z /\ po = o => asleep'[a] = SemOf(t, po)
        BY <1>5, <1>14, <4>1
      <4> QED
        BY <1>6, <1>7, <1>13, <4>2, NextMembers
    <3>3. \A x \in Actor \ {a} : x \in Holding(t, po)' <=> x \in Holding(t, po)
      BY <1>6, <1>7, <1>12, <1>13, NextMembers, SetMembers
    <3>4. Holding(t, po) \subseteq Actor /\ Holding(t, po)' \subseteq Actor
      BY DEF Holding, WithToken, CallsAt
    <3> QED
      BY <3>1, <3>2, <3>3, <3>4
  <2>2. value'[SemOf(t, po)] = value[SemOf(t, po)]
    BY <1>4, <1>5, <1>9, <1>10, <1>13, <1>14
  <2>4. Posting(t, Other(po))' = Posting(t, Other(po))
    BY <1>13, SideFacts
  <2>5. Unmoved(t, po)
    BY <1>13, <2>1, <2>2, <2>4 DEF Unmoved
  <2> QED
    BY <1>7, <2>5, Undisturbed
<1>15. ASSUME asleep' = asleep
       PROVE  Account(z, o)'
  <2>1. value[s] > 0 /\ value' = [value EXCEPT ![s] = value[s] - 1]
    <3>1. asleep[a] # s
      BY <1>2, <1>5, <1>13
    <3> QED
      BY <1>9, <1>10, <1>15, <3>1
  <2>2. value'[SemOf(z, o)] = value[SemOf(z, o)] + (-1)
    BY <1>5, <1>10, <2>1
  <2>3. a \notin Holding(z, o)
    BY <1>1, <1>4, SetMembers
  <2>4. a \in Holding(z, o)'
    BY <1>2, <1>4, <1>6, <1>7, <1>13, <1>15, NextMembers
  <2>5. Holding(z, o)' = Holding(z, o) \cup {a}
    <3>1. \A x \in Actor \ {a} : x \in Holding(z, o)' <=> x \in Holding(z, o)
      BY <1>4, <1>6, <1>7, <1>12, NextMembers, SetMembers
    <3>2. Holding(z, o) \subseteq Actor /\ Holding(z, o)' \subseteq Actor
      BY DEF Holding, WithToken, CallsAt
    <3> QED
      BY <2>3, <2>4, <3>1, <3>2
  <2>6. Cardinality(Holding(z, o)') = Cardinality(Holding(z, o)) + 1
    BY <2>3, <2>5, SetFacts, OneMore
  <2>7. Posting(z, Other(o))' = Posting(z, Other(o)) /\ Cardinality(Posting(z, Other(o))) \in Int
    BY <1>13, SideFacts, SetFacts
  <2>8. Avail(z, o)' = Avail(z, o) + 0 /\ Cardinality(Posting(z, Other(o))') = Cardinality(Posting(z, Other(o))) + 0
    BY <1>13, <2>7
  <2>9. -1 \in Int /\ 0 = -1 + 1 + 0
    OBVIOUS
  <2> QED
    BY <1>7, <2>2, <2>6, <2>8, <2>9, Balanced
<1>16. \A t \in Handed, po \in Side : Account(t, po)'
  BY <1>14, <1>15
<1> QED
  BY <1>6, <1>7, <1>9, <1>11, <1>12, <1>16, Assemble

(* What every step of a call knows of its caller and its pipe. *)
LEMMA HandedPipes ==
  ASSUME CalmInv
  PROVE  /\ Handed \subseteq Slot
         /\ asleep \in [Actor -> SemId \cup {Awake}] /\ value \in [SemId -> Nat]
         /\ \A t \in Handed : pipes[t].count \in 0 .. PIPE_BUFFER_SIZE /\ pipes[t].mutex \in SemId
                              /\ pipes[t].mutex # Awake /\ pipes[t].mutex \in queued
         /\ \A t \in Handed, po \in Side :
              SemOf(t, po) \in SemId /\ SemOf(t, po) # Awake /\ SemOf(t, po) \in queued
         /\ \A t, z \in Handed, po \in Side : SemOf(t, po) # pipes[z].mutex
<1>1. Handed \subseteq Slot
  BY HandedFacts DEF CalmInv, CalmPart
<1>2. \A t \in Handed : pipes[t].count \in 0 .. PIPE_BUFFER_SIZE
  BY <1>1, RingFacts DEF CalmInv, OwnInv, RingInv
<1> QED
  BY <1>1, <1>2, HandedFacts, SideFacts DEF CalmInv, CalmPart, OwnInv, OwnPart

LEMMA MutexCalm ==
  ASSUME Calm, CalmInv, NEW a \in Actor, WaitForMutex(a)
  PROVE  CalmPart'
<1>1. cpu = a /\ call[a].at = "mutex" /\ call[a].op # "none"
  BY DEF WaitForMutex, At, CalmInv, CalmPart, InCall, InNone, Side
<1>2. a \in Proc /\ asleep[a] = Awake /\ InCall(a)
  BY <1>1, CallerFacts
<1>3. PICK z \in Handed, o \in Side : z = call[a].slot /\ o = call[a].op /\ PipeOf(a) = pipes[z]
  BY <1>1, CallerFacts
<1>4. /\ Handed \subseteq Slot /\ pipes[z].mutex \in SemId /\ pipes[z].mutex \in queued
      /\ asleep \in [Actor -> SemId \cup {Awake}] /\ value \in [SemId -> Nat]
      /\ \A t \in Handed, po \in Side :
           SemOf(t, po) \in SemId /\ SemOf(t, po) # Awake /\ SemOf(t, po) # pipes[z].mutex
  BY HandedPipes
<1>5. PICK s \in SemId : s = pipes[z].mutex
  BY <1>4
<1>6. /\ call'[a].op = o /\ call'[a].slot = z /\ call'[a].at = "critical"
      /\ \A x \in Actor \ {a} : call'[x] = call[x]
  BY <1>3, CallMoves DEF WaitForMutex, CalmInv, OwnInv
<1>7. UNCHANGED <<pipes, handed, used>> /\ SameSems
  BY DEF WaitForMutex, table, SameSems
<1>8. /\ SemTypes'
      /\ \/ value' = [value EXCEPT ![s] = value[s] - 1] /\ asleep' = asleep
         \/ value' = value /\ asleep' = [asleep EXCEPT ![a] = s]
  <2>1. semWait(a, s)
    BY <1>3, <1>5 DEF WaitForMutex
  <2> QED
    BY <1>1, <1>2, <1>4, <1>5, <2>1, WaitStep
<1>9. /\ asleep'[a] = Awake \/ asleep'[a] = s
      /\ \A x \in Actor \ {a} : asleep'[x] = asleep[x]
      /\ \A i \in SemId \ {s} : value'[i] = value[i]
  BY <1>2, <1>4, <1>8
<1>10. InCall(a)'
  <2>1. Handed' = Handed
    BY <1>7 DEF Handed, SlotOf
  <2> QED
    BY <1>2, <1>5, <1>6, <1>7, <1>9, <2>1 DEF InCall
<1>11. ASSUME NEW t \in Handed, NEW po \in Side
       PROVE  Account(t, po)'
  <2>1. t \in Slot /\ SemOf(t, po) \in SemId /\ SemOf(t, po) # Awake /\ SemOf(t, po) # s
    BY <1>4, <1>5
  <2>2. \A x \in Actor : x \in Holding(t, po)' <=> x \in Holding(t, po)
    BY <1>1, <1>2, <1>3, <1>6, <1>7, <1>9, <2>1, NextMembers, SetMembers
  <2>3. Holding(t, po) \subseteq Actor /\ Holding(t, po)' \subseteq Actor
    BY DEF Holding, WithToken, CallsAt
  <2>4. Posting(t, Other(po))' = Posting(t, Other(po))
    <3>1. \A x \in Actor : x \in Posting(t, Other(po))' <=> x \in Posting(t, Other(po))
      BY <1>1, <1>6, <1>7, <2>1, NextMembers, SetMembers
    <3>2. Posting(t, Other(po)) \subseteq Actor /\ Posting(t, Other(po))' \subseteq Actor
      BY DEF Posting, CallsAt
    <3> QED
      BY <3>1, <3>2
  <2>5. Avail(t, po)' = Avail(t, po)
    BY <1>7 DEF Avail
  <2>6. Unmoved(t, po)
    BY <1>9, <2>1, <2>2, <2>3, <2>4, <2>5 DEF Unmoved
  <2> QED
    BY <1>7, <2>6, Undisturbed
<1> QED
  BY <1>6, <1>7, <1>8, <1>9, <1>10, <1>11, Assemble

(* A byte read is a free place, and a byte written one to read. *)
LEMMA CriticalCalm ==
  ASSUME Calm, CalmInv, NEW a \in Actor, CriticalSection(a)
  PROVE  CalmPart'
<1>1. cpu = a /\ call[a].at = "critical" /\ call[a].op # "none"
  BY DEF CriticalSection, At, CalmInv, CalmPart, InCall, InNone, Side
<1>2. a \in Proc /\ asleep[a] = Awake /\ InCall(a)
  BY <1>1, CallerFacts
<1>3. PICK z \in Handed, o \in Side : z = call[a].slot /\ o = call[a].op /\ PipeOf(a) = pipes[z]
  BY <1>1, CallerFacts
<1>4. /\ Handed \subseteq Slot /\ pipes[z].mutex \in SemId /\ pipes[z].mutex # Awake
      /\ asleep \in [Actor -> SemId \cup {Awake}] /\ value \in [SemId -> Nat]
      /\ \A t \in Handed, po \in Side :
           SemOf(t, po) \in SemId /\ SemOf(t, po) # Awake /\ SemOf(t, po) # pipes[z].mutex
  BY HandedPipes
<1>5. PICK s \in SemId : s = pipes[z].mutex
  BY <1>4
<1>6. /\ UNCHANGED <<handed, used>> /\ SameSems
  BY RingsKeepSems DEF CriticalSection, CalmInv, OwnInv
<1>7. /\ call'[a].op = o /\ call'[a].slot = z /\ call'[a].at = "post"
      /\ \A x \in Actor \ {a} : call'[x] = call[x]
  <2>1. MovesTo(a, "post")
    BY <1>3, SideFacts DEF CriticalSection, ReadByte, WriteByte, ClearBytes
  <2> QED
    BY <1>3, <2>1, CallMoves DEF CalmInv, OwnInv
<1>8. /\ Avail(z, o)' = Avail(z, o) + (-1) /\ Avail(z, Other(o))' = Avail(z, Other(o)) + 1
      /\ \A t \in Slot \ {z} : pipes'[t] = pipes[t]
  <2>1. pipes[z].count \in 0 .. PIPE_BUFFER_SIZE /\ PIPE_BUFFER_SIZE \in Int /\ pipes[z].count \in Int
    BY HandedPipes, PipesAssumption
  <2>2. /\ o = "write" => pipes[z].count < PIPE_BUFFER_SIZE
        /\ o = "read" => pipes[z].count > 0
    BY <1>1, <1>2, <1>3, CalmImplies DEF NothingSkipped
  <2>3. pipes \in [Slot -> Pipe] /\ pipes[z] \in Pipe /\ z \in Slot
    BY <1>4 DEF CalmInv, OwnInv, RingInv
  <2>4. afterRead(pipes[z]).count = pipes[z].count - 1
        /\ \A b \in Byte : afterWrite(pipes[z], b).count = pipes[z].count + 1
    BY <2>3 DEF afterRead, afterWrite, Pipe
  <2>5. CASE o = "read"
    <3>1. pipes' = [pipes EXCEPT ![z] = afterRead(pipes[z])]
      BY <1>3, <2>2, <2>5 DEF CriticalSection, ReadByte, WriteByte, ClearBytes
    <3>2. pipes'[z].count = pipes[z].count - 1 /\ \A t \in Slot \ {z} : pipes'[t] = pipes[t]
      BY <2>3, <2>4, <3>1
    <3> QED
      BY <2>1, <2>5, <3>2 DEF Avail, Other
  <2>6. CASE o = "write"
    <3>1. PICK b \in Byte : pipes' = [pipes EXCEPT ![z] = afterWrite(pipes[z], b)]
      BY <1>3, <2>2, <2>6 DEF CriticalSection, ReadByte, WriteByte, ClearBytes, HasRoom
    <3>2. pipes'[z].count = pipes[z].count + 1 /\ \A t \in Slot \ {z} : pipes'[t] = pipes[t]
      BY <2>3, <2>4, <3>1
    <3> QED
      BY <2>1, <2>6, <3>2 DEF Avail, Other
  <2> QED
    BY <2>5, <2>6 DEF Side
<1>9. /\ SemTypes'
      /\ \/ value' = [value EXCEPT ![s] = value[s] + 1] /\ asleep' = asleep
         \/ value' = value /\ \E h \in Actor : asleep[h] = s /\ asleep' = [asleep EXCEPT ![h] = Awake]
  <2>1. semPost(s)
    BY <1>3, <1>5 DEF CriticalSection
  <2> QED
    BY <2>1, PostStep DEF CalmInv
<1>10. /\ asleep'[a] = Awake
       /\ \A x \in Actor : asleep'[x] = asleep[x] \/ (asleep[x] = s /\ asleep'[x] = Awake)
       /\ \A i \in SemId \ {s} : value'[i] = value[i]
  BY <1>2, <1>4, <1>5, <1>9
<1>11. InCall(a)'
  <2>1. Handed' = Handed
    BY <1>6 DEF Handed, SlotOf
  <2> QED
    BY <1>2, <1>7, <1>10, <2>1 DEF InCall
<1>12. ASSUME NEW t \in Handed, NEW po \in Side
       PROVE  /\ t \in Slot /\ value'[SemOf(t, po)] = value[SemOf(t, po)]
              /\ IF t = z /\ po = o THEN a \in Holding(t, po) /\ Holding(t, po)' = Holding(t, po) \ {a}
                 ELSE Holding(t, po)' = Holding(t, po)
              /\ IF t = z /\ po = o THEN a \notin Posting(t, po) /\ Posting(t, po)' = Posting(t, po) \cup {a}
                 ELSE Posting(t, po)' = Posting(t, po)
  <2>1. t \in Slot /\ SemOf(t, po) \in SemId /\ SemOf(t, po) # Awake /\ SemOf(t, po) # s
    BY <1>4, <1>5
  <2>2. /\ \A x \in Actor \ {a} : x \in Holding(t, po)' <=> x \in Holding(t, po)
        /\ \A x \in Actor \ {a} : x \in Posting(t, po)' <=> x \in Posting(t, po)
    BY <1>6, <1>7, <1>10, <2>1, NextMembers, SetMembers
  <2>3. /\ a \notin Holding(t, po)' /\ (a \in Holding(t, po) <=> t = z /\ po = o)
        /\ a \notin Posting(t, po) /\ (a \in Posting(t, po)' <=> t = z /\ po = o)
    BY <1>1, <1>2, <1>3, <1>6, <1>7, <1>10, <2>1, NextMembers, SetMembers
  <2>4. /\ Holding(t, po) \subseteq Actor /\ Holding(t, po)' \subseteq Actor
        /\ Posting(t, po) \subseteq Actor /\ Posting(t, po)' \subseteq Actor
    BY DEF Holding, Posting, WithToken, CallsAt
  <2> QED
    BY <1>10, <2>1, <2>2, <2>3, <2>4
<1>13. Other(o) \in Side /\ Other(o) # o /\ Other(Other(o)) = o
  BY SideFacts
<1>14. Account(z, o)'
  <2>1. Cardinality(Holding(z, o)') = Cardinality(Holding(z, o)) + (-1)
    <3>1. a \in Holding(z, o) /\ Holding(z, o)' = Holding(z, o) \ {a}
      BY <1>12
    <3>2. IsFiniteSet(Holding(z, o)) /\ Cardinality(Holding(z, o)) \in Nat
      BY SetFacts
    <3>3. Cardinality(Holding(z, o)') = Cardinality(Holding(z, o)) - 1
      BY <3>1, <3>2, OneLess
    <3> QED
      BY <3>2, <3>3
  <2>2. Cardinality(Posting(z, Other(o))') = Cardinality(Posting(z, Other(o))) + 0
        /\ value'[SemOf(z, o)] = value[SemOf(z, o)] + 0
    <3>1. Posting(z, Other(o))' = Posting(z, Other(o)) /\ value'[SemOf(z, o)] = value[SemOf(z, o)]
      BY <1>12, <1>13
    <3>2. Cardinality(Posting(z, Other(o))) \in Nat /\ value[SemOf(z, o)] \in Nat
      BY <1>4, SetFacts
    <3> QED
      BY <3>1, <3>2
  <2>3. -1 \in Int /\ -1 = 0 + (-1) + 0
    OBVIOUS
  <2> QED
    BY <1>6, <1>8, <2>1, <2>2, <2>3, Balanced
<1>15. Account(z, Other(o))'
  <2>1. Cardinality(Holding(z, Other(o))') = Cardinality(Holding(z, Other(o))) + 0
        /\ value'[SemOf(z, Other(o))] = value[SemOf(z, Other(o))] + 0
    <3>1. Holding(z, Other(o))' = Holding(z, Other(o))
          /\ value'[SemOf(z, Other(o))] = value[SemOf(z, Other(o))]
      BY <1>12, <1>13
    <3>2. Cardinality(Holding(z, Other(o))) \in Nat /\ value[SemOf(z, Other(o))] \in Nat
      BY <1>4, <1>13, SetFacts
    <3> QED
      BY <3>1, <3>2
  <2>2. Cardinality(Posting(z, o)') = Cardinality(Posting(z, o)) + 1
    <3>1. a \notin Posting(z, o) /\ Posting(z, o)' = Posting(z, o) \cup {a}
      BY <1>12
    <3> QED
      BY <3>1, SetFacts, OneMore
  <2>3. 1 \in Int /\ 1 = 0 + 0 + 1
    OBVIOUS
  <2> QED
    BY <1>6, <1>8, <1>13, <2>1, <2>2, <2>3, Balanced
<1>16. ASSUME NEW t \in Handed, NEW po \in Side, t # z
       PROVE  Account(t, po)'
  <2>1. Avail(t, po)' = Avail(t, po)
    BY <1>8, <1>12, <1>16 DEF Avail
  <2>2. Unmoved(t, po)
    BY <1>12, <1>16, <2>1, SideFacts DEF Unmoved
  <2> QED
    BY <1>6, <2>2, Undisturbed
<1>17. \A t \in Handed, po \in Side : Account(t, po)'
  BY <1>14, <1>15, <1>16, SideFacts
<1> QED
  BY <1>6, <1>7, <1>9, <1>10, <1>11, <1>17, Assemble

(* The token of a call goes to the other side: into the semaphore, or to    *)
(* whoever sleeps there.                                                    *)
LEMMA PostCalm ==
  ASSUME Calm, CalmInv, NEW a \in Actor, PostTokens(a)
  PROVE  CalmPart'
<1>1. cpu = a /\ call[a].at = "post" /\ call[a].op # "none"
  BY DEF PostTokens, At, CalmInv, CalmPart, InCall, InNone, Side
<1>2. a \in Proc /\ asleep[a] = Awake /\ InCall(a)
  BY <1>1, CallerFacts
<1>3. PICK z \in Handed, o \in Side : z = call[a].slot /\ o = call[a].op
                                      /\ otherTokensOf(a) = SemOf(z, Other(o))
  BY <1>1, CallerFacts
<1>4. /\ Handed \subseteq Slot
      /\ asleep \in [Actor -> SemId \cup {Awake}] /\ value \in [SemId -> Nat]
      /\ \A t \in Handed, po \in Side : SemOf(t, po) \in SemId /\ SemOf(t, po) # Awake
  BY HandedPipes
<1>5. PICK w \in Side : w = Other(o)
  BY SideFacts
<1>6. w # o /\ Other(w) = o /\ \A po \in Side : po = o \/ po = w
  BY <1>5, SideFacts
<1>7. PICK s \in SemId : s = SemOf(z, w)
  BY <1>4
<1>8. UNCHANGED <<pipes, handed, used>> /\ SameSems
  BY DEF PostTokens, table, SameSems
<1>9. /\ \/ call'[a].op = o /\ call'[a].slot = z /\ call'[a].at = "tokens"
         \/ call'[a].op = "none" /\ call'[a].at = "user"
      /\ \A x \in Actor \ {a} : call'[x] = call[x]
  BY <1>3 DEF PostTokens, NoCall, CalmInv, OwnInv, RingInv, CallRecord
<1>10. /\ SemTypes'
       /\ \/ value' = [value EXCEPT ![s] = value[s] + 1] /\ asleep' = asleep
          \/ value' = value /\ \E h \in Actor : asleep[h] = s /\ asleep' = [asleep EXCEPT ![h] = Awake]
  <2>1. semPost(s)
    BY <1>3, <1>5, <1>7 DEF PostTokens
  <2> QED
    BY <2>1, PostStep DEF CalmInv
<1>11. /\ asleep'[a] = Awake
       /\ \A x \in Actor : asleep'[x] = asleep[x] \/ (asleep[x] = s /\ asleep'[x] = Awake)
       /\ \A i \in SemId \ {s} : value'[i] = value[i]
  BY <1>2, <1>4, <1>7, <1>10
<1>12. InCall(a)' \/ InNone(a)'
  <2>1. Handed' = Handed
    BY <1>8 DEF Handed, SlotOf
  <2> QED
    BY <1>2, <1>9, <1>11, <2>1 DEF InCall, InNone
<1>13. \A t \in Handed, po \in Side : SemOf(t, po) = s => t = z /\ po = w
  BY <1>7, HandedFacts DEF CalmInv, CalmPart
<1>14. ASSUME NEW t \in Handed, NEW po \in Side
       PROVE  /\ t \in Slot /\ Avail(t, po)' = Avail(t, po)
              /\ IF t = z /\ po = o THEN a \in Posting(t, po) /\ Posting(t, po)' = Posting(t, po) \ {a}
                 ELSE Posting(t, po)' = Posting(t, po)
              /\ a \notin Holding(t, po) /\ a \notin Holding(t, po)'
              /\ Holding(t, po) \subseteq Actor /\ Holding(t, po)' \subseteq Actor
  <2>1. t \in Slot
    BY <1>4
  <2>2. \A x \in Actor \ {a} : x \in Posting(t, po)' <=> x \in Posting(t, po)
    BY <1>8, <1>9, <2>1, NextMembers, SetMembers
  <2>3. /\ a \notin Posting(t, po)' /\ (a \in Posting(t, po) <=> t = z /\ po = o)
        /\ a \notin Holding(t, po) /\ a \notin Holding(t, po)'
    BY <1>1, <1>3, <1>8, <1>9, <2>1, NextMembers, SetMembers
  <2>4. /\ Holding(t, po) \subseteq Actor /\ Holding(t, po)' \subseteq Actor
        /\ Posting(t, po) \subseteq Actor /\ Posting(t, po)' \subseteq Actor
    BY DEF Holding, Posting, WithToken, CallsAt
  <2>5. Avail(t, po)' = Avail(t, po)
    BY <1>8 DEF Avail
  <2> QED
    BY <2>1, <2>2, <2>3, <2>4, <2>5
<1>15. ASSUME NEW t \in Handed, NEW po \in Side, t # z \/ po # w
       PROVE  SemOf(t, po) # s /\ value'[SemOf(t, po)] = value[SemOf(t, po)]
              /\ Holding(t, po)' = Holding(t, po)
  <2>1. t \in Slot /\ SemOf(t, po) \in SemId /\ SemOf(t, po) # Awake /\ SemOf(t, po) # s
    BY <1>4, <1>13, <1>15
  <2>2. \A x \in Actor \ {a} : x \in Holding(t, po)' <=> x \in Holding(t, po)
    BY <1>8, <1>9, <1>11, <2>1, NextMembers, SetMembers
  <2> QED
    BY <1>11, <1>14, <2>1, <2>2
<1>16. ASSUME NEW t \in Handed, NEW po \in Side, t # z \/ po # w
       PROVE  Account(t, po)'
  <2>1. t # z \/ Other(po) # o
    BY <1>6, <1>16, SideFacts
  <2>2. Posting(t, Other(po))' = Posting(t, Other(po))
    BY <1>14, <2>1, SideFacts
  <2>3. Unmoved(t, po)
    BY <1>14, <1>15, <1>16, <2>2 DEF Unmoved
  <2> QED
    BY <1>8, <2>3, Undisturbed
<1>17. Account(z, w)'
  <2>1. Cardinality(Posting(z, Other(w))') = Cardinality(Posting(z, Other(w))) + (-1)
    <3>1. a \in Posting(z, o) /\ Posting(z, o)' = Posting(z, o) \ {a}
      BY <1>14
    <3>2. IsFiniteSet(Posting(z, o)) /\ Cardinality(Posting(z, o)) \in Nat
      BY SetFacts
    <3>3. Cardinality(Posting(z, o)') = Cardinality(Posting(z, o)) - 1
      BY <3>1, <3>2, OneLess
    <3> QED
      BY <1>6, <3>2, <3>3
  <2>2. Avail(z, w)' = Avail(z, w) + 0
    <3>1. pipes[z].count \in Int /\ PIPE_BUFFER_SIZE \in Int
      BY HandedPipes, PipesAssumption
    <3> QED
      BY <1>14, <3>1 DEF Avail
  <2>3. IsFiniteSet(Holding(z, w)) /\ Cardinality(Holding(z, w)) \in Nat
    BY SetFacts
  <2>4. CASE value' = [value EXCEPT ![s] = value[s] + 1] /\ asleep' = asleep
    <3>1. value'[SemOf(z, w)] = value[SemOf(z, w)] + 1
      BY <1>4, <1>7, <2>4
    <3>2. \A x \in Actor \ {a} : x \in Holding(z, w)' <=> x \in Holding(z, w)
      BY <1>4, <1>8, <1>9, <2>4, NextMembers, SetMembers
    <3>3. Cardinality(Holding(z, w)') = Cardinality(Holding(z, w)) + 0
      BY <1>14, <2>3, <3>2
    <3>4. 1 \in Int /\ -1 \in Int /\ 0 = 1 + 0 + (-1)
      OBVIOUS
    <3> QED
      BY <1>8, <2>1, <2>2, <3>1, <3>3, <3>4, Balanced
  <2>5. ASSUME value' = value, NEW h \in Actor, asleep[h] = s, asleep' = [asleep EXCEPT ![h] = Awake]
        PROVE  Account(z, w)'
    <3>1. call[h].op = w /\ call[h].slot = z /\ call[h].at = "mutex"
      BY <1>7, <2>5, WhoSleeps
    <3>2. h # a
      BY <1>1, <3>1
    <3>3. asleep'[h] = Awake /\ \A x \in Actor \ {h} : asleep'[x] = asleep[x]
      BY <1>4, <2>5
    <3>4. h \notin Holding(z, w)
      BY <1>4, <1>7, <2>5, SetMembers
    <3>5. h \in Holding(z, w)'
      BY <1>4, <1>8, <1>9, <3>1, <3>2, <3>3, NextMembers
    <3>6. \A x \in Actor \ {a, h} : x \in Holding(z, w)' <=> x \in Holding(z, w)
      BY <1>4, <1>8, <1>9, <3>3, NextMembers, SetMembers
    <3>7. Holding(z, w)' = Holding(z, w) \cup {h}
      BY <1>14, <3>4, <3>5, <3>6
    <3>8. Cardinality(Holding(z, w)') = Cardinality(Holding(z, w)) + 1
      BY <2>3, <3>4, <3>7, OneMore
    <3>9. value'[SemOf(z, w)] = value[SemOf(z, w)] + 0
      BY <1>4, <1>7, <2>5
    <3>10. 1 \in Int /\ -1 \in Int /\ 0 = 0 + 1 + (-1)
      OBVIOUS
    <3> QED
      BY <1>8, <2>1, <2>2, <3>8, <3>9, <3>10, Balanced
  <2> QED
    BY <1>10, <2>4, <2>5
<1>18. \A t \in Handed, po \in Side : Account(t, po)'
  BY <1>16, <1>17
<1> QED
  BY <1>8, <1>9, <1>10, <1>11, <1>12, <1>18, Assemble

(* The steps outside the calls change no account of a pipe that stays.      *)
LEMMA StaysBalanced ==
  ASSUME CalmInv, NEW t \in Handed, NEW po \in Side, pipes'[t] = pipes[t], UNCHANGED <<call, asleep>>,
         value'[SemOf(t, po)] = value[SemOf(t, po)]
  PROVE  Account(t, po)'
<1>1. Account(t, po)
  BY DEF CalmInv, CalmPart
<1>2. SemOf(t, po)' = SemOf(t, po)
  BY DEF SemOf
<1>3. Holding(t, po)' = Holding(t, po) /\ Posting(t, Other(po))' = Posting(t, Other(po))
  BY <1>2 DEF Holding, Posting, WithToken, CallsAt
<1> QED
  BY <1>1, <1>2, <1>3 DEF Account, Avail

LEMMA BeginCalm ==
  ASSUME CalmInv, NEW p \in Proc, NEW op \in Side, NEW id \in handed, NEW size, Begin(p, op, id, size)
  PROVE  CalmPart'
<1>1. p \in Actor /\ cpu = p /\ call[p].op = "none" /\ op # "clear"
  BY SideFacts DEF Begin, InUser
<1>2. asleep[p] = Awake /\ call[p].at = "user"
  BY <1>1 DEF CalmInv, CalmPart, InCall, InNone, Side
<1>3. PICK z \in Handed : z = SlotOf(id)
  BY DEF Handed
<1>4. /\ call'[p].op = op /\ call'[p].slot = z /\ call'[p].at = "tokens"
      /\ \A x \in Actor \ {p} : call'[x] = call[x]
  BY <1>1, <1>3 DEF Begin, CalmInv, OwnInv, RingInv
<1>5. UNCHANGED <<pipes, handed, used, value, queued, waiters, asleep, cpu>> /\ SameSems
  BY DEF Begin, table, sems, SameSems
<1>6. SemTypes'
  BY <1>5 DEF SemTypes, CalmInv, CalmPart
<1>7. InCall(p)'
  <2>1. Handed' = Handed
    BY <1>5 DEF Handed, SlotOf
  <2> QED
    BY <1>2, <1>4, <1>5, <2>1 DEF InCall
<1>8. ASSUME NEW t \in Handed, NEW po \in Side
      PROVE  Account(t, po)'
  <2>1. t \in Slot
    BY HandedPipes
  <2>2. /\ \A x \in Actor : x \in Holding(t, po)' <=> x \in Holding(t, po)
        /\ \A x \in Actor : x \in Posting(t, Other(po))' <=> x \in Posting(t, Other(po))
    BY <1>2, <1>4, <1>5, <2>1, NextMembers, SetMembers
  <2>3. /\ Holding(t, po) \subseteq Actor /\ Holding(t, po)' \subseteq Actor
        /\ Posting(t, Other(po)) \subseteq Actor /\ Posting(t, Other(po))' \subseteq Actor
    BY DEF Holding, Posting, WithToken, CallsAt
  <2>4. Avail(t, po)' = Avail(t, po) /\ value'[SemOf(t, po)] = value[SemOf(t, po)]
    BY <1>5 DEF Avail
  <2>5. Unmoved(t, po)
    BY <2>2, <2>3, <2>4 DEF Unmoved
  <2> QED
    BY <1>5, <2>5, Undisturbed
<1> QED
  BY <1>1, <1>4, <1>5, <1>6, <1>7, <1>8, Assemble

LEMMA SwitchCalm ==
  ASSUME CalmInv, Switch \/ UNCHANGED vars
  PROVE  CalmPart'
<1>1. UNCHANGED <<pipes, handed, used, call, value, waiters, asleep>> /\ SameSems
  BY DEF Switch, vars, table, sems, SameSems
<1>2. asleep[Idle] = Awake /\ Idle \in Actor
  BY SideFacts, PipesAssumption DEF CalmInv, CalmPart, InCall, InNone
<1>3. cpu' \in Actor /\ asleep[cpu'] = Awake
  BY <1>2, SideFacts DEF Switch, Ready, vars, CalmInv, CalmPart
<1>4. SemTypes'
  BY <1>1, <1>3 DEF SemTypes, CalmInv, CalmPart
<1>5. \A t \in Handed, po \in Side : Account(t, po)'
  BY <1>1, StaysBalanced
<1>6. InCall(Idle)' \/ InNone(Idle)'
  <2>1. InNone(Idle)
    BY <1>2, PipesAssumption DEF CalmInv, CalmPart, InCall
  <2> QED
    BY <1>1, <2>1 DEF InNone
<1> QED
  BY <1>1, <1>2, <1>4, <1>5, <1>6, Assemble

(* A program's semaphore is not one of a pipe. *)
LEMMA SemOpenCalm ==
  ASSUME CalmInv, SemOpen
  PROVE  CalmPart'
<1>1. PICK s \in UserSems \ used :
        /\ value' = [i \in SemId |-> IF i \in {s} THEN [j \in {s} |-> 1][i] ELSE value[i]]
        /\ used' = used \cup {s}
        /\ UNCHANGED <<pipes, handed, call, waiters, asleep, cpu>>
  BY DEF SemOpen, InitSems
<1>2. SameSems /\ s \in SemId
  <2>1. \A k \in 0 .. NUM_SEMS - 1 : k \in -1 .. NUM_SEMS - 1
    BY PipesAssumption
  <2> QED
    BY <1>1, <2>1, PipesAssumption DEF SameSems, SemId, NoSem
<1>3. value' \in [SemId -> Nat] /\ \A i \in SemId \ {s} : value'[i] = value[i]
  BY <1>1 DEF CalmInv, CalmPart
<1>4. ASSUME NEW t \in Handed, NEW po \in Side
      PROVE  Account(t, po)'
  <2>1. SemOf(t, po) \in used /\ SemOf(t, po) \in SemId
    BY HandedFacts DEF CalmInv, CalmPart
  <2> QED
    BY <1>1, <1>3, <2>1, StaysBalanced
<1>5. Handed' = Handed /\ \A x \in Actor : InCall(x)' <=> InCall(x)
  BY <1>1 DEF Handed, SlotOf, InCall, SemOf
<1> QED
  BY <1>1, <1>2, <1>3, <1>4, <1>5 DEF CalmInv, CalmPart, InNone

(* What createPipe() takes: a closed slot and unused ids, three of them if  *)
(* it returns one.                                                          *)
LEMMA CreateTakes ==
  ASSUME CalmInv, NEW p, createPipe(p)
  PROVE  \E slot \in Slot, done \in SUBSET SemId, n \in Nat :
           /\ ~pipes[slot].isOpen /\ done \cap used = {}
           /\ pipes' = [pipes EXCEPT ![slot] = FreshPipe(n)]
           /\ used' = used \cup done
           /\ value' = [s \in SemId |-> IF s \in done THEN ValueOf(n)[s] ELSE value[s]]
           /\ done \subseteq {n, n + 1, n + 2}
           /\ \/ handed' = handed
              \/ /\ handed' = handed \cup {IF slot = 0 THEN 0 ELSE slot + 2}
                 /\ done = {n, n + 1, n + 2}
           /\ UNCHANGED <<call, waiters, asleep, cpu>>
<1> DEFINE done == {s \in next_sem_id .. next_sem_id + 2 :
                      \A t \in next_sem_id .. s : t < NUM_SEMS /\ t \notin used}
<1>1. PICK n \in Nat : n = next_sem_id
  BY DEF CalmInv, OwnInv, RingInv
<1>2. n \in Int /\ n .. n + 2 = {n, n + 1, n + 2} /\ Cardinality(n .. n + 2) = 3 /\ IsFiniteSet(n .. n + 2)
  <2>1. n \in Int
    OBVIOUS
  <2> QED
    BY <2>1, ThreeIds
<1>3. /\ \A s \in done : s \in Nat /\ s \in n .. s /\ s < NUM_SEMS /\ s \notin used
      /\ done \subseteq n .. n + 2
  BY <1>1
<1>4. PICK slot \in Slot :
        /\ ~pipes[slot].isOpen
        /\ pipes' = [pipes EXCEPT ![slot] = FreshPipe(n)]
        /\ value' = [s \in SemId |-> IF s \in done THEN ValueOf(n)[s] ELSE value[s]]
        /\ used' = used \cup done
        /\ handed' = handedByCreate(slot, done)
        /\ UNCHANGED <<call, waiters, asleep, cpu>>
  BY <1>1 DEF createPipe, InitSems
<1> HIDE DEF done
<1>5. done \in SUBSET SemId /\ done \cap used = {}
  <2>1. NUM_SEMS \in Int /\ \A s \in done : s \in Int /\ -1 <= s /\ s <= NUM_SEMS - 1 /\ s \notin used
    BY <1>3, PipesAssumption
  <2>2. \A s \in done : s \in -1 .. NUM_SEMS - 1
    BY <2>1
  <2> QED
    BY <2>1, <2>2 DEF SemId, NoSem
<1>6. Cardinality(done) = 3 => done = n .. n + 2
  BY <1>2, <1>3, FS_Subset
<1>7. \/ handed' = handed
      \/ /\ handed' = handed \cup {IF slot = 0 THEN 0 ELSE slot + 2}
         /\ done = {n, n + 1, n + 2}
  BY <1>2, <1>4, <1>6 DEF handedByCreate
<1> QED
  BY <1>2, <1>3, <1>4, <1>5, <1>7

LEMMA CreateCalm ==
  ASSUME CalmInv, NEW p, createPipe(p)
  PROVE  CalmPart'
<1>1. PICK slot \in Slot, done \in SUBSET SemId, n \in Nat :
        /\ ~pipes[slot].isOpen /\ done \cap used = {}
        /\ pipes' = [pipes EXCEPT ![slot] = FreshPipe(n)]
        /\ used' = used \cup done
        /\ value' = [s \in SemId |-> IF s \in done THEN ValueOf(n)[s] ELSE value[s]]
        /\ done \subseteq {n, n + 1, n + 2}
        /\ \/ handed' = handed
           \/ /\ handed' = handed \cup {IF slot = 0 THEN 0 ELSE slot + 2}
              /\ done = {n, n + 1, n + 2}
        /\ UNCHANGED <<call, waiters, asleep, cpu>>
  BY CreateTakes
<1>2. slot \in Nat /\ SlotOf(IF slot = 0 THEN 0 ELSE slot + 2) = slot
  BY SlotFacts DEF SlotOf
<1>3. \/ Handed' = Handed
      \/ Handed' = Handed \cup {slot} /\ done = {n, n + 1, n + 2}
  <2>1. \A id : SlotOf(id)' = SlotOf(id)
    BY DEF SlotOf
  <2> QED
    BY <1>1, <1>2, <2>1 DEF Handed
<1>4. /\ pipes'[slot] = FreshPipe(n) /\ \A t \in Slot \ {slot} : pipes'[t] = pipes[t]
  BY <1>1 DEF CalmInv, OwnInv, RingInv
<1>5. \A t \in Handed : t \in Slot \ {slot} /\ pipes'[t] = pipes[t]
  BY <1>1, <1>4, HandedFacts DEF CalmInv, CalmPart
<1>6. value' \in [SemId -> Nat] /\ \A s \in SemId \ done : value'[s] = value[s]
  <2>1. \A s \in done : ValueOf(n)[s] \in Nat
    BY <1>1, PipesAssumption DEF ValueOf
  <2> QED
    BY <1>1, <2>1 DEF CalmInv, CalmPart
<1>7. ASSUME NEW t \in Handed, NEW po \in Side
      PROVE  Account(t, po)'
  <2>1. SemOf(t, po) \in used /\ SemOf(t, po) \in SemId
    BY HandedFacts DEF CalmInv, CalmPart
  <2>2. value'[SemOf(t, po)] = value[SemOf(t, po)]
    BY <1>1, <1>6, <2>1
  <2> QED
    BY <1>1, <1>5, <2>2, StaysBalanced
<1>8. ASSUME NEW po \in Side, done = {n, n + 1, n + 2}
      PROVE  Account(slot, po)'
  <2>1. \A x \in Actor : call[x].op \in Side => call[x].slot # slot
    BY <1>5, SideFacts DEF CalmInv, CalmPart, InCall, InNone
  <2>2. Holding(slot, po)' = {} /\ Posting(slot, Other(po))' = {}
    BY <1>1, <2>1, SideFacts DEF Holding, Posting, WithToken, CallsAt
  <2>3. FreshPipe(n).count = 0 /\ FreshPipe(n).semReaders = n /\ FreshPipe(n).semWriters = n + 1
    BY FreshFacts, NewRings DEF FreshPipe, ClosedPipe
  <2>4. n \in Int /\ n + 1 \in Int /\ n # n + 1 /\ n \in done /\ n + 1 \in done
        /\ n \in SemId /\ n + 1 \in SemId
    BY <1>1, <1>8
  <2>5. value'[n] = 0 /\ value'[n + 1] = PIPE_BUFFER_SIZE
    BY <1>1, <2>4 DEF ValueOf
  <2>6. PIPE_BUFFER_SIZE \in Int /\ Cardinality({}) = 0
    BY PipesAssumption, FS_EmptySet
  <2>7. Avail(slot, po)' = IF po = "read" THEN 0 ELSE PIPE_BUFFER_SIZE - 0
    BY <1>4, <2>3 DEF Avail
  <2>8. SemOf(slot, po)' = IF po = "read" THEN n ELSE n + 1
    BY <1>4, <2>3 DEF SemOf
  <2>9. Avail(slot, po)' = value'[SemOf(slot, po)']
    BY <2>5, <2>6, <2>7, <2>8
  <2>10. value'[SemOf(slot, po)'] \in Int
    BY <2>5, <2>6, <2>8
  <2> QED
    BY <2>2, <2>6, <2>9, <2>10 DEF Account
<1>9. ASSUME NEW x \in Actor, InCall(x)
      PROVE  InCall(x)'
  <2>1. PICK z \in Handed : z = call[x].slot
    BY <1>9 DEF InCall
  <2> QED
    BY <1>1, <1>3, <1>5, <1>9, <2>1 DEF InCall, SemOf
<1>10. \A t \in Handed', po \in Side : Account(t, po)'
  BY <1>3, <1>7, <1>8
<1>11. used' \subseteq SemId
  BY <1>1 DEF CalmInv, CalmPart
<1> QED
  BY <1>1, <1>6, <1>9, <1>10, <1>11 DEF CalmInv, CalmPart, InNone

(* closePipe() of a pipe nobody is inside of. *)
LEMMA CloseCalm ==
  ASSUME Calm, CalmInv, NEW p, NEW id \in handed, closePipe(p, id)
  PROVE  CalmPart'
<1>1. PICK slot \in Handed : slot = SlotOf(id)
  BY DEF Handed
<1>2. slot \in Slot /\ pipes[slot].isOpen
  BY HandedFacts DEF CalmInv, CalmPart
<1> DEFINE mine == SemsOf(slot) \cap used
<1>3. /\ pipes' = [pipes EXCEPT ![slot] = ClosedPipe]
      /\ used' = used \ mine
      /\ value' = [s \in SemId |-> IF s \in mine THEN 0 ELSE value[s]]
      /\ waiters' = [s \in SemId |-> IF s \in mine THEN <<>> ELSE waiters[s]]
      /\ handed' = handed \ {id} /\ UNCHANGED <<asleep, cpu, call>>
  BY <1>1 DEF closePipe
<1>4. \A x \in Actor : call[x].op # "none" => call[x].slot # slot
  BY <1>1 DEF closePipe, Calm, Inside
<1>5. \A t \in Slot \ {slot} : pipes'[t] = pipes[t]
  BY <1>3 DEF CalmInv, OwnInv, RingInv
<1>6. Handed' = Handed \ {slot}
  <2>1. \A jd : SlotOf(jd)' = SlotOf(jd)
    BY DEF SlotOf
  <2>2. \A jd \in handed : SlotOf(jd) = slot => jd = id
    BY <1>1, IdFacts DEF CalmInv, OwnInv
  <2> QED
    BY <1>1, <1>3, <2>1, <2>2 DEF Handed
<1>7. ASSUME NEW t \in Handed'
      PROVE  t \in Handed /\ t \in Slot \ {slot} /\ pipes'[t] = pipes[t]
  BY <1>5, <1>6, <1>7, HandedPipes
<1>8. /\ value' \in [SemId -> Nat] /\ waiters' \in [SemId -> Seq(Actor)]
      /\ \A s \in SemId \ mine : value'[s] = value[s] /\ waiters'[s] = waiters[s]
      /\ \A s \in mine \cap SemId : waiters'[s] = <<>>
  BY <1>3 DEF CalmInv, CalmPart
<1>9. GoodWaiters(waiters', asleep')
  <2>1. GoodWaiters(waiters, asleep)
    BY DEF CalmInv, CalmPart
  <2> HIDE DEF mine
  <2>2. \A s \in SemId : waiters'[s] = <<>> \/ waiters'[s] = waiters[s]
    BY <1>8
  <2>3. asleep' = asleep
    BY <1>3
  <2>4. ASSUME NEW s \in SemId
        PROVE  /\ \A i \in 1 .. Len(waiters'[s]) : asleep'[waiters'[s][i]] = s
               /\ \A i, j \in 1 .. Len(waiters'[s]) : waiters'[s][i] = waiters'[s][j] => i = j
    <3>1. CASE waiters'[s] = <<>>
      BY <3>1
    <3>2. CASE waiters'[s] = waiters[s]
      BY <2>1, <2>3, <3>2 DEF GoodWaiters
    <3> QED
      BY <2>2, <3>1, <3>2
  <2> QED
    BY <1>8, <2>4 DEF GoodWaiters
<1>10. ASSUME NEW t \in Handed', NEW po \in Side
       PROVE  Account(t, po)'
  <2>1. t \in Handed /\ t \in Slot \ {slot} /\ pipes'[t] = pipes[t]
    BY <1>7
  <2>2. SemOf(t, po) \in SemId /\ pipes[t].isOpen
    BY <2>1, HandedFacts DEF CalmInv, CalmPart
  <2>3. SemOf(t, po) \in SemsOf(t)
    BY DEF SemOf, SemsOf
  <2>4. SemsOf(t) \cap SemsOf(slot) = {}
    BY <1>2, <2>1, <2>2, SlotsApart DEF CalmInv, OwnInv
  <2>5. value'[SemOf(t, po)] = value[SemOf(t, po)]
    BY <1>8, <2>2, <2>3, <2>4
  <2> QED
    BY <1>3, <2>1, <2>5, StaysBalanced
<1> HIDE DEF mine
<1>11. ASSUME NEW x \in Actor, InCall(x)
       PROVE  InCall(x)'
  <2>1. PICK z \in Handed : z = call[x].slot /\ call[x].op # "none"
    BY <1>11, SideFacts DEF InCall
  <2>2. z \in Handed' /\ pipes'[z] = pipes[z]
    BY <1>4, <1>5, <1>6, <2>1, HandedPipes
  <2> QED
    BY <1>3, <1>11, <2>1, <2>2 DEF InCall, SemOf
<1> QED
  BY <1>3, <1>8, <1>9, <1>10, <1>11 DEF CalmInv, CalmPart, InNone

LEMMA NextCalm ==
  ASSUME Calm, CalmInv, [Next]_vars
  PROVE  CalmInv'
<1>1. OwnInv'
  BY NextOwn DEF CalmInv
<1>2. CASE Switch \/ UNCHANGED vars
  BY <1>1, <1>2, SwitchCalm DEF CalmInv
<1>3. CASE Create
  BY <1>1, <1>3, CreateCalm DEF CalmInv, Create
<1>4. CASE ClosePipe
  BY <1>1, <1>4, CloseCalm DEF CalmInv, ClosePipe
<1>5. CASE SemOpen
  BY <1>1, <1>5, SemOpenCalm DEF CalmInv
<1>6. CASE ReadOrWrite
  <2>1. PICK p \in Proc : \E op \in May[p] \cap {"read", "write"}, id \in handed, size \in 1 .. MaxSize :
                            Begin(p, op, id, size)
    BY <1>6 DEF ReadOrWrite
  <2> QED
    BY <1>1, <2>1, BeginCalm DEF CalmInv, Side
<1>7. ASSUME NEW a \in Actor, KernelStep(a)
      PROVE  CalmInv'
  BY <1>1, <1>7, TokensCalm, MutexCalm, CriticalCalm, PostCalm DEF KernelStep, CalmInv
<1>8. ~Clear /\ ~KeyPress /\ \A p \in Proc : ~Die(p) /\ ~Awaken(p)
  BY DEF Calm, Clear, KeyPress, Die, Awaken
<1> QED
  BY <1>2, <1>3, <1>4, <1>5, <1>6, <1>7, <1>8 DEF Next

LEMMA InitCalm == Init => CalmInv
<1> SUFFICES ASSUME Init PROVE CalmInv
  OBVIOUS
<1>1. OwnInv
  BY InitOwn
<1>2. /\ handed = {0} /\ used = {0, 1, 2} /\ cpu \in Proc
      /\ pipes = [s \in Slot |-> IF s = 0 THEN FreshPipe(0) ELSE ClosedPipe]
      /\ call = [a \in Actor |-> NoCall] /\ asleep = [a \in Actor |-> Awake]
      /\ value = [s \in SemId |-> IF s \in 0 .. 2 THEN ValueOf(0)[s] ELSE 0]
      /\ waiters = [s \in SemId |-> <<>>]
  BY DEF Init
<1>3. 0 \in SemId /\ 1 \in SemId /\ 2 \in SemId /\ 0 \in Slot
  <2>1. NUM_SEMS \in Int /\ 3 <= NUM_SEMS
    BY PipesAssumption
  <2> QED
    BY <2>1, SlotFacts DEF SemId, NoSem
<1>4. /\ ValueOf(0)[0] = 0 /\ ValueOf(0)[1] = PIPE_BUFFER_SIZE /\ ValueOf(0)[2] = 1
  BY DEF ValueOf
<1>5. value \in [SemId -> Nat] /\ value[0] = 0 /\ value[1] = PIPE_BUFFER_SIZE
  <2>1. \A s \in 0 .. 2 : s = 0 \/ s = 1 \/ s = 2
    OBVIOUS
  <2>2. PIPE_BUFFER_SIZE \in Nat
    BY PipesAssumption
  <2>3. \A s \in 0 .. 2 : ValueOf(0)[s] \in Nat
    BY <1>4, <2>1, <2>2
  <2> QED
    BY <1>2, <1>3, <1>4, <2>3
<1>6. /\ pipes[0].semReaders = 0 /\ pipes[0].semWriters = 1 /\ pipes[0].count = 0
  <2>1. 0 \in Nat /\ 0 + 1 = 1
    OBVIOUS
  <2> QED
    BY <1>2, <1>3, <2>1, FreshFacts, NewRings DEF FreshPipe, ClosedPipe
<1>7. Handed = {0}
  BY <1>2 DEF Handed, SlotOf
<1>8. \A a \in Actor : InNone(a)
  BY <1>2 DEF InNone, NoCall
<1>9. ASSUME NEW op \in Side
      PROVE  Account(0, op)
  <2>1. Holding(0, op) = {} /\ Posting(0, Other(op)) = {}
    BY <1>8, SideFacts DEF Holding, Posting, WithToken, CallsAt, InNone
  <2>2. PIPE_BUFFER_SIZE \in Int /\ Cardinality({}) = 0
    BY PipesAssumption, FS_EmptySet
  <2>3. CASE op = "read"
    BY <1>5, <1>6, <2>1, <2>2, <2>3 DEF Account, Avail, SemOf
  <2>4. CASE op = "write"
    BY <1>5, <1>6, <2>1, <2>2, <2>4 DEF Account, Avail, SemOf
  <2> QED
    BY <2>3, <2>4 DEF Side
<1>10. waiters \in [SemId -> Seq(Actor)] /\ GoodWaiters(waiters, asleep)
  BY <1>2 DEF GoodWaiters
<1>11. cpu \in Actor /\ asleep[cpu] = Awake /\ asleep \in [Actor -> SemId \cup {Awake}]
  BY <1>2, SideFacts
<1> QED
  BY <1>1, <1>2, <1>3, <1>5, <1>7, <1>8, <1>9, <1>10, <1>11 DEF CalmInv, CalmPart

(* Each byte of a pipe is one token of its readers, and each free place one *)
(* of its writers, at every step of every interleaving of readPipe(),       *)
(* writePipe(), createPipe() and closePipe(), whatever the sizes and however*)
(* many processes and pipes there are.  Calm leaves out what is known to    *)
(* break an account, and nothing else: the interrupt that writes in a       *)
(* sleeper's name, a kill or a block by pid that takes a token along, a     *)
(* wait() without memory for its node, clearPipe(), which resets the count  *)
(* and not the semaphores, and closePipe() under a call.                    *)
THEOREM BytesAreTokens == ASSUME Calm PROVE Spec => []TokensMatchBytes
<1>1. Init => CalmInv
  BY InitCalm
<1>2. CalmInv /\ [Next]_vars => CalmInv'
  BY NextCalm
<1>3. CalmInv => TokensMatchBytes
  BY CalmImplies
<1> QED
  BY <1>1, <1>2, <1>3, PTL DEF Spec

(* So the tests of count in the critical sections never fail: whoever has a *)
(* token finds its byte or its place, and no byte is dropped or short read. *)
THEOREM NoByteIsSkipped == ASSUME Calm PROVE Spec => []NothingSkipped
<1>1. Init => CalmInv
  BY InitCalm
<1>2. CalmInv /\ [Next]_vars => CalmInv'
  BY NextCalm
<1>3. CalmInv => NothingSkipped
  BY CalmImplies
<1> QED
  BY <1>1, <1>2, <1>3, PTL DEF Spec
=============================================================================
