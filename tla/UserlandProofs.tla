----------------------------- MODULE UserlandProofs -----------------------------
(***************************************************************************)
(* Proofs about the programs above the system calls.  test_sync: with the  *)
(* semaphore the counters cancel out, for any number of rounds.  The       *)
(* shell: for any command lines, number of children and size of the pipe,  *)
(* it frees the blocks of a line once and closes a pipe after its users.   *)
(* wait_seconds(): for any calendar and width of int, a wait of less than  *)
(* a day is as long as was asked.                                          *)
(***************************************************************************)
EXTENDS Shell, TestSync, Clock, TLAPS

-----------------------------------------------------------------------------
(* test_sync.                                                               *)
CounterAt == {"none", "loop", "read", "write", "post", "dead"}

SyncTypes ==
  /\ global \in Int
  /\ counter \in [Counter -> [at: CounterAt, i: Nat, aux: Int]]
  /\ tester \in [step: {"open", "create", "wait", "blocked", "close", "printed"}, child: Counter]
  /\ early \in BOOLEAN
  /\ value \in [Semaphore -> Nat] /\ waiters \in [Semaphore -> Seq(Client)]
  /\ asleep \in [Client -> Semaphore \cup {Awake}]

(* The parent: whom it has not created yet, and whom it has waited for.     *)
TesterPart ==
  /\ tester.step = "open" => \A c \in Counter : counter[c].at = "none"
  /\ tester.step = "create" => \A c \in Counter : c >= tester.child => counter[c].at = "none"
  /\ tester.step \in {"wait", "blocked"} /\ ~early =>
       \A c \in Counter : c < tester.child => counter[c].at = "dead"
  /\ tester.step \in {"close", "printed"} /\ ~early => \A c \in Counter : counter[c].at = "dead"

Inside(c) == counter[c].at \in {"read", "write", "post"} /\ asleep[c] = Awake

CountersExclude ==
  /\ value[SEM_ID] \in {0, 1}
  /\ value[SEM_ID] = 1 => \A c \in Counter : ~Inside(c)
  /\ \A c, d \in Counter : Inside(c) /\ Inside(d) => c = d

(* The rounds a counter has written, and the number they make together.     *)
Written(c) == counter[c].i + (IF counter[c].at = "post" THEN 1 ELSE 0)

SumPart ==
  /\ global = Written(2) - Written(1) + Written(4) - Written(3)
  /\ \A c \in Counter :
       /\ counter[c].at = "none" => counter[c].i = 0
       /\ counter[c].at = "dead" => counter[c].i = Iterations
       /\ counter[c].at \in {"write", "post"} => asleep[c] = Awake
       /\ counter[c].at = "write" => counter[c].aux = global

SyncInv == SyncTypes /\ TesterPart /\ CountersExclude /\ SumPart

LEMMA Counters ==
  /\ Counter = {1, 2, 3, 4} /\ Counter \subseteq Client /\ SEM_ID \in Semaphore /\ SEM_ID # Awake
  /\ inc(1) = -1 /\ inc(2) = 1 /\ inc(3) = -1 /\ inc(4) = 1
<1>1. Counter = {1, 2, 3, 4}
  BY DEF Counter, TOTAL_PAIR_PROCESSES
<1> QED
  BY <1>1, TestSyncAssumption DEF inc

(* A counter's step keeps the sum when it changes its own share of it.      *)
LEMMA SumKept ==
  ASSUME SyncTypes, SyncTypes', SumPart, NEW c \in Counter,
         \A d \in Counter \ {c} : counter'[d] = counter[d],
         global' - global = inc(c) * (Written(c)' - Written(c))
  PROVE  global' = Written(2)' - Written(1)' + Written(4)' - Written(3)'
<1>1. \A d \in Counter : Written(d) \in Int /\ Written(d)' \in Int
  <2>1. \A d \in Counter : counter[d].i \in Nat /\ counter'[d].i \in Nat
    BY DEF SyncTypes
  <2> QED
    BY <2>1 DEF Written
<1>2. \A d \in Counter \ {c} : Written(d)' = Written(d)
  BY DEF Written
<1>3. global \in Int /\ global' \in Int
  BY DEF SyncTypes
<1> PICK g, h, w1, w2, w3, w4, v1, v2, v3, v4 :
      /\ g = global /\ h = global'
      /\ w1 = Written(1) /\ w2 = Written(2) /\ w3 = Written(3) /\ w4 = Written(4)
      /\ v1 = Written(1)' /\ v2 = Written(2)' /\ v3 = Written(3)' /\ v4 = Written(4)'
  OBVIOUS
<1>4. /\ w1 \in Int /\ w2 \in Int /\ w3 \in Int /\ w4 \in Int
      /\ v1 \in Int /\ v2 \in Int /\ v3 \in Int /\ v4 \in Int
      /\ g = w2 - w1 + w4 - w3 /\ g \in Int /\ h \in Int
  BY <1>1, <1>3, Counters DEF SumPart
<1>5. CASE c = 1
  <2>1. v2 = w2 /\ v3 = w3 /\ v4 = w4 /\ h - g = (-1) * (v1 - w1)
    BY <1>2, <1>5, Counters
  <2> QED
    BY <1>3, <1>4, <2>1
<1>6. CASE c = 2
  <2>1. v1 = w1 /\ v3 = w3 /\ v4 = w4 /\ h - g = 1 * (v2 - w2)
    BY <1>2, <1>6, Counters
  <2> QED
    BY <1>3, <1>4, <2>1
<1>7. CASE c = 3
  <2>1. v1 = w1 /\ v2 = w2 /\ v4 = w4 /\ h - g = (-1) * (v3 - w3)
    BY <1>2, <1>7, Counters
  <2> QED
    BY <1>3, <1>4, <2>1
<1>8. CASE c = 4
  <2>1. v1 = w1 /\ v2 = w2 /\ v3 = w3 /\ h - g = 1 * (v4 - w4)
    BY <1>2, <1>8, Counters
  <2> QED
    BY <1>3, <1>4, <2>1
<1> QED
  BY <1>5, <1>6, <1>7, <1>8, Counters

LEMMA ExcludeKept ==
  ASSUME CountersExclude, value'[SEM_ID] = value[SEM_ID],
         \A c \in Counter : Inside(c)' => Inside(c)
  PROVE  CountersExclude'
BY DEF CountersExclude, SEM_ID

LEMMA ProceedsWell ==
  ASSUME SyncTypes, NEW step, Proceed(step)
  PROVE  \/ tester.child < 4 /\ tester' = [step |-> tester.step, child |-> tester.child + 1]
            /\ tester.child + 1 \in Counter /\ \A c \in Counter : c < tester.child + 1 => c <= tester.child
         \/ tester.child = 4 /\ tester' = [step |-> step, child |-> 1]
<1>1. tester.child \in {1, 2, 3, 4} /\ Counter = {1, 2, 3, 4} /\ 2 * TOTAL_PAIR_PROCESSES = 4
  BY Counters DEF SyncTypes, TOTAL_PAIR_PROCESSES
<1>2. tester.child \in {1, 2, 3} => tester' = [step |-> tester.step, child |-> tester.child + 1]
  BY <1>1 DEF Proceed, Next_
<1>3. tester.child = 4 => tester' = [step |-> step, child |-> 1]
  BY <1>1 DEF Proceed, Next_
<1> QED
  BY <1>1, <1>2, <1>3

LEMMA OpenCountedHolds ==
  ASSUME UseSem, SyncInv, OpenCounted
  PROVE  SyncInv'
<1>1. /\ tester.step = "open" /\ tester' = [step |-> "create", child |-> 1]
      /\ value' = [value EXCEPT ![SEM_ID] = 1] /\ global' = 0
      /\ UNCHANGED <<waiters, asleep, counter, early>>
  BY DEF OpenCounted, Next_, Open
<1>2. SyncTypes'
  BY <1>1, Counters DEF SyncInv, SyncTypes
<1>3. \A c \in Counter : counter[c].at = "none" /\ counter[c].i = 0
  BY <1>1 DEF SyncInv, TesterPart, SumPart
<1>4. TesterPart'
  BY <1>1, <1>3 DEF TesterPart
<1>5. CountersExclude'
  BY <1>1, <1>2, <1>3, Counters DEF CountersExclude, Inside, SyncInv, SyncTypes
<1>6. SumPart'
  BY <1>1, <1>3, Counters DEF SumPart, Written
<1> QED
  BY <1>2, <1>4, <1>5, <1>6 DEF SyncInv

LEMMA CreateCounterHolds ==
  ASSUME SyncInv, CreateCounter
  PROVE  SyncInv'
<1> PICK c \in Counter : c = tester.child
  BY DEF SyncInv, SyncTypes
<1>1. /\ tester.step = "create" /\ counter' = [counter EXCEPT ![c].at = "loop"] /\ Proceed("wait")
      /\ UNCHANGED <<global, early, value, queued, waiters, asleep>>
  BY DEF CreateCounter, semaphores
<1>2. counter[c].at = "none" /\ counter[c].i = 0
  BY <1>1, Counters DEF SyncInv, TesterPart, SumPart
<1>3. /\ counter' \in [Counter -> [at: CounterAt, i: Nat, aux: Int]]
      /\ counter'[c].at = "loop" /\ counter'[c].i = 0
      /\ \A d \in Counter \ {c} : counter'[d] = counter[d]
  BY <1>1, <1>2 DEF SyncInv, SyncTypes, CounterAt
<1>4. \/ c < 4 /\ tester' = [step |-> "create", child |-> c + 1] /\ c + 1 \in Counter
      \/ c = 4 /\ tester' = [step |-> "wait", child |-> 1] /\ 1 \in Counter
  BY <1>1, ProceedsWell, Counters DEF SyncInv
<1>5. SyncTypes'
  BY <1>1, <1>3, <1>4 DEF SyncInv, SyncTypes
<1>6. TesterPart'
  BY <1>1, <1>3, <1>4, Counters DEF SyncInv, TesterPart
<1>7. CountersExclude'
  <2>1. \A d \in Counter : Inside(d)' => Inside(d)
    BY <1>1, <1>3 DEF Inside
  <2> QED
    BY <1>1, <2>1, ExcludeKept DEF SyncInv
<1>8. SumPart'
  <2>1. \A d \in Counter : Written(d)' = Written(d)
    BY <1>2, <1>3 DEF Written
  <2>2. global' = Written(2)' - Written(1)' + Written(4)' - Written(3)'
    BY <1>1, <2>1, Counters DEF SyncInv, SumPart
  <2> QED
    BY <1>1, <1>3, <2>2 DEF SyncInv, SumPart
<1> QED
  BY <1>5, <1>6, <1>7, <1>8 DEF SyncInv

LEMMA WaitForCounterHolds ==
  ASSUME SyncInv, WaitForCounter
  PROVE  SyncInv'
<1> PICK c \in Counter : c = tester.child
  BY DEF SyncInv, SyncTypes
<1>1. UNCHANGED <<global, counter, value, queued, waiters, asleep>>
  BY DEF WaitForCounter, semaphores
<1>2. \/ tester.step = "wait" /\ counter[c].at = "dead" /\ early' = early /\ Proceed("close")
      \/ tester.step = "wait" /\ early' = TRUE /\ Proceed("close")
      \/ tester.step = "wait" /\ early' = early /\ tester' = [step |-> "blocked", child |-> c]
      \/ /\ tester.step = "blocked" /\ counter[c].at = "dead" /\ early' = early
         /\ IF c = 4 THEN tester' = [step |-> "close", child |-> 1]
            ELSE tester' = [step |-> "wait", child |-> c + 1]
  BY DEF WaitForCounter, Next_, TOTAL_PAIR_PROCESSES
<1>3. Proceed("close") =>
        \/ c < 4 /\ tester' = [step |-> tester.step, child |-> c + 1] /\ c + 1 \in Counter
        \/ c = 4 /\ tester' = [step |-> "close", child |-> 1]
  BY ProceedsWell DEF SyncInv
<1>4. \/ /\ tester'.step = "wait" /\ tester' = [step |-> "wait", child |-> c + 1] /\ c + 1 \in Counter
         /\ early' = TRUE \/ (early' = early /\ counter[c].at = "dead")
      \/ /\ tester' = [step |-> "close", child |-> 1] /\ c = 4
         /\ early' = TRUE \/ (early' = early /\ counter[c].at = "dead")
      \/ tester' = [step |-> "blocked", child |-> c] /\ early' = early
  BY <1>2, <1>3, Counters
<1>5. tester.step \in {"wait", "blocked"} /\ 1 \in Counter
  BY <1>2, Counters
<1>6. SyncTypes'
  <2>1. early' \in BOOLEAN
    BY <1>4 DEF SyncInv, SyncTypes
  <2>2. tester' \in [step: {"open", "create", "wait", "blocked", "close", "printed"}, child: Counter]
    BY <1>4, <1>5
  <2> QED
    BY <1>1, <2>1, <2>2 DEF SyncInv, SyncTypes
<1>7. TesterPart'
  <2>1. early \in BOOLEAN /\ (~early => \A d \in Counter : d < c => counter[d].at = "dead")
    BY <1>5 DEF SyncInv, SyncTypes, TesterPart
  <2> QED
    BY <1>1, <1>4, <2>1, Counters DEF TesterPart
<1>8. CountersExclude' /\ SumPart'
  <2>1. CountersExclude'
    BY <1>1, ExcludeKept DEF SyncInv, Inside
  <2>2. \A d \in Counter : Written(d)' = Written(d)
    BY <1>1 DEF Written
  <2> QED
    BY <1>1, <2>1, <2>2, Counters DEF SyncInv, SumPart
<1> QED
  BY <1>6, <1>7, <1>8 DEF SyncInv

LEMMA CloseCountedHolds ==
  ASSUME UseSem, SyncInv, CloseCounted
  PROVE  SyncInv'
<1>1. /\ tester.step = "close" /\ tester' = [step |-> "printed", child |-> 1]
      /\ value' = [value EXCEPT ![SEM_ID] = 0] /\ waiters' = [waiters EXCEPT ![SEM_ID] = <<>>]
      /\ UNCHANGED <<asleep, global, counter, early>>
  BY DEF CloseCounted, Next_, Close
<1>2. SyncTypes'
  BY <1>1, Counters DEF SyncInv, SyncTypes
<1>3. TesterPart'
  BY <1>1 DEF SyncInv, TesterPart
<1>4. CountersExclude'
  BY <1>1, Counters DEF SyncInv, SyncTypes, CountersExclude, Inside
<1>5. SumPart'
  <2>1. \A d \in Counter : Written(d)' = Written(d)
    BY <1>1 DEF Written
  <2> QED
    BY <1>1, <2>1, Counters DEF SyncInv, SumPart
<1> QED
  BY <1>2, <1>3, <1>4, <1>5 DEF SyncInv

(* A counter that goes from one place to another, neither of them "none"    *)
(* nor a death, leaves the parent's part alone.                             *)
LEMMA TesterKept ==
  ASSUME SyncInv, NEW c \in Counter, counter[c].at \notin {"none", "dead"},
         \A d \in Counter \ {c} : counter'[d] = counter[d], UNCHANGED <<tester, early>>
  PROVE  TesterPart'
BY DEF SyncInv, TesterPart

LEMMA WaitCountedHolds ==
  ASSUME UseSem, SyncInv, NEW c \in Counter, WaitCounted(c), UNCHANGED <<global, tester, early>>
  PROVE  SyncInv'
<1>1. /\ asleep[c] = Awake /\ counter[c].at = "loop" /\ counter' = [counter EXCEPT ![c].at = "read"]
      /\ WaitTakes(SEM_ID) \/ WaitSleeps(SEM_ID, c, FALSE)
  BY DEF WaitCounted, Moves
<1>2. /\ counter' \in [Counter -> [at: CounterAt, i: Nat, aux: Int]]
      /\ counter'[c].at = "read" /\ counter'[c].i = counter[c].i
      /\ \A d \in Counter \ {c} : counter'[d] = counter[d]
  BY <1>1 DEF SyncInv, SyncTypes, CounterAt
<1>3. c \in Client /\ SEM_ID \in Semaphore /\ SEM_ID # Awake /\ Counter \subseteq Client
  BY Counters
<1>4. \/ /\ value[SEM_ID] = 1 /\ value'[SEM_ID] = 0 /\ UNCHANGED <<waiters, asleep>>
         /\ value' \in [Semaphore -> Nat]
      \/ /\ value[SEM_ID] = 0 /\ value' = value /\ waiters' \in [Semaphore -> Seq(Client)]
         /\ asleep' = [asleep EXCEPT ![c] = SEM_ID]
  <2>1. CASE WaitTakes(SEM_ID)
    <3>0. value[SEM_ID] = 1 /\ value[SEM_ID] - 1 = 0
      BY <2>1 DEF WaitTakes, SyncInv, CountersExclude
    <3>1. value[SEM_ID] = 1 /\ value' = [value EXCEPT ![SEM_ID] = 0] /\ UNCHANGED <<waiters, asleep>>
      BY <2>1, <3>0 DEF WaitTakes
    <3> QED
      BY <1>3, <3>1 DEF SyncInv, SyncTypes
  <2>2. CASE WaitSleeps(SEM_ID, c, FALSE)
    BY <1>3, <2>2 DEF WaitSleeps, Enqueued, SyncInv, SyncTypes
  <2> QED
    BY <1>1, <2>1, <2>2
<1>5. /\ asleep' \in [Client -> Semaphore \cup {Awake}]
      /\ \A d \in Counter \ {c} : asleep'[d] = asleep[d]
  BY <1>3, <1>4 DEF SyncInv, SyncTypes
<1>6. SyncTypes'
  BY <1>2, <1>4, <1>5 DEF SyncInv, SyncTypes
<1>7. TesterPart'
  BY <1>1, <1>2, TesterKept
<1>8. CountersExclude'
  <2>1. \A d \in Counter \ {c} : Inside(d)' => Inside(d)
    BY <1>2, <1>5 DEF Inside
  <2>2. CASE value[SEM_ID] = 1 /\ value'[SEM_ID] = 0
    BY <2>1, <2>2 DEF SyncInv, CountersExclude, SEM_ID
  <2>3. CASE value' = value /\ asleep' = [asleep EXCEPT ![c] = SEM_ID]
    <3>1. ~Inside(c)'
      BY <1>3, <2>3 DEF Inside, SyncInv, SyncTypes
    <3> QED
      BY <2>1, <2>3, <3>1, ExcludeKept DEF SyncInv
  <2> QED
    BY <1>4, <2>2, <2>3
<1>9. SumPart'
  <2>1. \A d \in Counter : Written(d)' = Written(d)
    BY <1>1, <1>2 DEF Written
  <2>2. global' = Written(2)' - Written(1)' + Written(4)' - Written(3)'
    BY <2>1, Counters DEF SyncInv, SumPart
  <2> QED
    BY <1>2, <1>5, <2>2 DEF SyncInv, SumPart
<1> QED
  BY <1>6, <1>7, <1>8, <1>9 DEF SyncInv

LEMMA ReadCountedHolds ==
  ASSUME SyncInv, NEW c \in Counter, ReadCounted(c), UNCHANGED <<global, tester, early>>
  PROVE  SyncInv'
<1>1. /\ asleep[c] = Awake /\ counter[c].at = "read"
      /\ counter' = [counter EXCEPT ![c] = [counter[c] EXCEPT !.at = "write", !.aux = global]]
      /\ UNCHANGED <<value, queued, waiters, asleep>>
  BY DEF ReadCounted, semaphores, SyncInv, SyncTypes
<1>2. /\ counter' \in [Counter -> [at: CounterAt, i: Nat, aux: Int]]
      /\ counter'[c].at = "write" /\ counter'[c].i = counter[c].i /\ counter'[c].aux = global
      /\ \A d \in Counter \ {c} : counter'[d] = counter[d]
  BY <1>1 DEF SyncInv, SyncTypes, CounterAt
<1>3. SyncTypes'
  BY <1>1, <1>2 DEF SyncInv, SyncTypes
<1>4. TesterPart'
  BY <1>1, <1>2, TesterKept
<1>5. CountersExclude'
  <2>1. \A d \in Counter : Inside(d)' => Inside(d)
    BY <1>1, <1>2 DEF Inside
  <2> QED
    BY <1>1, <2>1, ExcludeKept DEF SyncInv
<1>6. SumPart'
  <2>1. \A d \in Counter : Written(d)' = Written(d)
    BY <1>1, <1>2 DEF Written
  <2>2. global' = Written(2)' - Written(1)' + Written(4)' - Written(3)'
    BY <2>1, Counters DEF SyncInv, SumPart
  <2> QED
    BY <1>1, <1>2, <2>2 DEF SyncInv, SumPart
<1> QED
  BY <1>3, <1>4, <1>5, <1>6 DEF SyncInv

LEMMA WriteCountedHolds ==
  ASSUME SyncInv, NEW c \in Counter, WriteCounted(c), UNCHANGED <<tester, early>>
  PROVE  SyncInv'
<1>1. /\ asleep[c] = Awake /\ counter[c].at = "write" /\ counter' = [counter EXCEPT ![c].at = "post"]
      /\ global' = counter[c].aux + inc(c) /\ UNCHANGED <<value, queued, waiters, asleep>>
  BY DEF WriteCounted, Moves, semaphores
<1>2. /\ counter' \in [Counter -> [at: CounterAt, i: Nat, aux: Int]]
      /\ counter'[c].at = "post" /\ counter'[c].i = counter[c].i
      /\ \A d \in Counter \ {c} : counter'[d] = counter[d]
  BY <1>1 DEF SyncInv, SyncTypes, CounterAt
<1>3. global' = global + inc(c) /\ inc(c) \in Int /\ global \in Int /\ global' \in Int
  BY <1>1 DEF SyncInv, SyncTypes, SumPart, inc
<1>4. SyncTypes'
  BY <1>1, <1>2, <1>3 DEF SyncInv, SyncTypes
<1>5. TesterPart'
  BY <1>1, <1>2, TesterKept
<1>6. CountersExclude'
  <2>1. \A d \in Counter : Inside(d)' => Inside(d)
    BY <1>1, <1>2 DEF Inside
  <2> QED
    BY <1>1, <2>1, ExcludeKept DEF SyncInv
<1>7. SumPart'
  <2>1. Written(c)' - Written(c) = 1
    <3>1. counter[c].i \in Nat
      BY DEF SyncInv, SyncTypes
    <3> QED
      BY <1>1, <1>2, <3>1 DEF Written
  <2>2. global' - global = inc(c) * (Written(c)' - Written(c))
    <3>1. global' - global = inc(c) * 1
      BY <1>3
    <3> QED
      BY <2>1, <3>1
  <2>3. global' = Written(2)' - Written(1)' + Written(4)' - Written(3)'
    BY <1>2, <1>4, <2>2, SumKept DEF SyncInv
  <2>4. \A d \in Counter \ {c} : counter[d].at # "write"
    <3>1. ASSUME NEW d \in Counter \ {c}, counter[d].at = "write"
          PROVE  FALSE
      <4>1. Inside(c) /\ Inside(d)
        BY <1>1, <3>1 DEF Inside, SyncInv, SumPart
      <4> QED
        BY <4>1 DEF SyncInv, CountersExclude
    <3> QED
      BY <3>1
  <2> QED
    BY <1>1, <1>2, <2>3, <2>4 DEF SyncInv, SumPart
<1> QED
  BY <1>4, <1>5, <1>6, <1>7 DEF SyncInv

LEMMA PostCountedHolds ==
  ASSUME UseSem, SyncInv, NEW c \in Counter, PostCounted(c), UNCHANGED <<global, tester, early>>
  PROVE  SyncInv'
<1>1. /\ asleep[c] = Awake /\ counter[c].at = "post" /\ Post(SEM_ID)
      /\ counter' = [counter EXCEPT ![c] = [counter[c] EXCEPT !.at = "loop", !.i = counter[c].i + 1]]
  BY DEF PostCounted, SyncInv, SyncTypes
<1>2. /\ counter' \in [Counter -> [at: CounterAt, i: Nat, aux: Int]]
      /\ counter'[c].at = "loop" /\ counter'[c].i = counter[c].i + 1 /\ counter[c].i \in Nat
      /\ \A d \in Counter \ {c} : counter'[d] = counter[d]
  <2>1. counter \in [Counter -> [at: CounterAt, i: Nat, aux: Int]] /\ counter[c].i \in Nat
    BY DEF SyncInv, SyncTypes
  <2>2. counter[c].i + 1 \in Nat
    BY <2>1
  <2>3. [counter[c] EXCEPT !.at = "loop", !.i = counter[c].i + 1] \in [at: CounterAt, i: Nat, aux: Int]
    BY <2>1, <2>2 DEF CounterAt
  <2> QED
    BY <1>1, <2>1, <2>3
<1>3. SEM_ID \in Semaphore /\ SEM_ID # Awake /\ Counter \subseteq Client
      /\ value[SEM_ID] = 0 /\ \A d \in Counter : Inside(d) => d = c
  BY <1>1, Counters DEF SyncInv, CountersExclude, Inside
<1>4. \/ value' = [value EXCEPT ![SEM_ID] = 1] /\ UNCHANGED <<waiters, asleep>>
      \/ /\ value' = value /\ waiters' \in [Semaphore -> Seq(Client)]
         /\ \E h \in Client : asleep' = [asleep EXCEPT ![h] = Awake]
  <2>1. waiters[SEM_ID] \in Seq(Client) /\ value[SEM_ID] + 1 = 1
    BY <1>3 DEF SyncInv, SyncTypes
  <2>2. CASE waiters[SEM_ID] = <<>>
    BY <1>1, <2>1, <2>2 DEF Post
  <2>3. CASE waiters[SEM_ID] # <<>>
    <3>1. Head(waiters[SEM_ID]) \in Client /\ Tail(waiters[SEM_ID]) \in Seq(Client)
      BY <2>1, <2>3
    <3>2. value' = value /\ waiters' = [waiters EXCEPT ![SEM_ID] = Tail(waiters[SEM_ID])]
          /\ asleep' = [asleep EXCEPT ![Head(waiters[SEM_ID])] = Awake]
      BY <1>1, <2>3 DEF Post
    <3>3. waiters' \in [Semaphore -> Seq(Client)]
      BY <3>1, <3>2 DEF SyncInv, SyncTypes
    <3> QED
      BY <3>1, <3>2, <3>3
  <2> QED
    BY <2>2, <2>3
<1>5. SyncTypes' /\ \A d \in Client : asleep'[d] = asleep[d] \/ asleep'[d] = Awake
  <2>1. value' \in [Semaphore -> Nat] /\ waiters' \in [Semaphore -> Seq(Client)]
    <3>1. value \in [Semaphore -> Nat] /\ waiters \in [Semaphore -> Seq(Client)]
      BY DEF SyncInv, SyncTypes
    <3>2. [value EXCEPT ![SEM_ID] = 1] \in [Semaphore -> Nat]
      BY <3>1
    <3> QED
      BY <1>4, <3>1, <3>2
  <2>2. /\ asleep' \in [Client -> Semaphore \cup {Awake}]
        /\ \A d \in Client : asleep'[d] = asleep[d] \/ asleep'[d] = Awake
    BY <1>4 DEF SyncInv, SyncTypes
  <2>3. global' \in Int /\ tester' = tester /\ early' \in BOOLEAN
    BY DEF SyncInv, SyncTypes
  <2> QED
    BY <1>2, <2>1, <2>2, <2>3 DEF SyncInv, SyncTypes
<1>6. TesterPart'
  BY <1>1, <1>2, TesterKept
<1>7. CountersExclude'
  <2>1. ~Inside(c)'
    BY <1>2 DEF Inside
  <2>2. CASE value' = [value EXCEPT ![SEM_ID] = 1] /\ UNCHANGED <<waiters, asleep>>
    <3>1. \A d \in Counter : ~Inside(d)'
      BY <1>2, <1>3, <2>1, <2>2 DEF Inside
    <3> QED
      BY <1>3, <2>2, <3>1 DEF CountersExclude, SyncInv, SyncTypes, SEM_ID
  <2>3. ASSUME value' = value, NEW h \in Client, asleep' = [asleep EXCEPT ![h] = Awake]
        PROVE  CountersExclude'
    <3>1. \A d \in Counter : Inside(d)' => d = h
      BY <1>2, <1>3, <2>1, <2>3 DEF Inside, SyncInv, SyncTypes
    <3> QED
      BY <1>3, <2>3, <3>1 DEF CountersExclude, SEM_ID
  <2> QED
    BY <1>4, <2>2, <2>3
<1>8. SumPart'
  <2>1. \A d \in Counter : Written(d)' = Written(d)
    <3>1. Written(c)' = Written(c)
      BY <1>1, <1>2 DEF Written
    <3> QED
      BY <1>2, <3>1 DEF Written
  <2>2. global' = Written(2)' - Written(1)' + Written(4)' - Written(3)'
    BY <2>1, Counters DEF SyncInv, SumPart
  <2> QED
    BY <1>2, <1>3, <1>5, <2>2 DEF SyncInv, SumPart
<1> QED
  BY <1>5, <1>6, <1>7, <1>8 DEF SyncInv

LEMMA EndCounterHolds ==
  ASSUME SyncInv, NEW c \in Counter, EndCounter(c), UNCHANGED <<global, tester, early>>
  PROVE  SyncInv'
<1>1. /\ counter[c].i = Iterations /\ counter[c].at = "loop"
      /\ counter' = [counter EXCEPT ![c].at = "dead"]
      /\ UNCHANGED <<value, queued, waiters, asleep>>
  BY DEF EndCounter, Moves, semaphores
<1>2. /\ counter' \in [Counter -> [at: CounterAt, i: Nat, aux: Int]]
      /\ counter'[c].at = "dead" /\ counter'[c].i = counter[c].i
      /\ \A d \in Counter \ {c} : counter'[d] = counter[d]
  BY <1>1 DEF SyncInv, SyncTypes, CounterAt
<1>3. SyncTypes'
  BY <1>1, <1>2 DEF SyncInv, SyncTypes
<1>4. TesterPart'
  BY <1>1, <1>2, TesterKept
<1>5. CountersExclude'
  <2>1. \A d \in Counter : Inside(d)' => Inside(d)
    BY <1>1, <1>2 DEF Inside
  <2> QED
    BY <1>1, <2>1, ExcludeKept DEF SyncInv
<1>6. SumPart'
  <2>1. \A d \in Counter : Written(d)' = Written(d)
    BY <1>1, <1>2 DEF Written
  <2>2. global' = Written(2)' - Written(1)' + Written(4)' - Written(3)'
    BY <2>1, Counters DEF SyncInv, SumPart
  <2> QED
    BY <1>1, <1>2, <2>2 DEF SyncInv, SumPart
<1> QED
  BY <1>3, <1>4, <1>5, <1>6 DEF SyncInv

LEMMA SyncInvariant == ASSUME UseSem PROVE SyncSpec => []SyncInv
<1>1. SyncInit /\ NoSemaphores => SyncInv
  <2> SUFFICES ASSUME SyncInit, NoSemaphores
               PROVE  SyncInv
    OBVIOUS
  <2>1. SyncTypes
    <3>1. global \in Int /\ early \in BOOLEAN
      <4>1. global = 0 /\ early = FALSE
        BY DEF SyncInit
      <4>2. global \in Int
        BY <4>1, SMT
      <4>3. early \in BOOLEAN
        BY <4>1, Zenon
      <4> QED
        BY <4>2, <4>3
    <3>2. counter \in [Counter -> [at: CounterAt, i: Nat, aux: Int]]
      BY DEF SyncInit, CounterAt
    <3>3. tester \in [step: {"open", "create", "wait", "blocked", "close", "printed"}, child: Counter]
      BY Counters DEF SyncInit
    <3>4. /\ value \in [Semaphore -> Nat] /\ waiters \in [Semaphore -> Seq(Client)]
          /\ asleep \in [Client -> Semaphore \cup {Awake}]
      BY DEF NoSemaphores
    <3> QED
      BY <3>1, <3>2, <3>3, <3>4 DEF SyncTypes
  <2>2. \A c \in Counter : counter[c].at = "none" /\ counter[c].i = 0 /\ Written(c) = 0
    BY DEF SyncInit, Written
  <2>3. TesterPart
    BY <2>2 DEF SyncInit, TesterPart
  <2>4. CountersExclude
    BY <2>2, Counters DEF NoSemaphores, CountersExclude, Inside
  <2>5. SumPart
    BY <2>2, Counters DEF SyncInit, SumPart
  <2> QED
    BY <2>1, <2>3, <2>4, <2>5 DEF SyncInv
<1>2. SyncInv /\ [SyncNext]_syncVars => SyncInv'
  <2> SUFFICES ASSUME SyncInv, [SyncNext]_syncVars
               PROVE  SyncInv'
    OBVIOUS
  <2>1. CASE TesterStep
    BY <2>1, OpenCountedHolds, CreateCounterHolds, WaitForCounterHolds, CloseCountedHolds DEF TesterStep
  <2>2. ASSUME NEW c \in Counter, CounterStep(c)
        PROVE  SyncInv'
    BY <2>2, WaitCountedHolds, ReadCountedHolds, WriteCountedHolds, PostCountedHolds, EndCounterHolds
       DEF CounterStep
  <2>3. CASE UNCHANGED syncVars
    <3>1. UNCHANGED <<global, counter, tester, early, value, queued, waiters, asleep>>
      BY <2>3 DEF syncVars, semaphores
    <3>2. SyncTypes' /\ TesterPart'
      BY <3>1 DEF SyncInv, SyncTypes, TesterPart
    <3>3. CountersExclude'
      BY <3>1, ExcludeKept DEF SyncInv, Inside
    <3>4. SumPart'
      <4>1. \A d \in Counter : Written(d)' = Written(d)
        BY <3>1 DEF Written
      <4> QED
        BY <3>1, <4>1, Counters DEF SyncInv, SumPart
    <3> QED
      BY <3>2, <3>3, <3>4 DEF SyncInv
  <2> QED
    BY <2>1, <2>2, <2>3 DEF SyncNext
<1> QED
  BY <1>1, <1>2, PTL DEF SyncSpec

(* test_sync.c prints "Final value": with the semaphore, whatever the       *)
(* number of rounds and however the children interleave, it is zero, as     *)
(* long as waitpid() waited for each of them.                               *)
THEOREM CountersCancelOut == SyncSpec => []FinalValueIsZero
<1>1. SyncInv => FinalValueIsZero
  <2> SUFFICES ASSUME SyncInv, tester.step = "printed", ~early
               PROVE  global = 0
    BY DEF FinalValueIsZero
  <2>1. \A c \in Counter : Written(c) = Iterations
    <3>1. \A c \in Counter : counter[c].at = "dead" /\ counter[c].i = Iterations
      BY DEF SyncInv, TesterPart, SumPart
    <3> QED
      BY <3>1, TestSyncAssumption DEF Written
  <2> QED
    BY <2>1, Counters, TestSyncAssumption DEF SyncInv, SumPart
<1>2. CASE UseSem
  BY <1>1, <1>2, SyncInvariant, PTL
<1>3. CASE ~UseSem
  <2>1. FinalValueIsZero
    BY <1>3 DEF FinalValueIsZero
  <2> QED
    BY <2>1, PTL
<1> QED
  BY <1>2, <1>3

-----------------------------------------------------------------------------
(* The shell: its state, the blocks of the line it is at, and who may use   *)
(* the pipe while the shell waits for whom.                                 *)
ChildAt == {"none", "ready", "asleep", "blocked", "stranded", "zombie", "gone"}
ChildRecord ==
  [at: ChildAt, reads: BOOLEAN, in: {"tty", "pipe", "none"}, out: {"tty", "pipe"},
   left: Nat, ending: BOOLEAN, foreground: BOOLEAN]

ShellAt == {"prompt", "switch", "start1", "start2", "wait1", "blocked1", "wait2", "blocked2",
            "close", "exit", "undefined"}

ShellTypes ==
  /\ shellAt \in ShellAt
  /\ DOMAIN started = {1, 2}
  /\ child \in [Child -> ChildRecord]
  /\ pipe = Closed \/ pipe \in Seq({"char", "eof"})

BlocksOf(l) == {"pipe_cmd", "arg1"} \cup (IF l.piped THEN {"arg2"} ELSE {})
WaitsFirst == shellAt \in {"wait1", "blocked1"}
WaitsSecond == shellAt \in {"wait2", "blocked2"}

BlocksPart ==
  /\ shellAt \in {"start1", "start2"} => Piping
  /\ WaitsSecond => Piping
  /\ shellAt = "switch" => started = <<-1, -1>>
  /\ Clean(line) =>
       /\ ~misfreed
       /\ shellAt \in {"switch", "start1", "start2"} \/ WaitsFirst => blocks = BlocksOf(line)
       /\ WaitsFirst => Piping \/ ~line.piped
       /\ WaitsSecond => blocks = {"pipe_cmd", "arg2"}
       /\ shellAt = "close" => blocks = {}
       /\ shellAt \in {"prompt", "exit"} => blocks = {} \/ (Piping /\ started = <<-1, -1>>)

Waited(c, slot) == started[slot] \in {c, 0}

UsersAreWaitedFor ==
  \A c \in Child : UsesPipe(c) =>
    \/ shellAt = "start2" /\ Waited(c, 1)
    \/ WaitsFirst /\ Piping /\ (Waited(c, 1) \/ Waited(c, 2))
    \/ WaitsSecond /\ Waited(c, 2)

PipePart ==
  /\ ~hurried => UsersAreWaitedFor
  /\ shellAt \in {"start1", "start2", "close"} \/ WaitsSecond \/ (WaitsFirst /\ Piping) => pipe # Closed

ShellInv == ShellTypes /\ BlocksPart /\ PipePart

LEMMA SameLine == ASSUME line' = line PROVE Piping' = Piping /\ Clean(line)' = Clean(line)
BY DEF Piping, instructions, Known, Clean, IS_BUILT_IN

LEMMA ProcessIsChild ==
  ASSUME NEW cmd, NEW in \in {"tty", "pipe"}, NEW out \in {"tty", "pipe"}
  PROVE  /\ Process(cmd, in, out) \in ChildRecord
         /\ Process(cmd, in, out).in \in {in, "none"} /\ Process(cmd, in, out).out = out
<1> DEFINE fg == anal_arg(cmd) = 0 \/ cmd.name = "wc"
           stdin == IF cmd.name \in Filters \cup {"clear"} THEN in ELSE "none"
           place == IF ~fg /\ stdin = "tty" THEN "blocked" ELSE "ready"
           reads == cmd.name \in Filters
           left == IF cmd.name \in Filters THEN 0 ELSE Output
           ending == cmd.name \in {"echo", "clear"}
<1>1. Process(cmd, in, out) =
        [at |-> place, reads |-> reads, in |-> stdin, out |-> out,
         left |-> left, ending |-> ending, foreground |-> fg]
  BY DEF Process
<1>2. place \in ChildAt /\ stdin \in {"tty", "pipe", "none"} /\ stdin \in {in, "none"}
  BY DEF ChildAt
<1>3. left \in Nat
  BY ShellAssumption
<1>4. reads \in BOOLEAN /\ ending \in BOOLEAN /\ fg \in BOOLEAN
  OBVIOUS
<1> HIDE DEF fg, stdin, place, reads, left, ending
<1> QED
  BY <1>1, <1>2, <1>3, <1>4 DEF ChildRecord

(* A handler frees nothing but for clear, and starts one child, which is    *)
(* the one it returns, or in the background.                                *)
LEMMA Handles ==
  ASSUME ShellTypes, NEW slot \in {1, 2}, NEW cmd, NEW arg,
         NEW in \in {"tty", "pipe"}, NEW out \in {"tty", "pipe"}, handle(slot, cmd, arg, in, out)
  PROVE  /\ child' \in [Child -> ChildRecord] /\ DOMAIN started' = {1, 2}
         /\ \A other \in {1, 2} \ {slot} : started'[other] = started[other]
         /\ \A c \in Child : UsesPipe(c)' => UsesPipe(c) \/ ("pipe" \in {in, out} /\ Waited(c, slot)')
         /\ cmd.name # "clear" => blocks' = blocks /\ (misfreed' => misfreed)
<1>1. cmd.name # "clear" => blocks' = blocks /\ (misfreed' => misfreed)
  BY DEF handle, free, freedByHandler
<1>2. CASE anal_arg(cmd) = -1
  <2>1. started' = [started EXCEPT ![slot] = -1] /\ child' = child
    BY <1>2 DEF handle
  <2>2. \A c \in Child : UsesPipe(c)' => UsesPipe(c)
    BY <2>1 DEF UsesPipe, Living
  <2> QED
    BY <1>1, <2>1, <2>2 DEF ShellTypes
<1>3. CASE anal_arg(cmd) # -1
  <2> DEFINE new == Process(cmd, in, out)
  <2>1. /\ child' = [child EXCEPT ![NextChild] = new]
        /\ started' = [started EXCEPT ![slot] = IF anal_arg(cmd) = 1 THEN 0 ELSE NextChild]
    BY <1>3 DEF handle
  <2>2. new \in ChildRecord /\ new.in \in {in, "none"} /\ new.out = out
    BY ProcessIsChild
  <2> HIDE DEF new
  <2>3. /\ child' \in [Child -> ChildRecord]
        /\ \A c \in Child : child'[c] = IF c = NextChild THEN new ELSE child[c]
    BY <2>1, <2>2 DEF ShellTypes
  <2>4. /\ DOMAIN started' = {1, 2} /\ started'[slot] \in {NextChild, 0}
        /\ \A other \in {1, 2} \ {slot} : started'[other] = started[other]
    BY <2>1 DEF ShellTypes
  <2>5. ASSUME NEW c \in Child, UsesPipe(c)'
        PROVE  UsesPipe(c) \/ ("pipe" \in {in, out} /\ Waited(c, slot)')
    <3>1. CASE c = NextChild
      <4>1. "pipe" \in {in, out}
        BY <2>2, <2>3, <2>5, <3>1 DEF UsesPipe
      <4> QED
        BY <2>4, <3>1, <4>1 DEF Waited
    <3>2. CASE c # NextChild
      BY <2>3, <2>5, <3>2 DEF UsesPipe, Living
    <3> QED
      BY <3>1, <3>2
  <2> QED
    BY <1>1, <2>3, <2>4, <2>5
<1> QED
  BY <1>2, <1>3

LEMMA ClosedIsNoBytes == Closed \notin Seq({"char", "eof"})
<1>1. Len(Closed) = 1 /\ Closed[1] = "closed"
  BY DEF Closed
<1>2. ASSUME Closed \in Seq({"char", "eof"})
      PROVE  Closed[1] \in {"char", "eof"}
  BY <1>1, <1>2
<1> QED
  BY <1>1, <1>2

(* What the programs and the keyboard do: no child is born or comes back    *)
(* to life, none changes its ends, and the pipe is neither opened nor       *)
(* closed.                                                                  *)
ChildrenKeepTheirEnds ==
  /\ child' \in [Child -> ChildRecord]
  /\ \A c \in Child : UsesPipe(c)' => UsesPipe(c)
  /\ pipe' = pipe \/ (pipe # Closed /\ pipe' \in Seq({"char", "eof"}))

LEMMA ChildrenKeepShellInv ==
  ASSUME ShellInv, UNCHANGED <<shellAt, line, blocks, misfreed, started, hurried>>,
         ChildrenKeepTheirEnds
  PROVE  ShellInv'
<1>1. Piping' = Piping /\ Clean(line)' = Clean(line)
  BY SameLine
<1>2. ShellTypes'
  BY DEF ShellInv, ShellTypes, ChildrenKeepTheirEnds
<1>3. BlocksPart'
  <2>1. BlocksPart
    BY DEF ShellInv
  <2>2. BlocksOf(line)' = BlocksOf(line)
    BY DEF BlocksOf
  <2> QED
    BY <1>1, <2>1, <2>2 DEF BlocksPart, WaitsFirst, WaitsSecond
<1>4. PipePart'
  <2>1. ASSUME ~hurried
        PROVE  UsersAreWaitedFor'
    <3>1. UsersAreWaitedFor
      BY <2>1 DEF ShellInv, PipePart
    <3> QED
      BY <1>1, <3>1 DEF UsersAreWaitedFor, Waited, WaitsFirst, WaitsSecond, ChildrenKeepTheirEnds
  <2>2. pipe # Closed => pipe' # Closed
    BY ClosedIsNoBytes DEF ChildrenKeepTheirEnds
  <2> QED
    BY <1>1, <2>1, <2>2 DEF ShellInv, PipePart, WaitsFirst, WaitsSecond
<1> QED
  BY <1>2, <1>3, <1>4 DEF ShellInv

(* One child changes to a record with its own ends, which lives only if it  *)
(* did, and the others at most wake.                                        *)
LEMMA OneMovesOthersWake ==
  ASSUME ShellTypes, NEW c \in Child, NEW after \in ChildRecord,
         after.in = child[c].in, after.out = child[c].out, Living(c),
         child' = [child EXCEPT ![c] = after] \/ wakeOthers(c, after)
  PROVE  child' \in [Child -> ChildRecord] /\ \A d \in Child : UsesPipe(d)' => UsesPipe(d)
<1> USE DEF ShellTypes
<1>1. CASE child' = [child EXCEPT ![c] = after]
  BY <1>1 DEF UsesPipe, Living
<1>2. CASE wakeOthers(c, after)
  <2>1. \A d \in Child : [child[d] EXCEPT !.at = "ready"] \in ChildRecord
    BY DEF ChildRecord, ChildAt
  <2>2. /\ child' \in [Child -> ChildRecord] /\ child'[c] = after
        /\ \A d \in Child \ {c} :
             child'[d] = child[d] \/ (SleepsOnPipe(d) /\ child'[d] = [child[d] EXCEPT !.at = "ready"])
    BY <1>2, <2>1 DEF wakeOthers
  <2>3. ASSUME NEW d \in Child, UsesPipe(d)'
        PROVE  UsesPipe(d)
    <3>1. CASE d = c
      BY <2>2, <2>3, <3>1 DEF UsesPipe
    <3>2. CASE d # c /\ child'[d] = child[d]
      BY <2>3, <3>2 DEF UsesPipe, Living
    <3>3. CASE d # c /\ SleepsOnPipe(d) /\ child'[d] = [child[d] EXCEPT !.at = "ready"]
      <4>1. child'[d].in = child[d].in /\ child'[d].out = child[d].out /\ child[d].at = "asleep"
        BY <3>3 DEF ChildRecord, SleepsOnPipe
      <4> QED
        BY <2>3, <4>1 DEF UsesPipe, Living
    <3> QED
      BY <2>2, <3>1, <3>2, <3>3
  <2> QED
    BY <2>2, <2>3
<1> QED
  BY <1>1, <1>2

(* The records a step of a program makes of its own.                        *)
LEMMA AfterStep ==
  ASSUME NEW r \in ChildRecord
  PROVE  /\ \A a \in ChildAt : /\ [r EXCEPT !.at = a] \in ChildRecord
                               /\ [r EXCEPT !.at = a].in = r.in /\ [r EXCEPT !.at = a].out = r.out
         /\ r.left > 0 => /\ [r EXCEPT !.left = r.left - 1] \in ChildRecord
                          /\ [r EXCEPT !.left = r.left - 1].in = r.in
                          /\ [r EXCEPT !.left = r.left - 1].out = r.out
         /\ \A a \in ChildAt : /\ [r EXCEPT !.at = a, !.ending = FALSE] \in ChildRecord
                               /\ [r EXCEPT !.at = a, !.ending = FALSE].in = r.in
                               /\ [r EXCEPT !.at = a, !.ending = FALSE].out = r.out
<1>1. r.left > 0 => r.left - 1 \in Nat
  BY DEF ChildRecord
<1>2. FALSE \in BOOLEAN
  OBVIOUS
<1> QED
  BY <1>1, <1>2 DEF ChildRecord

LEMMA AfterReadIsChild ==
  ASSUME ShellTypes, NEW c \in Child, NEW byte
  PROVE  /\ afterRead(c, byte) \in ChildRecord
         /\ afterRead(c, byte).in = child[c].in /\ afterRead(c, byte).out = child[c].out
<1> DEFINE eof == byte = "eof"
<1>1. child[c] \in ChildRecord /\ Output \in Nat /\ eof \in BOOLEAN /\ "ready" \in ChildAt
  BY ShellAssumption DEF ShellTypes, ChildAt
<1>2. afterRead(c, byte) = [child[c] EXCEPT !.left = Output, !.ending = eof, !.at = "ready"]
  BY DEF afterRead
<1> HIDE DEF eof
<1> QED
  BY <1>1, <1>2 DEF ChildRecord

LEMMA PutKeepsPipe ==
  ASSUME ShellTypes, NEW c \in Child, NEW byte \in {"char", "eof"}, put(c, byte)
  PROVE  pipe' = pipe \/ (pipe # Closed /\ pipe' \in Seq({"char", "eof"}))
BY DEF put, ShellTypes

LEMMA ChildStepHolds ==
  ASSUME ShellInv, NEW c \in Child, ChildStep(c) \/ Key(c) \/ CtrlC(c)
  PROVE  ShellInv'
<1>1. /\ ShellTypes /\ child[c] \in ChildRecord
      /\ {"asleep", "zombie", "ready"} \subseteq ChildAt
  BY DEF ShellInv, ShellTypes, ChildAt
<1>2. CASE ReadPipe(c)
  <2>1. Living(c) /\ UNCHANGED <<shellAt, line, blocks, misfreed, started, hurried>>
    BY <1>2 DEF ReadPipe, OnCpu, Living
  <2>2. PICK byte : wakeOthers(c, afterRead(c, byte))
    BY <1>2 DEF ReadPipe
  <2>3. pipe' = pipe \/ (pipe # Closed /\ pipe' \in Seq({"char", "eof"}))
    BY <1>1, <1>2 DEF ReadPipe, ShellTypes
  <2>4. ChildrenKeepTheirEnds
    BY <1>1, <2>1, <2>2, <2>3, AfterReadIsChild, OneMovesOthersWake DEF ChildrenKeepTheirEnds
  <2> QED
    BY <2>1, <2>4, ChildrenKeepShellInv
<1>3. CASE WriteByte(c)
  <2>1. Living(c) /\ UNCHANGED <<shellAt, line, blocks, misfreed, started, hurried>>
    BY <1>3 DEF WriteByte, OnCpu, Living
  <2> DEFINE after == IF Endless(c) THEN child[c] ELSE [child[c] EXCEPT !.left = child[c].left - 1]
  <2>2. wakeOthers(c, after) /\ child[c].left > 0
    BY <1>3 DEF WriteByte
  <2>3. after \in ChildRecord /\ after.in = child[c].in /\ after.out = child[c].out
    BY <1>1, <2>2, AfterStep
  <2> HIDE DEF after
  <2>4. pipe' = pipe \/ (pipe # Closed /\ pipe' \in Seq({"char", "eof"}))
    BY <1>1, <1>3, PutKeepsPipe DEF WriteByte
  <2>5. ChildrenKeepTheirEnds
    BY <1>1, <2>1, <2>2, <2>3, <2>4, OneMovesOthersWake DEF ChildrenKeepTheirEnds
  <2> QED
    BY <2>1, <2>5, ChildrenKeepShellInv
<1>4. CASE Exit(c)
  <2>1. Living(c) /\ UNCHANGED <<shellAt, line, blocks, misfreed, started, hurried>>
    BY <1>4 DEF Exit, OnCpu, Living
  <2> DEFINE after == [child[c] EXCEPT !.at = "zombie"]
  <2>2. wakeOthers(c, after)
    BY <1>4 DEF Exit
  <2>3. after \in ChildRecord /\ after.in = child[c].in /\ after.out = child[c].out
    BY <1>1, AfterStep
  <2> HIDE DEF after
  <2>4. pipe' = pipe \/ (pipe # Closed /\ pipe' \in Seq({"char", "eof"}))
    BY <1>1, <1>4, PutKeepsPipe DEF Exit
  <2>5. ChildrenKeepTheirEnds
    BY <1>1, <2>1, <2>2, <2>3, <2>4, OneMovesOthersWake DEF ChildrenKeepTheirEnds
  <2> QED
    BY <2>1, <2>5, ChildrenKeepShellInv
<1>5. CASE Sleep(c)
  <2>1. Living(c) /\ pipe' = pipe /\ UNCHANGED <<shellAt, line, blocks, misfreed, started, hurried>>
    BY <1>5 DEF Sleep, OnCpu, Living
  <2> DEFINE after == [child[c] EXCEPT !.at = "asleep"]
  <2>2. child' = [child EXCEPT ![c] = after]
    BY <1>5 DEF Sleep
  <2>3. after \in ChildRecord /\ after.in = child[c].in /\ after.out = child[c].out
    BY <1>1, AfterStep
  <2> HIDE DEF after
  <2>4. ChildrenKeepTheirEnds
    BY <1>1, <2>1, <2>2, <2>3, OneMovesOthersWake DEF ChildrenKeepTheirEnds
  <2> QED
    BY <2>1, <2>4, ChildrenKeepShellInv
<1>6. CASE Key(c)
  <2>1. Living(c) /\ pipe' = pipe /\ UNCHANGED <<shellAt, line, blocks, misfreed, started, hurried>>
    BY <1>6 DEF Key, Living
  <2>2. PICK byte : child' = [child EXCEPT ![c] = afterRead(c, byte)]
    BY <1>6 DEF Key
  <2>3. ChildrenKeepTheirEnds
    BY <1>1, <2>1, <2>2, AfterReadIsChild, OneMovesOthersWake DEF ChildrenKeepTheirEnds
  <2> QED
    BY <2>1, <2>3, ChildrenKeepShellInv
<1>7. CASE CtrlC(c)
  <2>1. Living(c) /\ pipe' = pipe /\ UNCHANGED <<shellAt, line, blocks, misfreed, started, hurried>>
    BY <1>7 DEF CtrlC
  <2> DEFINE after == [child[c] EXCEPT !.at = "zombie", !.ending = FALSE]
  <2>2. child' = [child EXCEPT ![c] = after]
    BY <1>1, <1>7 DEF CtrlC, ShellTypes
  <2>3. after \in ChildRecord /\ after.in = child[c].in /\ after.out = child[c].out
    BY <1>1, AfterStep
  <2> HIDE DEF after
  <2>4. ChildrenKeepTheirEnds
    BY <1>1, <2>1, <2>2, <2>3, OneMovesOthersWake DEF ChildrenKeepTheirEnds
  <2> QED
    BY <2>1, <2>4, ChildrenKeepShellInv
<1> QED
  BY <1>2, <1>3, <1>4, <1>5, <1>6, <1>7 DEF ChildStep

-----------------------------------------------------------------------------
(* The shell's own steps.                                                   *)
LEMMA bufferControlHolds ==
  ASSUME ShellInv, bufferControl
  PROVE  ShellInv'
<1>1. PICK l \in Lines :
        /\ shellAt = "prompt" /\ shellAt' = "switch" /\ line' = l
        /\ blocks' = BlocksOf(l) /\ misfreed' = FALSE /\ started' = <<-1, -1>>
        /\ UNCHANGED <<child, pipe, hurried>>
  BY DEF bufferControl, BlocksOf
<1>2. ShellTypes'
  <2>1. DOMAIN started' = {1, 2}
    <3>1. DOMAIN started' = 1..2
      BY <1>1
    <3> QED
      BY <3>1
  <2> QED
    BY <1>1, <2>1 DEF ShellInv, ShellTypes, ShellAt
<1>3. BlocksPart'
  BY <1>1 DEF BlocksPart, WaitsFirst, WaitsSecond
<1>4. PipePart'
  <2>1. ~hurried => \A c \in Child : ~UsesPipe(c)
    BY <1>1 DEF ShellInv, PipePart, UsersAreWaitedFor, WaitsFirst, WaitsSecond
  <2>2. ~hurried' => \A c \in Child : ~UsesPipe(c)'
    BY <1>1, <2>1 DEF UsesPipe, Living
  <2> QED
    BY <1>1, <2>2 DEF PipePart, UsersAreWaitedFor, WaitsFirst, WaitsSecond
<1> QED
  BY <1>2, <1>3, <1>4 DEF ShellInv

LEMMA StartsNothingHolds ==
  ASSUME ShellInv, StartsNothing
  PROVE  ShellInv'
<1>1. /\ shellAt = "switch" /\ shellAt' \in {"prompt", "exit"} /\ free(freedInSwitch)
      /\ UNCHANGED <<line, started, pipe, hurried>>
  BY DEF StartsNothing
<1>2. child' \in [Child -> ChildRecord] /\ \A c \in Child : UsesPipe(c)' => UsesPipe(c)
  <2>1. CASE child' = child
    BY <2>1 DEF ShellInv, ShellTypes, UsesPipe, Living
  <2>2. ASSUME NEW c \in Child, Living(c),
               child' = [child EXCEPT ![c].at = "zombie", ![c].ending = FALSE]
        PROVE  child' \in [Child -> ChildRecord] /\ \A d \in Child : UsesPipe(d)' => UsesPipe(d)
    <3> DEFINE after == [child[c] EXCEPT !.at = "zombie", !.ending = FALSE]
    <3>1. child[c] \in ChildRecord /\ "zombie" \in ChildAt /\ ShellTypes
      BY DEF ShellInv, ShellTypes, ChildAt
    <3>2. child' = [child EXCEPT ![c] = after]
      BY <2>2 DEF ShellInv, ShellTypes
    <3>3. after \in ChildRecord /\ after.in = child[c].in /\ after.out = child[c].out
      BY <3>1, AfterStep
    <3> HIDE DEF after
    <3> QED
      BY <2>2, <3>1, <3>2, <3>3, OneMovesOthersWake
  <2> QED
    BY <2>1, <2>2 DEF StartsNothing, builtIn
<1>3. ShellTypes'
  BY <1>1, <1>2 DEF ShellInv, ShellTypes, ShellAt
<1>4. BlocksPart'
  <2> SUFFICES ASSUME Clean(line)
               PROVE  ~misfreed' /\ blocks' = {}
    BY <1>1, SameLine DEF BlocksPart, WaitsFirst, WaitsSecond
  <2>1. blocks = BlocksOf(line) /\ ~misfreed
    BY <1>1 DEF ShellInv, BlocksPart
  <2>2. freedInSwitch = BlocksOf(line)
    <3>1. CASE line.piped
      <4>1. Known(line.cmd2) /\ (IS_BUILT_IN(line.cmd1) => IS_BUILT_IN(line.cmd2))
        BY <3>1 DEF Clean
      <4>2. ~IS_BUILT_IN(line.cmd1) => instructions = 2
        <5>1. CASE Known(line.cmd1)
          BY <3>1, <4>1, <5>1 DEF instructions
        <5>2. CASE ~Known(line.cmd1)
          <6>1. instructions = 1 /\ line.cmd1.name # "exit"
            BY <3>1, <4>1, <5>2 DEF instructions, Known
          <6> QED
            BY <6>1 DEF StartsNothing
        <5> QED
          BY <5>1, <5>2
      <4> QED
        BY <3>1, <4>1, <4>2 DEF freedInSwitch, BlocksOf
    <3>2. CASE ~line.piped
      <4>1. instructions # 2
        BY <3>2 DEF instructions
      <4> QED
        BY <3>2, <4>1 DEF freedInSwitch, BlocksOf
    <3> QED
      BY <3>1, <3>2
  <2> QED
    BY <1>1, <2>1, <2>2 DEF free
<1>5. PipePart'
  <2>1. ~hurried' => \A c \in Child : ~UsesPipe(c)'
    BY <1>1, <1>2 DEF ShellInv, PipePart, UsersAreWaitedFor, WaitsFirst, WaitsSecond
  <2> QED
    BY <1>1, <2>1 DEF PipePart, UsersAreWaitedFor, WaitsFirst, WaitsSecond
<1> QED
  BY <1>3, <1>4, <1>5 DEF ShellInv

LEMMA CallsNoHandlerHolds ==
  ASSUME ShellInv, CallsNoHandler
  PROVE  ShellInv'
<1>1. /\ shellAt = "switch" /\ shellAt' = "undefined"
      /\ UNCHANGED <<line, blocks, misfreed, started, child, pipe, hurried>>
  BY DEF CallsNoHandler
<1>2. ShellTypes'
  BY <1>1 DEF ShellInv, ShellTypes, ShellAt
<1>3. BlocksPart'
  BY <1>1, SameLine DEF ShellInv, BlocksPart, WaitsFirst, WaitsSecond
<1>4. PipePart'
  <2>1. ~hurried => \A c \in Child : ~UsesPipe(c)
    BY <1>1 DEF ShellInv, PipePart, UsersAreWaitedFor, WaitsFirst, WaitsSecond
  <2>2. ~hurried' => \A c \in Child : ~UsesPipe(c)'
    BY <1>1, <2>1 DEF UsesPipe, Living
  <2> QED
    BY <1>1, <2>2 DEF PipePart, UsersAreWaitedFor, WaitsFirst, WaitsSecond
<1> QED
  BY <1>2, <1>3, <1>4 DEF ShellInv

LEMMA StartOneHolds ==
  ASSUME ShellInv, StartOne
  PROVE  ShellInv'
<1>1. /\ shellAt = "switch" /\ shellAt' = "wait1" /\ instructions = 1
      /\ line.cmd1.name \in Programs /\ handle(1, line.cmd1, "arg1", "tty", "tty")
      /\ UNCHANGED <<line, pipe, hurried>>
  BY DEF StartOne
<1>2. /\ child' \in [Child -> ChildRecord] /\ DOMAIN started' = {1, 2}
      /\ \A c \in Child : UsesPipe(c)' => UsesPipe(c)
      /\ line.cmd1.name # "clear" => blocks' = blocks /\ (misfreed' => misfreed)
  BY <1>1, Handles DEF ShellInv
<1>3. ShellTypes'
  BY <1>1, <1>2 DEF ShellInv, ShellTypes, ShellAt
<1>4. BlocksPart'
  <2> SUFFICES ASSUME Clean(line)
               PROVE  ~misfreed' /\ blocks' = BlocksOf(line) /\ ~line.piped
    BY <1>1, SameLine DEF BlocksPart, WaitsFirst, WaitsSecond, BlocksOf
  <2>1. blocks' = BlocksOf(line) /\ ~misfreed'
    BY <1>1, <1>2 DEF ShellInv, BlocksPart, Clean
  <2>2. Known(line.cmd1)
    BY <1>1 DEF Known
  <2>3. ~line.piped
    BY <1>1, <2>2 DEF Clean, instructions
  <2> QED
    BY <2>1, <2>3
<1>5. PipePart'
  <2>1. ~hurried' => \A c \in Child : ~UsesPipe(c)'
    BY <1>1, <1>2 DEF ShellInv, PipePart, UsersAreWaitedFor, WaitsFirst, WaitsSecond
  <2>2. ~Piping'
    BY <1>1, SameLine DEF Piping
  <2> QED
    BY <1>1, <2>1, <2>2 DEF PipePart, UsersAreWaitedFor, WaitsFirst, WaitsSecond
<1> QED
  BY <1>3, <1>4, <1>5 DEF ShellInv

LEMMA OpenPipeHolds ==
  ASSUME ShellInv, OpenPipe
  PROVE  ShellInv'
<1>1. /\ shellAt = "switch" /\ Piping
      /\ \/ pipe' = <<>> /\ shellAt' = "start1"
         \/ pipe' = pipe /\ shellAt' = "prompt"
      /\ UNCHANGED <<line, blocks, misfreed, started, child, hurried>>
  BY DEF OpenPipe
<1>2. ShellTypes'
  <2>1. <<>> \in Seq({"char", "eof"})
    OBVIOUS
  <2> QED
    BY <1>1, <2>1 DEF ShellInv, ShellTypes, ShellAt
<1>3. BlocksPart'
  BY <1>1, SameLine DEF ShellInv, BlocksPart, WaitsFirst, WaitsSecond, BlocksOf
<1>4. PipePart'
  <2>1. ~hurried => \A c \in Child : ~UsesPipe(c)
    BY <1>1 DEF ShellInv, PipePart, UsersAreWaitedFor, WaitsFirst, WaitsSecond
  <2>2. ~hurried' => \A c \in Child : ~UsesPipe(c)'
    BY <1>1, <2>1 DEF UsesPipe, Living
  <2>3. <<>> # Closed
    BY DEF Closed
  <2> QED
    BY <1>1, <2>2, <2>3 DEF PipePart, UsersAreWaitedFor, WaitsFirst, WaitsSecond
<1> QED
  BY <1>2, <1>3, <1>4 DEF ShellInv

LEMMA StartTwoHolds ==
  ASSUME ShellInv, StartTwo
  PROVE  ShellInv'
<1>1. /\ shellAt \in {"start1", "start2"} /\ Piping /\ pipe # Closed
      /\ UNCHANGED <<line, pipe, hurried>>
  BY DEF StartTwo, ShellInv, BlocksPart, PipePart
<1>2. Piping' /\ Clean(line)' = Clean(line) /\ BlocksOf(line)' = BlocksOf(line)
  BY <1>1, SameLine DEF BlocksOf
<1>3. Clean(line) => /\ ~misfreed /\ blocks = BlocksOf(line)
                     /\ line.cmd1.name # "clear" /\ line.cmd2.name # "clear"
  BY <1>1 DEF ShellInv, BlocksPart, Clean
<1>4. CASE shellAt = "start1"
  <2>1. shellAt' = "start2" /\ handle(1, line.cmd1, "arg1", "tty", "pipe")
    BY <1>4 DEF StartTwo
  <2>2. /\ child' \in [Child -> ChildRecord] /\ DOMAIN started' = {1, 2}
        /\ \A c \in Child : UsesPipe(c)' => UsesPipe(c) \/ Waited(c, 1)'
        /\ line.cmd1.name # "clear" => blocks' = blocks /\ (misfreed' => misfreed)
    BY <2>1, Handles DEF ShellInv
  <2>3. ShellTypes'
    BY <1>1, <2>1, <2>2 DEF ShellInv, ShellTypes, ShellAt
  <2>4. BlocksPart'
    BY <1>2, <1>3, <2>1, <2>2 DEF BlocksPart, WaitsFirst, WaitsSecond
  <2>5. ~hurried => \A c \in Child : ~UsesPipe(c)
    BY <1>4 DEF ShellInv, PipePart, UsersAreWaitedFor, WaitsFirst, WaitsSecond
  <2>6. PipePart'
    BY <1>1, <2>1, <2>2, <2>5 DEF PipePart, UsersAreWaitedFor
  <2> QED
    BY <2>3, <2>4, <2>6 DEF ShellInv
<1>5. CASE shellAt = "start2"
  <2>1. shellAt' = "wait1" /\ handle(2, line.cmd2, "arg2", "pipe", "tty")
    BY <1>5 DEF StartTwo
  <2>2. /\ child' \in [Child -> ChildRecord] /\ DOMAIN started' = {1, 2}
        /\ started'[1] = started[1]
        /\ \A c \in Child : UsesPipe(c)' => UsesPipe(c) \/ Waited(c, 2)'
        /\ line.cmd2.name # "clear" => blocks' = blocks /\ (misfreed' => misfreed)
    BY <2>1, Handles DEF ShellInv
  <2>3. ShellTypes'
    BY <1>1, <2>1, <2>2 DEF ShellInv, ShellTypes, ShellAt
  <2>4. BlocksPart'
    BY <1>2, <1>3, <2>1, <2>2 DEF BlocksPart, WaitsFirst, WaitsSecond
  <2>5. ~hurried => \A c \in Child : UsesPipe(c) => Waited(c, 1)
    BY <1>5 DEF ShellInv, PipePart, UsersAreWaitedFor, WaitsFirst, WaitsSecond
  <2>6. \A c \in Child : Waited(c, 1) => Waited(c, 1)'
    BY <2>2 DEF Waited
  <2>7. ~hurried' => UsersAreWaitedFor'
    BY <1>1, <1>2, <2>1, <2>2, <2>5, <2>6 DEF UsersAreWaitedFor, WaitsFirst
  <2>8. PipePart'
    BY <1>1, <2>7 DEF PipePart
  <2> QED
    BY <2>3, <2>4, <2>8 DEF ShellInv
<1> QED
  BY <1>1, <1>4, <1>5

(* Who was waited for is no user of the pipe any more, unless the shell did *)
(* not wait for it.                                                         *)
LEMMA WaitpidHolds ==
  ASSUME ShellInv, NEW slot \in {1, 2}, Waitpid(slot)
  PROVE  ShellInv'
<1>1. /\ shellAt \in {waits(slot), blocked(slot)} /\ shellAt' = afterWait(slot)
      /\ free(freedAfterWait(slot)) /\ UNCHANGED <<line, started, pipe>>
      /\ child' = child \/ child' = [child EXCEPT ![started[slot]].at = "gone"]
      /\ hurried' = (hurried \/ (Piping /\ (started[slot] = 0 \/ (started[slot] > 0 /\ child[started[slot]].at = "asleep"))))
  BY DEF Waitpid
<1>2. Piping' = Piping /\ Clean(line)' = Clean(line) /\ BlocksOf(line)' = BlocksOf(line)
  BY <1>1, SameLine DEF BlocksOf
<1>3. /\ slot = 1 => WaitsFirst /\ ~WaitsSecond
      /\ slot = 2 => WaitsSecond /\ ~WaitsFirst /\ Piping
  BY <1>1 DEF WaitsFirst, WaitsSecond, waits, blocked, ShellInv, BlocksPart
<1>4. child' \in [Child -> ChildRecord] /\ \A c \in Child : UsesPipe(c)' => UsesPipe(c)
  <2>1. CASE child' = child
    BY <2>1 DEF ShellInv, ShellTypes, UsesPipe, Living
  <2>2. CASE child' = [child EXCEPT ![started[slot]].at = "gone"]
    <3>1. child \in [Child -> ChildRecord] /\ "gone" \in ChildAt
      BY DEF ShellInv, ShellTypes, ChildAt
    <3>2. \A c \in Child : child'[c] = IF c = started[slot] THEN [child[c] EXCEPT !.at = "gone"] ELSE child[c]
      BY <2>2, <3>1
    <3>3. child' \in [Child -> ChildRecord]
      BY <2>2, <3>1, AfterStep
    <3>4. \A c \in Child : [child[c] EXCEPT !.at = "gone"].at = "gone"
      BY <3>1 DEF ChildRecord
    <3>5. \A c \in Child : child'[c] = child[c] \/ child'[c].at = "gone"
      BY <3>2, <3>4
    <3> QED
      BY <3>3, <3>5 DEF UsesPipe, Living
  <2> QED
    BY <1>1, <2>1, <2>2
<1>5. ShellTypes'
  BY <1>1, <1>4 DEF ShellInv, ShellTypes, ShellAt, afterWait
<1>6. BlocksPart'
  <2>1. Clean(line) => ~misfreed' /\ blocks' = blocks \ freedAfterWait(slot) /\ freedAfterWait(slot) \subseteq blocks
    <3> SUFFICES ASSUME Clean(line)
                 PROVE  ~misfreed /\ freedAfterWait(slot) \subseteq blocks
      BY <1>1 DEF free
    <3>1. CASE slot = 1
      BY <1>3, <3>1 DEF ShellInv, BlocksPart, BlocksOf, freedAfterWait
    <3>2. CASE slot = 2
      BY <1>3, <3>2 DEF ShellInv, BlocksPart, freedAfterWait
    <3> QED
      BY <3>1, <3>2
  <2>2. CASE slot = 1 /\ Piping
    <3>1. shellAt' = "wait2" /\ freedAfterWait(slot) = {"arg1"}
      BY <1>1, <2>2 DEF afterWait, freedAfterWait
    <3>2. Clean(line) => blocks = {"pipe_cmd", "arg1", "arg2"}
      BY <1>3, <2>2 DEF ShellInv, BlocksPart, BlocksOf, Piping
    <3>3. Clean(line) => blocks' = {"pipe_cmd", "arg2"}
      BY <2>1, <3>1, <3>2
    <3> QED
      BY <1>2, <2>1, <2>2, <3>1, <3>3 DEF BlocksPart, WaitsFirst, WaitsSecond
  <2>3. CASE slot = 1 /\ ~Piping
    <3>1. shellAt' = "prompt" /\ freedAfterWait(slot) = {"arg1", "pipe_cmd"}
      BY <1>1, <2>3 DEF afterWait, freedAfterWait
    <3>2. Clean(line) => blocks = {"pipe_cmd", "arg1"}
      BY <1>3, <2>3 DEF ShellInv, BlocksPart, BlocksOf
    <3>3. Clean(line) => blocks' = {}
      BY <2>1, <3>1, <3>2
    <3> QED
      BY <1>2, <2>1, <3>1, <3>3 DEF BlocksPart, WaitsFirst, WaitsSecond
  <2>4. CASE slot = 2
    <3>1. shellAt' = "close" /\ freedAfterWait(slot) = {"arg2", "pipe_cmd"}
      BY <1>1, <1>3, <2>4 DEF afterWait, freedAfterWait
    <3>2. Clean(line) => blocks = {"pipe_cmd", "arg2"}
      BY <1>3, <2>4 DEF ShellInv, BlocksPart
    <3>3. Clean(line) => blocks' = {}
      BY <2>1, <3>1, <3>2
    <3> QED
      BY <1>2, <2>1, <3>1, <3>3 DEF BlocksPart, WaitsFirst, WaitsSecond
  <2> QED
    BY <2>2, <2>3, <2>4
<1>7. PipePart'
  <2>1. ASSUME Piping, ~hurried', NEW c \in Child, started[slot] = c
        PROVE  ~UsesPipe(c)'
    <3>1. c > 0 /\ ~(c <= 0) /\ child[c] \in ChildRecord
      BY <2>1, ShellAssumption DEF Child, ShellInv, ShellTypes
    <3>2. child[c].at # "asleep"
      BY <1>1, <2>1, <3>1
    <3>3. child' = [child EXCEPT ![c].at = "gone"]
      BY <2>1, <3>1, <3>2 DEF Waitpid
    <3>4. child'[c] = [child[c] EXCEPT !.at = "gone"]
      BY <3>3 DEF ShellInv, ShellTypes
    <3>5. child'[c].at = "gone"
      BY <3>1, <3>4 DEF ChildRecord
    <3> QED
      BY <3>5 DEF UsesPipe, Living
  <2>2. Piping /\ ~hurried' => ~hurried /\ started[slot] # 0
    BY <1>1
  <2>3. ASSUME ~hurried'
        PROVE  UsersAreWaitedFor'
    <3>1. ~hurried /\ UsersAreWaitedFor
      BY <1>1, <2>3 DEF ShellInv, PipePart
    <3>2. CASE ~Piping
      BY <1>3, <1>4, <3>1, <3>2 DEF UsersAreWaitedFor, WaitsFirst, WaitsSecond
    <3>3. CASE Piping /\ slot = 1
      <4>1. \A c \in Child : UsesPipe(c) => Waited(c, 1) \/ Waited(c, 2)
        BY <1>3, <3>1, <3>3 DEF UsersAreWaitedFor, WaitsFirst
      <4>2. \A c \in Child : UsesPipe(c)' => Waited(c, 2)
        BY <1>4, <2>1, <2>2, <2>3, <3>3, <4>1 DEF Waited
      <4>3. shellAt' = "wait2"
        BY <1>1, <3>3 DEF afterWait
      <4> QED
        BY <1>1, <4>2, <4>3 DEF UsersAreWaitedFor, WaitsSecond, Waited
    <3>4. CASE Piping /\ slot = 2
      <4>1. \A c \in Child : UsesPipe(c) => Waited(c, 2)
        BY <1>3, <3>1, <3>4 DEF UsersAreWaitedFor, WaitsFirst, WaitsSecond
      <4>2. \A c \in Child : ~UsesPipe(c)'
        BY <1>4, <2>1, <2>2, <2>3, <3>4, <4>1 DEF Waited
      <4> QED
        BY <4>2 DEF UsersAreWaitedFor
    <3> QED
      BY <3>2, <3>3, <3>4
  <2>4. shellAt' \in {"wait2", "close"} => Piping
    BY <1>1 DEF afterWait
  <2>5. Piping => pipe # Closed
    BY <1>3 DEF ShellInv, PipePart
  <2>6. shellAt' \in {"prompt", "wait2", "close"}
    BY <1>1 DEF afterWait
  <2> QED
    BY <1>1, <2>3, <2>4, <2>5, <2>6 DEF PipePart, WaitsFirst, WaitsSecond
<1> QED
  BY <1>5, <1>6, <1>7 DEF ShellInv

LEMMA WaitpidBlocksHolds ==
  ASSUME ShellInv, NEW slot \in {1, 2}, WaitpidBlocks(slot)
  PROVE  ShellInv'
<1>1. /\ \/ shellAt = "wait1" /\ shellAt' = "blocked1"
         \/ shellAt = "wait2" /\ shellAt' = "blocked2"
      /\ UNCHANGED <<line, blocks, misfreed, started, child, pipe, hurried>>
  BY DEF WaitpidBlocks, waits, blocked
<1>2. /\ WaitsFirst' = WaitsFirst /\ WaitsSecond' = WaitsSecond
      /\ Piping' = Piping /\ Clean(line)' = Clean(line) /\ BlocksOf(line)' = BlocksOf(line)
  BY <1>1, SameLine DEF WaitsFirst, WaitsSecond, BlocksOf
<1>3. ShellTypes'
  BY <1>1 DEF ShellInv, ShellTypes, ShellAt
<1>4. BlocksPart'
  BY <1>1, <1>2 DEF ShellInv, BlocksPart
<1>5. PipePart'
  <2>1. \A c \in Child : UsesPipe(c)' = UsesPipe(c)
    BY <1>1 DEF UsesPipe, Living
  <2>2. UsersAreWaitedFor => UsersAreWaitedFor'
    BY <1>1, <1>2, <2>1 DEF UsersAreWaitedFor, Waited
  <2> QED
    BY <1>1, <1>2, <2>2 DEF ShellInv, PipePart
<1> QED
  BY <1>3, <1>4, <1>5 DEF ShellInv

LEMMA ClosePipeHolds ==
  ASSUME ShellInv, ClosePipe
  PROVE  ShellInv'
<1>1. /\ shellAt = "close" /\ shellAt' = "prompt" /\ pipe' = Closed
      /\ UNCHANGED <<line, blocks, misfreed, started, hurried>>
      /\ child' = [c \in Child |-> IF SleepsOnPipe(c) THEN [child[c] EXCEPT !.at = "stranded"] ELSE child[c]]
  BY DEF ClosePipe
<1>2. child' \in [Child -> ChildRecord] /\ \A c \in Child : UsesPipe(c)' => UsesPipe(c)
  <2>1. child \in [Child -> ChildRecord] /\ "stranded" \in ChildAt
    BY DEF ShellInv, ShellTypes, ChildAt
  <2>2. ASSUME NEW c \in Child
        PROVE  child'[c] \in ChildRecord /\ (UsesPipe(c)' => UsesPipe(c))
    <3>1. CASE SleepsOnPipe(c)
      <4>1. child'[c] = [child[c] EXCEPT !.at = "stranded"] /\ child[c].at = "asleep"
        BY <1>1, <3>1 DEF SleepsOnPipe
      <4>2. child'[c] \in ChildRecord /\ child'[c].in = child[c].in /\ child'[c].out = child[c].out
        <5>1. child[c] \in ChildRecord
          BY <2>1
        <5> DEFINE after == [child[c] EXCEPT !.at = "stranded"]
        <5>2. after \in ChildRecord /\ after.in = child[c].in /\ after.out = child[c].out
          BY <2>1, <5>1, AfterStep
        <5> HIDE DEF after
        <5>3. child'[c] = after
          BY <4>1 DEF after
        <5> QED
          BY <5>2, <5>3
      <4> QED
        BY <4>1, <4>2 DEF UsesPipe, Living
    <3>2. CASE ~SleepsOnPipe(c)
      <4>1. child'[c] = child[c]
        BY <1>1, <3>2
      <4> QED
        BY <2>1, <4>1 DEF UsesPipe, Living
    <3> QED
      BY <3>1, <3>2
  <2> QED
    BY <1>1, <2>2
<1>3. ShellTypes'
  BY <1>1, <1>2 DEF ShellInv, ShellTypes, ShellAt
<1>4. BlocksPart'
  BY <1>1, SameLine DEF ShellInv, BlocksPart, WaitsFirst, WaitsSecond
<1>5. PipePart'
  <2>1. ~hurried' => \A c \in Child : ~UsesPipe(c)'
    BY <1>1, <1>2 DEF ShellInv, PipePart, UsersAreWaitedFor, WaitsFirst, WaitsSecond
  <2> QED
    BY <1>1, <2>1 DEF PipePart, UsersAreWaitedFor, WaitsFirst, WaitsSecond
<1> QED
  BY <1>3, <1>4, <1>5 DEF ShellInv

LEMMA ShellInvariant == ShellSpec => []ShellInv
<1>1. ShellInit => ShellInv
  <2> SUFFICES ASSUME ShellInit
               PROVE  ShellInv
    OBVIOUS
  <2>1. \A c \in Child : child[c] = Unborn
    BY DEF ShellInit
  <2>2. ShellTypes
    <3>1. DOMAIN started = {1, 2}
      <4>1. DOMAIN started = 1..2
        BY DEF ShellInit
      <4> QED
        BY <4>1
    <3>2. Unborn \in ChildRecord
      BY DEF Unborn, ChildRecord, ChildAt
    <3> QED
      BY <3>1, <3>2 DEF ShellInit, ShellTypes, ShellAt
  <2>3. BlocksPart
    BY DEF ShellInit, BlocksPart, WaitsFirst, WaitsSecond
  <2>4. \A c \in Child : ~UsesPipe(c)
    BY <2>1 DEF UsesPipe, Living, Unborn
  <2>5. PipePart
    BY <2>4 DEF ShellInit, PipePart, UsersAreWaitedFor, WaitsFirst, WaitsSecond
  <2> QED
    BY <2>2, <2>3, <2>5 DEF ShellInv
<1>2. ShellInv /\ [ShellNext]_shellVars => ShellInv'
  <2> SUFFICES ASSUME ShellInv, [ShellNext]_shellVars
               PROVE  ShellInv'
    OBVIOUS
  <2>1. CASE bufferControl
    BY <2>1, bufferControlHolds
  <2>2. CASE ShellStep
    BY <2>2, StartsNothingHolds, CallsNoHandlerHolds, StartOneHolds, OpenPipeHolds, StartTwoHolds,
       ClosePipeHolds, WaitpidHolds, WaitpidBlocksHolds DEF ShellStep
  <2>3. ASSUME NEW c \in Child, ChildStep(c) \/ Key(c) \/ CtrlC(c)
        PROVE  ShellInv'
    BY <2>3, ChildStepHolds
  <2>4. CASE UNCHANGED shellVars
    <3>1. UNCHANGED <<shellAt, line, blocks, misfreed, started, child, pipe, hurried>>
      BY <2>4 DEF shellVars
    <3>2. ChildrenKeepTheirEnds
      BY <3>1 DEF ShellInv, ShellTypes, ChildrenKeepTheirEnds, UsesPipe, Living
    <3> QED
      BY <3>1, <3>2, ChildrenKeepShellInv
  <2> QED
    BY <2>1, <2>2, <2>3, <2>4 DEF ShellNext
<1> QED
  BY <1>1, <1>2, PTL DEF ShellSpec

(* Whatever is typed, the shell gives back what it took for a line, each    *)
(* block once: the loop in shell.c, the handlers and handle_piped_commands. *)
THEOREM BlocksAreFreedOnce == ShellSpec => []BlocksAreReturned
<1>1. ShellInv => BlocksAreReturned
  BY DEF ShellInv, BlocksPart, BlocksAreReturned
<1> QED
  BY <1>1, ShellInvariant, PTL

(* The pipe of a line is not closed before both its users are dead, unless  *)
(* waitpid() did not wait for one of them; for any number of children, any  *)
(* size of the pipe and any lines.                                          *)
THEOREM PipeStaysOpen == ShellSpec => []PipeOutlivesItsUsers
<1>1. ShellInv => PipeOutlivesItsUsers
  BY DEF ShellInv, PipePart, UsersAreWaitedFor, PipeOutlivesItsUsers
<1> QED
  BY <1>1, ShellInvariant, PTL

-----------------------------------------------------------------------------
(* wait_seconds().                                                          *)

Jumps == {Jump(month, year) : month \in Months, year \in 0 .. Century - 1}

(* The seconds since the month began.                                       *)
IntoMonth(d) == d[1] + d[2] * Minute + d[3] * Hour * Minute + (d[4] - 1) * Day * Hour * Minute

ClockTypes ==
  /\ now \in Date /\ index \in 0 .. 6 /\ fields \in Seq(Nat) /\ Len(fields) <= 5
  /\ at \in {"idle", "start", "check"} /\ (at = "idle" \/ asked \in Waits)
  /\ start \in Int /\ slept \in 0 .. Patience /\ steady \in BOOLEAN /\ seam \in BOOLEAN
  /\ trusted \in {"no", "unjudged", "steady", "prompt"}

(* What has been read since nothing happens is the date, and no time has    *)
(* been counted before the first read.                                      *)
ReadPart ==
  /\ steady => /\ \A r \in 1 .. Len(fields) : fields[r] = now[r]
               /\ chosen => index = Len(fields) + 1
               /\ at = "start" => slept = 0 /\ ~seam
  /\ at = "idle" => slept = 0 /\ ~seam /\ ~Reading
  /\ at # "check" => trusted = "no"

(* How far the clock's count is from start: what it was at first, the time  *)
(* that went by, a month's end, and turns of the count.                     *)
Apart(first, jump, turns) ==
  /\ toMillis(now) - start = first + (slept + jump) * Millis + turns * Word
  /\ jump = 0 \/ IntoMonth(now) < slept
  /\ ~seam => jump = 0 /\ turns = 0

InInt(n) == -(Word \div 2) <= n /\ n < Word - (Word \div 2)

JudgedPart ==
  /\ at = "check" => InInt(start)
  /\ trusted = "steady" => \E jump \in Jumps \cup {0}, turns \in Int : Apart(0, jump, turns)
  /\ trusted = "prompt" =>
       \E first, turns \in Int, jump \in Jumps \cup {0} :
         -Millis < first /\ first < asked * Millis /\ Apart(first, jump, turns)

ClockInv == ClockTypes /\ ReadPart /\ JudgedPart

LEMMA Calendar ==
  /\ Minute \in Nat \ {0} /\ Hour \in Nat \ {0} /\ Day \in Nat \ {0} /\ Century \in Nat \ {0}
  /\ Millis \in Nat \ {0} /\ MonthDays \in Nat \ {0} /\ YearDays \in Nat \ {0} /\ Word \in Nat \ {0}
  /\ Y2K \in Nat /\ Patience \in Nat /\ Patience <= Minute * Hour * Day
  /\ Len(daytab[1]) \in Nat /\ Len(daytab[1]) > 1 /\ Months = 1 .. Len(daytab[1])
  /\ \A month \in Months, year \in Int : DaysOf(month, year) \in Nat \ {0}
<1>1. /\ daytab[1] \in Seq(Nat \ {0}) /\ daytab[2] \in Seq(Nat \ {0})
      /\ Len(daytab[1]) = Len(daytab[2]) /\ Len(daytab[1]) \in Nat /\ Len(daytab[1]) > 1
  <2> DEFINE Table == Seq(Nat \ {0})
  <2>1. daytab \in Seq(Table) /\ Len(daytab) = 2
    BY ClockAssumption
  <2> HIDE DEF Table
  <2>2. daytab[1] \in Table /\ daytab[2] \in Table
    BY <2>1
  <2>3. Len(daytab[1]) \in Nat
    BY <2>2 DEF Table
  <2> QED
    BY <2>2, <2>3, ClockAssumption DEF Table
<1>2. Months = 1 .. Len(daytab[1])
  BY <1>1 DEF Months
<1>3. ASSUME NEW month \in Months, NEW year \in Int PROVE DaysOf(month, year) \in Nat \ {0}
  <2>1. daytab[1][month] \in Nat \ {0} /\ daytab[2][month] \in Nat \ {0}
    BY <1>1, <1>2
  <2> QED
    BY <2>1 DEF DaysOf
<1>4. Patience \in 0 .. Minute * Hour * Day /\ {Minute, Hour, Day} \subseteq Nat \ {0}
  BY ClockAssumption
<1>5. Patience \in Nat /\ Patience <= Minute * Hour * Day
  BY <1>4
<1> QED
  BY <1>1, <1>2, <1>3, <1>5, ClockAssumption

LEMMA DateFields ==
  ASSUME NEW d \in Date
  PROVE  /\ d[1] \in Nat /\ d[1] <= Minute - 1 /\ d[2] \in Nat /\ d[2] <= Hour - 1
         /\ d[3] \in Nat /\ d[3] <= Day - 1
         /\ d[4] \in Nat /\ 1 <= d[4] /\ d[4] <= DaysOf(d[5], d[6] + Y2K)
         /\ d[5] \in Months /\ d[5] \in Nat /\ d[6] \in Nat /\ d[6] <= Century - 1
         /\ DaysOf(d[5], d[6] + Y2K) \in Nat \ {0}
         /\ d = <<d[1], d[2], d[3], d[4], d[5], d[6]>>
<1>1. /\ d \in [1 .. 6 -> Nat] /\ d[5] \in Months
      /\ \A r \in 1 .. 6 : d[r] \in Lowest(r) .. Highest(d)[r]
  BY DEF Date, RTC_REGS
<1>2. DaysOf(d[5], d[6] + Y2K) \in Nat \ {0}
  <2>1. d[6] + Y2K \in Int
    BY <1>1, Calendar
  <2> QED
    BY <1>1, <2>1, Calendar
<1>3. /\ d[1] \in 0 .. Highest(d)[1] /\ d[2] \in 0 .. Highest(d)[2] /\ d[3] \in 0 .. Highest(d)[3]
      /\ d[4] \in 1 .. Highest(d)[4] /\ d[6] \in 0 .. Highest(d)[6]
  BY <1>1 DEF Lowest
<1>4. /\ Highest(d)[1] = Minute - 1 /\ Highest(d)[2] = Hour - 1 /\ Highest(d)[3] = Day - 1
      /\ Highest(d)[4] = DaysOf(d[5], d[6] + Y2K) /\ Highest(d)[6] = Century - 1
  BY DEF Highest
<1>5. d = <<d[1], d[2], d[3], d[4], d[5], d[6]>>
  BY <1>1
<1> QED
  BY <1>1, <1>2, <1>3, <1>4, <1>5, Calendar

(* The ends of a minute, an hour, a day, a month, a year and a century.      *)
Ends1(d) == d[1] = Minute - 1
Ends2(d) == Ends1(d) /\ d[2] = Hour - 1
Ends3(d) == Ends2(d) /\ d[3] = Day - 1
Ends4(d) == Ends3(d) /\ d[4] = DaysOf(d[5], d[6] + Y2K)
Ends5(d) == Ends4(d) /\ d[5] = Len(daytab[1])
Ends6(d) == Ends5(d) /\ d[6] = Century - 1

(* Each field goes up when those before it are full, and starts again when  *)
(* it is full itself.                                                       *)
LEMMA NextFields ==
  ASSUME NEW d \in Date, NEW n, n = NextSecond(d)
  PROVE  /\ n \in [1 .. 6 -> Nat]
         /\ n[1] = IF Ends1(d) THEN 0 ELSE d[1] + 1
         /\ n[2] = IF Ends2(d) THEN 0 ELSE IF Ends1(d) THEN d[2] + 1 ELSE d[2]
         /\ n[3] = IF Ends3(d) THEN 0 ELSE IF Ends2(d) THEN d[3] + 1 ELSE d[3]
         /\ n[4] = IF Ends4(d) THEN 1 ELSE IF Ends3(d) THEN d[4] + 1 ELSE d[4]
         /\ n[5] = IF Ends5(d) THEN 1 ELSE IF Ends4(d) THEN d[5] + 1 ELSE d[5]
         /\ n[6] = IF Ends6(d) THEN 0 ELSE IF Ends5(d) THEN d[6] + 1 ELSE d[6]
<1> DEFINE full(r) == \A s \in 1 .. r : d[s] = Highest(d)[s]
<1>1. /\ Highest(d)[1] = Minute - 1 /\ Highest(d)[2] = Hour - 1 /\ Highest(d)[3] = Day - 1
      /\ Highest(d)[4] = DaysOf(d[5], d[6] + Y2K) /\ Highest(d)[5] = Len(daytab[1])
      /\ Highest(d)[6] = Century - 1
  BY DEF Highest
<1>2. /\ 1 .. 1 = {1} /\ 1 .. 2 = {1, 2} /\ 1 .. 3 = {1, 2, 3} /\ 1 .. 4 = {1, 2, 3, 4}
      /\ 1 .. 5 = {1, 2, 3, 4, 5} /\ 1 .. 6 = {1, 2, 3, 4, 5, 6}
  OBVIOUS
<1>3. /\ full(1) = Ends1(d) /\ full(2) = Ends2(d) /\ full(3) = Ends3(d)
      /\ full(4) = Ends4(d) /\ full(5) = Ends5(d) /\ full(6) = Ends6(d)
  <2>1. full(1) = Ends1(d)
    BY <1>1, <1>2, Zenon DEF Ends1
  <2>2. full(2) = Ends2(d)
    BY <1>1, <1>2, Zenon DEF Ends1, Ends2
  <2>3. full(3) = Ends3(d)
    BY <1>1, <1>2, Zenon DEF Ends1, Ends2, Ends3
  <2>4. full(4) = Ends4(d)
    BY <1>1, <1>2, Zenon DEF Ends1, Ends2, Ends3, Ends4
  <2>5. full(5) = Ends5(d)
    BY <1>1, <1>2, Zenon DEF Ends1, Ends2, Ends3, Ends4, Ends5
  <2>6. full(6) = Ends6(d)
    BY <1>1, <1>2, Zenon DEF Ends1, Ends2, Ends3, Ends4, Ends5, Ends6
  <2> QED
    BY <2>1, <2>2, <2>3, <2>4, <2>5, <2>6
<1>4. NextSecond(d) = [r \in 1 .. 6 |-> IF full(r) THEN Lowest(r)
                                        ELSE IF r = 1 \/ full(r - 1) THEN d[r] + 1 ELSE d[r]]
  BY DEF NextSecond, RTC_REGS
<1> HIDE DEF full
<1>5. /\ NextSecond(d)[1] = IF full(1) THEN 0 ELSE d[1] + 1
      /\ NextSecond(d)[2] = IF full(2) THEN 0 ELSE IF full(1) THEN d[2] + 1 ELSE d[2]
      /\ NextSecond(d)[3] = IF full(3) THEN 0 ELSE IF full(2) THEN d[3] + 1 ELSE d[3]
      /\ NextSecond(d)[4] = IF full(4) THEN 1 ELSE IF full(3) THEN d[4] + 1 ELSE d[4]
      /\ NextSecond(d)[5] = IF full(5) THEN 1 ELSE IF full(4) THEN d[5] + 1 ELSE d[5]
      /\ NextSecond(d)[6] = IF full(6) THEN 0 ELSE IF full(5) THEN d[6] + 1 ELSE d[6]
  BY <1>4 DEF Lowest
<1>6. NextSecond(d) \in [1 .. 6 -> Nat]
  <2>1. d \in [1 .. 6 -> Nat]
    BY DEF Date, RTC_REGS
  <2>2. \A r \in 1 .. 6 : Lowest(r) \in Nat /\ d[r] \in Nat /\ d[r] + 1 \in Nat
    BY <2>1 DEF Lowest
  <2>3. \A r \in 1 .. 6 : (IF full(r) THEN Lowest(r)
                           ELSE IF r = 1 \/ full(r - 1) THEN d[r] + 1 ELSE d[r]) \in Nat
    BY <2>2, Zenon
  <2> QED
    BY <1>4, <2>3, Zenon
<1> QED
  BY <1>3, <1>5, <1>6, Zenon

(* A second counts for one, but for the end of a month.                     *)
LEMMA NextKeepsDate ==
  ASSUME NEW d \in Date
  PROVE  NextSecond(d) \in Date
<1> DEFINE n == NextSecond(d)
<1>1. /\ n \in [1 .. 6 -> Nat]
      /\ n[1] = IF Ends1(d) THEN 0 ELSE d[1] + 1
      /\ n[2] = IF Ends2(d) THEN 0 ELSE IF Ends1(d) THEN d[2] + 1 ELSE d[2]
      /\ n[3] = IF Ends3(d) THEN 0 ELSE IF Ends2(d) THEN d[3] + 1 ELSE d[3]
      /\ n[4] = IF Ends4(d) THEN 1 ELSE IF Ends3(d) THEN d[4] + 1 ELSE d[4]
      /\ n[5] = IF Ends5(d) THEN 1 ELSE IF Ends4(d) THEN d[5] + 1 ELSE d[5]
      /\ n[6] = IF Ends6(d) THEN 0 ELSE IF Ends5(d) THEN d[6] + 1 ELSE d[6]
  BY NextFields
<1> HIDE DEF n
<1>2. /\ n[1] \in 0 .. Minute - 1 /\ n[2] \in 0 .. Hour - 1 /\ n[3] \in 0 .. Day - 1
      /\ n[6] \in 0 .. Century - 1 /\ n[5] \in 1 .. Len(daytab[1])
  <2>1. n[1] \in 0 .. Minute - 1
    <3>1. Minute \in Nat \ {0} /\ d[1] \in Nat /\ d[1] <= Minute - 1
      BY DateFields, Calendar
    <3> QED
      BY <1>1, <3>1 DEF Ends1
  <2>2. n[2] \in 0 .. Hour - 1
    <3>1. Hour \in Nat \ {0} /\ d[2] \in Nat /\ d[2] <= Hour - 1
      BY DateFields, Calendar
    <3> QED
      BY <1>1, <3>1 DEF Ends2
  <2>3. n[3] \in 0 .. Day - 1
    <3>1. Day \in Nat \ {0} /\ d[3] \in Nat /\ d[3] <= Day - 1
      BY DateFields, Calendar
    <3> QED
      BY <1>1, <3>1 DEF Ends3
  <2>4. n[6] \in 0 .. Century - 1
    <3>1. Century \in Nat \ {0} /\ d[6] \in Nat /\ d[6] <= Century - 1
      BY DateFields, Calendar
    <3> QED
      BY <1>1, <3>1 DEF Ends6
  <2>5. n[5] \in 1 .. Len(daytab[1])
    <3>1. /\ Len(daytab[1]) \in Nat /\ Len(daytab[1]) > 1
          /\ d[5] \in Nat /\ 1 <= d[5] /\ d[5] <= Len(daytab[1])
      <4>1. Months = 1 .. Len(daytab[1]) /\ Len(daytab[1]) \in Nat /\ Len(daytab[1]) > 1
        BY Calendar
      <4>2. d[5] \in Months
        BY DateFields
      <4> QED
        BY <4>1, <4>2
    <3> QED
      BY <1>1, <3>1 DEF Ends5
  <2> QED
    BY <2>1, <2>2, <2>3, <2>4, <2>5
<1>3. n[4] \in 1 .. DaysOf(n[5], n[6] + Y2K)
  <2>1. DaysOf(n[5], n[6] + Y2K) \in Nat \ {0}
    <3>1. n[6] + Y2K \in Int /\ n[5] \in Months
      <4>1. Century \in Nat /\ Y2K \in Nat /\ Months = 1 .. Len(daytab[1])
        BY Calendar
      <4> QED
        BY <1>2, <4>1
    <3> QED
      BY <3>1, Calendar
  <2>2. CASE Ends4(d)
    BY <1>1, <2>1, <2>2
  <2>3. CASE ~Ends4(d)
    <3>1. n[5] = d[5] /\ n[6] = d[6]
      BY <1>1, <2>3 DEF Ends5, Ends6
    <3>2. DaysOf(n[5], n[6] + Y2K) = DaysOf(d[5], d[6] + Y2K)
      BY <3>1
    <3> QED
      BY <1>1, <2>3, <3>2, DateFields DEF Ends4
  <2> QED
    BY <2>2, <2>3
<1>4. \A r \in 1 .. 6 : n[r] \in Lowest(r) .. Highest(n)[r]
  <2>1. /\ Highest(n)[1] = Minute - 1 /\ Highest(n)[2] = Hour - 1 /\ Highest(n)[3] = Day - 1
        /\ Highest(n)[4] = DaysOf(n[5], n[6] + Y2K) /\ Highest(n)[5] = Len(daytab[1])
        /\ Highest(n)[6] = Century - 1
    BY DEF Highest
  <2>2. /\ Lowest(1) = 0 /\ Lowest(2) = 0 /\ Lowest(3) = 0 /\ Lowest(4) = 1
        /\ Lowest(5) = 1 /\ Lowest(6) = 0
    BY DEF Lowest
  <2>3. 1 .. 6 = {1, 2, 3, 4, 5, 6}
    OBVIOUS
  <2> QED
    BY <1>2, <1>3, <2>1, <2>2, <2>3, Zenon
<1>5. n \in Date
  BY <1>1, <1>2, <1>4, Calendar DEF Date, RTC_REGS
<1> QED
  BY <1>5 DEF n


(* The seconds of an hour, a day, a month and a year, as they are counted.  *)
HourLong == Hour * Minute
DayLong == Day * HourLong
MonthLong == MonthDays * DayLong
YearLong == YearDays * DayLong

LEMMA Units ==
  /\ Minute \in Nat /\ HourLong \in Nat /\ DayLong \in Nat /\ MonthLong \in Nat /\ YearLong \in Nat
  /\ DayLong >= 1
  /\ Minute - 1 + (Hour - 1) * Minute = HourLong - 1
  /\ HourLong - 1 + (Day - 1) * HourLong = DayLong - 1
  /\ Patience <= DayLong
<1>1. /\ Minute \in Nat \ {0} /\ Hour \in Nat \ {0} /\ Day \in Nat \ {0}
      /\ MonthDays \in Nat \ {0} /\ YearDays \in Nat \ {0}
  BY Calendar
<1>2. HourLong \in Nat /\ HourLong >= 1
  BY <1>1 DEF HourLong
<1>3. DayLong \in Nat /\ DayLong >= 1
  BY <1>1, <1>2 DEF DayLong
<1>4. MonthLong \in Nat /\ YearLong \in Nat
  BY <1>1, <1>3 DEF MonthLong, YearLong
<1>5. Minute - 1 + (Hour - 1) * Minute = HourLong - 1
  BY <1>1 DEF HourLong
<1>6. HourLong - 1 + (Day - 1) * HourLong = DayLong - 1
  BY <1>1, <1>2 DEF DayLong
<1>7. Patience <= DayLong
  <2>1. Patience <= Minute * Hour * Day
    BY Calendar
  <2>2. Minute * Hour * Day = DayLong
    BY <1>1 DEF DayLong, HourLong
  <2> QED
    BY <2>1, <2>2
<1> QED
  BY <1>1, <1>2, <1>3, <1>4, <1>5, <1>6, <1>7

LEMMA Products ==
  ASSUME NEW k \in Int
  PROVE  /\ k * Hour * Minute = k * HourLong /\ k * Day * Hour * Minute = k * DayLong
         /\ k * MonthDays * Day * Hour * Minute = k * MonthLong
         /\ k * YearDays * Day * Hour * Minute = k * YearLong
<1>1. /\ Minute \in Nat /\ Hour \in Nat /\ Day \in Nat /\ MonthDays \in Nat /\ YearDays \in Nat
  BY Calendar
<1> QED
  BY <1>1 DEF HourLong, DayLong, MonthLong, YearLong

LEMMA SecondsCounted ==
  ASSUME NEW f, f[1] \in Int, f[2] \in Int, f[3] \in Int, f[4] \in Int, f[5] \in Int, f[6] \in Int
  PROVE  /\ Seconds(f) = f[1] + f[2] * Minute + f[3] * HourLong + f[4] * DayLong
                           + f[5] * MonthLong + f[6] * YearLong
         /\ Seconds(f) \in Int
         /\ IntoMonth(f) = f[1] + f[2] * Minute + f[3] * HourLong + (f[4] - 1) * DayLong
         /\ IntoMonth(f) \in Int
<1>1. /\ f[3] * Hour * Minute = f[3] * HourLong
      /\ f[4] * Day * Hour * Minute = f[4] * DayLong
      /\ f[5] * MonthDays * Day * Hour * Minute = f[5] * MonthLong
      /\ f[6] * YearDays * Day * Hour * Minute = f[6] * YearLong
  BY Products
<1>2. (f[4] - 1) * Day * Hour * Minute = (f[4] - 1) * DayLong
  <2>1. f[4] - 1 \in Int
    OBVIOUS
  <2> QED
    BY <2>1, Products
<1>3. /\ f[2] * Minute \in Int /\ f[3] * HourLong \in Int /\ f[4] * DayLong \in Int
      /\ f[5] * MonthLong \in Int /\ f[6] * YearLong \in Int /\ (f[4] - 1) * DayLong \in Int
  BY Units
<1>4. /\ Seconds(f) = f[1] + f[2] * Minute + f[3] * HourLong + f[4] * DayLong
                        + f[5] * MonthLong + f[6] * YearLong
      /\ IntoMonth(f) = f[1] + f[2] * Minute + f[3] * HourLong + (f[4] - 1) * DayLong
  BY <1>1, <1>2 DEF Seconds, IntoMonth
<1> QED
  BY <1>3, <1>4

(* One step of the clock within a month. *)
LEMMA Carried ==
  ASSUME NEW d \in [1 .. 6 -> Nat], NEW n \in [1 .. 6 -> Nat],
         \/ n[1] = d[1] + 1 /\ n[2] = d[2] /\ n[3] = d[3] /\ n[4] = d[4]
         \/ d[1] = Minute - 1 /\ n[1] = 0 /\ n[2] = d[2] + 1 /\ n[3] = d[3] /\ n[4] = d[4]
         \/ /\ d[1] = Minute - 1 /\ n[1] = 0 /\ d[2] = Hour - 1 /\ n[2] = 0 /\ n[3] = d[3] + 1
            /\ n[4] = d[4]
         \/ /\ d[1] = Minute - 1 /\ n[1] = 0 /\ d[2] = Hour - 1 /\ n[2] = 0
            /\ d[3] = Day - 1 /\ n[3] = 0 /\ n[4] = d[4] + 1
  PROVE  n[1] + n[2] * Minute + n[3] * HourLong + n[4] * DayLong
           = d[1] + d[2] * Minute + d[3] * HourLong + d[4] * DayLong + 1
<1>1. /\ Minute \in Nat /\ HourLong \in Nat /\ DayLong \in Nat /\ Hour \in Nat /\ Day \in Nat
      /\ Minute - 1 + (Hour - 1) * Minute = HourLong - 1
      /\ HourLong - 1 + (Day - 1) * HourLong = DayLong - 1
  BY Units, Calendar
<1>2. /\ d[1] \in Nat /\ d[2] \in Nat /\ d[3] \in Nat /\ d[4] \in Nat
  OBVIOUS
<1>3. CASE n[1] = d[1] + 1 /\ n[2] = d[2] /\ n[3] = d[3] /\ n[4] = d[4]
  BY <1>1, <1>2, <1>3
<1>4. CASE d[1] = Minute - 1 /\ n[1] = 0 /\ n[2] = d[2] + 1 /\ n[3] = d[3] /\ n[4] = d[4]
  BY <1>1, <1>2, <1>4
<1>5. CASE /\ d[1] = Minute - 1 /\ n[1] = 0 /\ d[2] = Hour - 1 /\ n[2] = 0 /\ n[3] = d[3] + 1
           /\ n[4] = d[4]
  BY <1>1, <1>2, <1>5
<1>6. CASE /\ d[1] = Minute - 1 /\ n[1] = 0 /\ d[2] = Hour - 1 /\ n[2] = 0
           /\ d[3] = Day - 1 /\ n[3] = 0 /\ n[4] = d[4] + 1
  BY <1>1, <1>2, <1>6
<1> QED
  BY <1>3, <1>4, <1>5, <1>6

(* A second counts for one, but for the end of a month.                     *)
LEMMA NextSeconds ==
  ASSUME NEW d \in Date
  PROVE  \/ /\ Seconds(NextSecond(d)) = Seconds(d) + 1
            /\ IntoMonth(NextSecond(d)) = IntoMonth(d) + 1
         \/ /\ NextSecond(d)[5] # d[5]
            /\ IntoMonth(NextSecond(d)) = 0 /\ IntoMonth(d) >= DayLong - 1
            /\ Jump(d[5], d[6]) \in Jumps
            /\ Seconds(NextSecond(d)) = Seconds(d) + 1 + Jump(d[5], d[6])
<1> DEFINE n == NextSecond(d)
<1>1. /\ n \in [1 .. 6 -> Nat]
      /\ n[1] = IF Ends1(d) THEN 0 ELSE d[1] + 1
      /\ n[2] = IF Ends2(d) THEN 0 ELSE IF Ends1(d) THEN d[2] + 1 ELSE d[2]
      /\ n[3] = IF Ends3(d) THEN 0 ELSE IF Ends2(d) THEN d[3] + 1 ELSE d[3]
      /\ n[4] = IF Ends4(d) THEN 1 ELSE IF Ends3(d) THEN d[4] + 1 ELSE d[4]
      /\ n[5] = IF Ends5(d) THEN 1 ELSE IF Ends4(d) THEN d[5] + 1 ELSE d[5]
      /\ n[6] = IF Ends6(d) THEN 0 ELSE IF Ends5(d) THEN d[6] + 1 ELSE d[6]
  BY NextFields
<1> HIDE DEF n
<1>2. /\ n[1] \in Nat /\ n[2] \in Nat /\ n[3] \in Nat /\ n[4] \in Nat /\ n[5] \in Nat /\ n[6] \in Nat
      /\ d[1] \in Nat /\ d[2] \in Nat /\ d[3] \in Nat /\ d[4] \in Nat /\ d[5] \in Nat /\ d[6] \in Nat
  BY <1>1, DateFields
<1>3. /\ Seconds(n) = n[1] + n[2] * Minute + n[3] * HourLong + n[4] * DayLong
                        + n[5] * MonthLong + n[6] * YearLong
      /\ IntoMonth(n) = n[1] + n[2] * Minute + n[3] * HourLong + (n[4] - 1) * DayLong
      /\ Seconds(n) \in Int
  BY <1>2, SecondsCounted
<1>4. /\ Seconds(d) = d[1] + d[2] * Minute + d[3] * HourLong + d[4] * DayLong
                        + d[5] * MonthLong + d[6] * YearLong
      /\ IntoMonth(d) = d[1] + d[2] * Minute + d[3] * HourLong + (d[4] - 1) * DayLong
      /\ Seconds(d) \in Int
  BY <1>2, SecondsCounted
<1>5. ASSUME ~Ends4(d)
      PROVE  Seconds(n) = Seconds(d) + 1 /\ IntoMonth(n) = IntoMonth(d) + 1
  <2>1. n[5] = d[5] /\ n[6] = d[6]
    BY <1>1, <1>5 DEF Ends5, Ends6
  <2>2. \/ n[1] = d[1] + 1 /\ n[2] = d[2] /\ n[3] = d[3] /\ n[4] = d[4]
        \/ d[1] = Minute - 1 /\ n[1] = 0 /\ n[2] = d[2] + 1 /\ n[3] = d[3] /\ n[4] = d[4]
        \/ /\ d[1] = Minute - 1 /\ n[1] = 0 /\ d[2] = Hour - 1 /\ n[2] = 0 /\ n[3] = d[3] + 1
           /\ n[4] = d[4]
        \/ /\ d[1] = Minute - 1 /\ n[1] = 0 /\ d[2] = Hour - 1 /\ n[2] = 0
           /\ d[3] = Day - 1 /\ n[3] = 0 /\ n[4] = d[4] + 1
    BY <1>1, <1>5 DEF Ends1, Ends2, Ends3
  <2>3. n[1] + n[2] * Minute + n[3] * HourLong + n[4] * DayLong
          = d[1] + d[2] * Minute + d[3] * HourLong + d[4] * DayLong + 1
    <3>1. d \in [1 .. 6 -> Nat]
      BY DEF Date, RTC_REGS
    <3> QED
      BY <1>1, <2>2, <3>1, Carried
  <2>4. /\ n[5] * MonthLong = d[5] * MonthLong /\ n[6] * YearLong = d[6] * YearLong
        /\ d[5] * MonthLong \in Int /\ d[6] * YearLong \in Int
    BY <1>2, <2>1, Units
  <2>5. /\ (n[4] - 1) * DayLong = n[4] * DayLong - DayLong
        /\ (d[4] - 1) * DayLong = d[4] * DayLong - DayLong
        /\ n[4] * DayLong \in Int /\ d[4] * DayLong \in Int /\ DayLong \in Int
        /\ n[2] * Minute \in Int /\ d[2] * Minute \in Int
        /\ n[3] * HourLong \in Int /\ d[3] * HourLong \in Int
    BY <1>2, Units
  <2>6. Seconds(n) = Seconds(d) + 1
    BY <1>2, <1>3, <1>4, <2>3, <2>4, <2>5
  <2>7. IntoMonth(n) = IntoMonth(d) + 1
    <3> DEFINE p == n[1] + n[2] * Minute + n[3] * HourLong + n[4] * DayLong
               q == d[1] + d[2] * Minute + d[3] * HourLong + d[4] * DayLong
    <3>1. IntoMonth(n) = p - DayLong
      BY <1>2, <1>3, <2>5
    <3>2. IntoMonth(d) = q - DayLong
      BY <1>2, <1>4, <2>5
    <3>3. p = q + 1 /\ q \in Int /\ DayLong \in Int
      BY <1>2, <2>3, <2>5
    <3> HIDE DEF p, q
    <3> QED
      BY <3>1, <3>2, <3>3
  <2> QED
    BY <2>6, <2>7
<1>6. ASSUME Ends4(d)
      PROVE  /\ n[5] # d[5]
             /\ IntoMonth(n) = 0 /\ IntoMonth(d) >= DayLong - 1
             /\ Jump(d[5], d[6]) \in Jumps
             /\ Seconds(n) = Seconds(d) + 1 + Jump(d[5], d[6])
  <2>1. /\ d[1] = Minute - 1 /\ d[2] = Hour - 1 /\ d[3] = Day - 1
        /\ d[4] = DaysOf(d[5], d[6] + Y2K) /\ d[4] >= 1
        /\ d = <<d[1], d[2], d[3], d[4], d[5], d[6]>>
    BY <1>6, DateFields DEF Ends1, Ends2, Ends3, Ends4
  <2>2. d = MonthEnd(d[5], d[6])
    BY <2>1, Zenon DEF MonthEnd
  <2>3. n[5] # d[5]
    <3>1. Len(daytab[1]) \in Nat /\ Len(daytab[1]) > 1
      BY Calendar
    <3> QED
      BY <1>1, <1>2, <1>6, <3>1 DEF Ends5
  <2>4. n[1] = 0 /\ n[2] = 0 /\ n[3] = 0 /\ n[4] = 1
    BY <1>1, <1>6 DEF Ends1, Ends2, Ends3, Ends4
  <2>5. IntoMonth(n) = 0
    BY <1>3, <2>4, Units
  <2>6. IntoMonth(d) >= DayLong - 1
    <3>1. (d[4] - 1) * DayLong \in Nat
      <4>1. d[4] - 1 \in Nat
        BY <1>2, <2>1
      <4> QED
        BY <4>1, Units
    <3>2. /\ Minute - 1 + (Hour - 1) * Minute = HourLong - 1
          /\ HourLong - 1 + (Day - 1) * HourLong = DayLong - 1
          /\ Minute \in Nat /\ HourLong \in Nat /\ DayLong \in Nat /\ Hour \in Nat /\ Day \in Nat
      BY Units, Calendar
    <3> QED
      BY <1>4, <2>1, <3>1, <3>2
  <2>7. Jump(d[5], d[6]) \in Jumps
    <3>1. d[5] \in Months /\ d[6] \in 0 .. Century - 1
      <4>1. Century \in Nat /\ d[6] <= Century - 1 /\ d[5] \in Months
        BY Calendar, DateFields
      <4> QED
        BY <1>2, <4>1
    <3> QED
      BY <3>1 DEF Jumps
  <2>8. Jump(d[5], d[6]) = Seconds(n) - Seconds(d) - 1
    BY <2>2 DEF Jump, n
  <2> QED
    BY <1>3, <1>4, <2>3, <2>5, <2>6, <2>7, <2>8
<1> QED
  BY <1>5, <1>6 DEF n

LEMMA IntoMonthCounts ==
  ASSUME NEW d \in Date
  PROVE  Seconds(d) \in Int /\ IntoMonth(d) \in Int
BY DateFields, SecondsCounted

LEMMA JumpIsInt ==
  ASSUME NEW month \in Months, NEW year \in 0 .. Century - 1
  PROVE  Jump(month, year) \in Int
<1> DEFINE d == MonthEnd(month, year)
<1>1. d \in Date
  <2>1. /\ Minute \in Nat \ {0} /\ Hour \in Nat \ {0} /\ Day \in Nat \ {0} /\ Century \in Nat \ {0}
        /\ Months = 1 .. Len(daytab[1]) /\ Len(daytab[1]) \in Nat
    BY Calendar
  <2>2. DaysOf(month, year + Y2K) \in Nat \ {0}
    <3>1. year + Y2K \in Int
      BY <2>1, Calendar
    <3> QED
      BY <3>1, Calendar
  <2>3. /\ d[1] = Minute - 1 /\ d[2] = Hour - 1 /\ d[3] = Day - 1
        /\ d[4] = DaysOf(month, year + Y2K) /\ d[5] = month /\ d[6] = year
    BY DEF MonthEnd
  <2>4. d \in [1 .. 6 -> Nat]
    <3>1. Minute - 1 \in Nat /\ Hour - 1 \in Nat /\ Day - 1 \in Nat /\ month \in Nat /\ year \in Nat
      BY <2>1
    <3> QED
      BY <2>2, <3>1 DEF MonthEnd
  <2>5. /\ d[1] \in 0 .. Minute - 1 /\ d[2] \in 0 .. Hour - 1 /\ d[3] \in 0 .. Day - 1
        /\ d[4] \in 1 .. DaysOf(d[5], d[6] + Y2K) /\ d[5] \in 1 .. Len(daytab[1])
        /\ d[6] \in 0 .. Century - 1
    BY <2>1, <2>2, <2>3
  <2> HIDE DEF d
  <2>6. /\ Highest(d)[1] = Minute - 1 /\ Highest(d)[2] = Hour - 1 /\ Highest(d)[3] = Day - 1
        /\ Highest(d)[4] = DaysOf(d[5], d[6] + Y2K) /\ Highest(d)[5] = Len(daytab[1])
        /\ Highest(d)[6] = Century - 1
    BY DEF Highest
  <2>7. /\ Lowest(1) = 0 /\ Lowest(2) = 0 /\ Lowest(3) = 0 /\ Lowest(4) = 1
        /\ Lowest(5) = 1 /\ Lowest(6) = 0
    BY DEF Lowest
  <2>8. \A r \in 1 .. 6 : d[r] \in Lowest(r) .. Highest(d)[r]
    <3>1. 1 .. 6 = {1, 2, 3, 4, 5, 6}
      OBVIOUS
    <3> QED
      BY <2>5, <2>6, <2>7, <3>1, Zenon
  <2> QED
    BY <2>3, <2>4, <2>8 DEF Date, RTC_REGS
<1>2. Seconds(d) \in Int /\ Seconds(NextSecond(d)) \in Int
  BY <1>1, NextKeepsDate, IntoMonthCounts
<1> QED
  BY <1>2 DEF Jump

-----------------------------------------------------------------------------
(* The count of milliseconds.                                               *)

LEMMA Divided ==
  ASSUME NEW a \in Int, NEW m \in Nat \ {0}
  PROVE  /\ a \div m \in Int /\ a % m \in Int /\ 0 <= a % m /\ a % m < m
         /\ a = m * (a \div m) + (a % m)
OBVIOUS

LEMMA CountInInt ==
  ASSUME NEW s \in Int
  PROVE  /\ Turn(s) \in Int /\ s * Millis - Turn(s) * Word \in Int
         /\ InInt(s * Millis - Turn(s) * Word)
<1>1. Millis \in Nat \ {0} /\ Word \in Nat \ {0}
  BY Calendar
<1> DEFINE half == Word \div 2
           a == s * Millis + half
<1>2. half \in Nat
  BY <1>1
<1> HIDE DEF half
<1>3. a \in Int /\ s * Millis = a - half /\ s * Millis \in Int
  BY <1>1, <1>2
<1> HIDE DEF a
<1>4. /\ a \div Word \in Int /\ 0 <= a % Word /\ a % Word < Word /\ a % Word \in Int
      /\ a = Word * (a \div Word) + (a % Word)
  BY <1>1, <1>3, Divided
<1> DEFINE t == a \div Word
           r == a % Word
<1>5. t \in Int /\ r \in Int /\ 0 <= r /\ r < Word /\ a = Word * t + r
  BY <1>4
<1>6. Turn(s) = t
  BY DEF Turn, t, a, half
<1> HIDE DEF t, r
<1>7. Word * t = t * Word /\ t * Word \in Int
  BY <1>1, <1>5
<1>8. s * Millis - t * Word = r - half
  BY <1>2, <1>3, <1>5, <1>7
<1>9. -half <= r - half /\ r - half < Word - half
  BY <1>1, <1>2, <1>5
<1> QED
  BY <1>2, <1>5, <1>6, <1>8, <1>9 DEF InInt, half

LEMMA MillisInInt ==
  ASSUME NEW f, Seconds(f) \in Int
  PROVE  toMillis(f) \in Int /\ InInt(toMillis(f))
BY CountInInt DEF toMillis

(* The quotient of the loop's test is rounded towards zero.                 *)
LEMMA QuotientBelow ==
  ASSUME NEW d \in Int, NEW b \in Nat \ {0}
  PROVE  Quotient(d) \in 0 .. b - 1 <=> -Millis < d /\ d < b * Millis
<1>1. Millis \in Nat \ {0}
  BY Calendar
<1>2. CASE d < 0
  <2> DEFINE q == (-d) \div Millis
             r == (-d) % Millis
  <2>1. -d \in Int
    OBVIOUS
  <2>2. q \in Int /\ r \in Int /\ 0 <= r /\ r < Millis /\ -d = Millis * q + r
    BY <1>1, <2>1, Divided
  <2>3. Quotient(d) = -q
    BY <1>2 DEF Quotient
  <2> HIDE DEF q, r
  <2>4. b * Millis > 0
    BY <1>1
  <2>5. CASE q >= 1
    <3>1. Millis * q >= Millis
      BY <1>1, <2>2, <2>5
    <3>2. d <= -Millis
      BY <1>1, <2>2, <3>1
    <3>3. ~(-q >= 0)
      BY <2>2, <2>5
    <3> QED
      BY <1>1, <2>2, <2>3, <3>2, <3>3
  <2>6. CASE q = 0
    <3>1. -d = r
      BY <1>1, <2>2, <2>6
    <3> QED
      BY <1>1, <1>2, <2>2, <2>3, <2>4, <2>6, <3>1
  <2>7. CASE q <= -1
    <3>1. Millis * q <= -Millis
      BY <1>1, <2>2, <2>7
    <3> QED
      BY <1>1, <1>2, <2>2, <3>1
  <2> QED
    BY <2>2, <2>5, <2>6, <2>7
<1>3. CASE d >= 0
  <2> DEFINE q == d \div Millis
             r == d % Millis
  <2>1. q \in Int /\ r \in Int /\ 0 <= r /\ r < Millis /\ d = Millis * q + r
    BY <1>1, Divided
  <2>2. Quotient(d) = q
    BY <1>3 DEF Quotient
  <2> HIDE DEF q, r
  <2>3. q >= 0
    <3>1. ASSUME q <= -1 PROVE FALSE
      <4>1. Millis * q <= -Millis
        BY <1>1, <2>1, <3>1
      <4> QED
        BY <1>1, <1>3, <2>1, <4>1
    <3> QED
      BY <2>1, <3>1
  <2>4. CASE q >= b
    <3>1. Millis * q >= b * Millis
      BY <1>1, <2>1, <2>4
    <3>2. d >= b * Millis
      BY <1>1, <2>1, <3>1
    <3> QED
      BY <1>1, <2>1, <2>2, <2>4, <3>2
  <2>5. CASE q <= b - 1
    <3>1. Millis * q <= b * Millis - Millis
      BY <1>1, <2>1, <2>5
    <3>2. d < b * Millis
      BY <1>1, <2>1, <3>1
    <3> QED
      BY <1>1, <1>3, <2>1, <2>2, <2>3, <2>5, <3>2
  <2> QED
    BY <2>1, <2>4, <2>5
<1> QED
  BY <1>2, <1>3

(* Once the time is over the count does not say that it goes on, whatever   *)
(* a month's end has done to it and wherever it has wrapped around.         *)
LEMMA OverIsOver ==
  ASSUME NEW time \in Waits, NEW k \in 0 .. Patience, NEW first \in Int, NEW turns \in Int,
         NEW jump \in Jumps \cup {0},
         NEW d \in Int, d = first + (k + jump) * Millis + turns * Word, -Word < d, d < Word,
         first < time * Millis, first + k * Millis >= time * Millis
  PROVE  Quotient(d) \notin 0 .. time - 1
<1>1. Millis \in Nat \ {0} /\ Word \in Nat \ {0} /\ Patience \in Nat
  BY Calendar
<1>2. time \in Nat \ {0}
  <2>1. Waits \subseteq 1 .. Minute * Hour * Day - 1 /\ Minute * Hour * Day \in Nat
    BY ClockAssumption, Calendar
  <2> QED
    BY <2>1
<1>3. PICK j \in Nat, q \in Int :
        jump \in Int /\ jump * Millis = q * Word + j /\ j + (Patience + time + 1) * Millis <= Word
  <2>1. CASE jump = 0
    <3>1. (Patience + time + 1) * Millis <= Word
      BY SeamAssumption
    <3>2. 0 \in Nat /\ 0 \in Int /\ jump * Millis = 0 * Word + 0
          /\ 0 + (Patience + time + 1) * Millis <= Word
      BY <1>1, <1>2, <2>1, <3>1
    <3> QED
      BY <2>1, <3>2
  <2>2. CASE jump \in Jumps
    <3>1. PICK month \in Months, year \in 0 .. Century - 1 : jump = Jump(month, year)
      BY <2>2 DEF Jumps
    <3>2. ((jump * Millis) % Word) + (Patience + time + 1) * Millis <= Word
      BY <3>1, SeamAssumption
    <3>3. jump \in Int
      BY <3>1, JumpIsInt
    <3>4. jump * Millis \in Int
      BY <1>1, <3>3
    <3>5. /\ (jump * Millis) \div Word \in Int /\ (jump * Millis) % Word \in Nat
          /\ jump * Millis = Word * ((jump * Millis) \div Word) + ((jump * Millis) % Word)
      <4> DEFINE a == jump * Millis
      <4>1. a \in Int
        BY <3>4
      <4> HIDE DEF a
      <4>2. /\ a \div Word \in Int /\ a % Word \in Int /\ 0 <= a % Word
            /\ a = Word * (a \div Word) + (a % Word)
        BY <1>1, <4>1, Divided
      <4>3. a % Word \in Nat
        BY <4>2
      <4> QED
        BY <4>2, <4>3 DEF a
    <3>6. Word * ((jump * Millis) \div Word) = ((jump * Millis) \div Word) * Word
      BY <1>1, <3>5
    <3> QED
      BY <3>2, <3>3, <3>5, <3>6
  <2> QED
    BY <2>1, <2>2
<1> DEFINE x == first + k * Millis + j
           n == q + turns
<1>4. /\ x \in Int /\ n \in Int /\ k * Millis \in Int /\ time * Millis \in Int
      /\ jump * Millis \in Int /\ q * Word \in Int /\ turns * Word \in Int
  BY <1>1, <1>2, <1>3
<1>5. x >= time * Millis
  BY <1>3, <1>4
<1>6. x <= Word - Millis
  <2>1. k * Millis <= Patience * Millis
    BY <1>1
  <2>2. (Patience + time + 1) * Millis = Patience * Millis + time * Millis + Millis
    BY <1>1, <1>2
  <2>3. Patience * Millis \in Int
    BY <1>1
  <2> QED
    BY <1>1, <1>3, <1>4, <2>1, <2>2, <2>3
<1>7. d = x + n * Word
  <2>1. (k + jump) * Millis = k * Millis + jump * Millis
    BY <1>1, <1>3
  <2>2. n * Word = q * Word + turns * Word
    BY <1>1, <1>3
  <2> QED
    BY <1>3, <1>4, <2>1, <2>2
<1> HIDE DEF x, n
<1>8. time * Millis > 0
  BY <1>1, <1>2
<1>9. CASE n = 0
  <2>1. d = x
    BY <1>1, <1>4, <1>7, <1>9
  <2>2. ~(d < time * Millis)
    BY <1>4, <1>5, <2>1
  <2> QED
    BY <1>2, <2>2, QuotientBelow
<1>10. CASE n <= -1
  <2>1. n * Word <= -Word
    BY <1>1, <1>4, <1>10
  <2>2. ~(-Millis < d)
    BY <1>1, <1>4, <1>6, <1>7, <2>1
  <2> QED
    BY <1>2, <2>2, QuotientBelow
<1>11. CASE n >= 1
  <2>1. n * Word >= Word
    BY <1>1, <1>4, <1>11
  <2> QED
    BY <1>1, <1>4, <1>5, <1>7, <1>8, <2>1
<1> QED
  BY <1>4, <1>9, <1>10, <1>11

-----------------------------------------------------------------------------
(* A date that is read steadily is the date.                                *)

LEMMA FromDigits ==
  ASSUME NEW n \in Nat
  PROVE  BCDToDecimal((n \div 10) * 16 + (n % 10)) = n
<1> DEFINE q == n \div 10
           r == n % 10
<1>1. q \in Nat /\ r \in Nat /\ r < 10 /\ n = 10 * q + r
  OBVIOUS
<1> HIDE DEF q, r
<1>2. (q * 16 + r) \div 16 = q /\ (q * 16 + r) % 16 = r
  BY <1>1
<1>3. BCDToDecimal(q * 16 + r) = q * 10 + r
  BY <1>2 DEF BCDToDecimal
<1> QED
  BY <1>1, <1>3 DEF q, r

LEMMA RegisterRead ==
  ASSUME now \in Date, NEW r \in 1 .. 6
  PROVE  BCDToDecimal(register(r)) = now[r] /\ now[r] \in Nat
<1>1. now[r] \in Nat
  BY DEF Date, RTC_REGS
<1> QED
  BY <1>1, FromDigits DEF register

LEMMA DateIsKept ==
  ASSUME NEW d \in Date
  PROVE  getTime(d) = {d}
<1>1. /\ d[3] \in Nat /\ d[3] <= Day - 1 /\ Day \in Nat /\ d[4] \in Nat /\ 1 <= d[4]
      /\ d[4] <= DaysOf(d[5], d[6] + Y2K) /\ d[5] \in Months
      /\ DaysOf(d[5], d[6] + Y2K) \in Nat
  BY DateFields, Calendar
<1>2. Adjusted(d) = d
  BY <1>1 DEF Adjusted
<1>3. DayLimits(d[5], d[6] + Y2K) = {DaysOf(d[5], d[6] + Y2K)}
  BY <1>1 DEF DayLimits
<1>4. d[4] > 0 /\ ~(d[4] > DaysOf(d[5], d[6] + Y2K))
  BY <1>1
<1>5. checkDay(d) = UNION {IF d[4] > limit THEN {IntoNextMonth(d)}
         ELSE IF d[4] > 0 THEN {d}
         ELSE {[MonthBefore(d) EXCEPT ![4] = e] : e \in DayLimits(MonthBefore(d)[5], MonthBefore(d)[6] + Y2K)} :
           limit \in {DaysOf(d[5], d[6] + Y2K)}}
  BY <1>3, Zenon DEF checkDay
<1>6. checkDay(d) = UNION {{d}}
  BY <1>4, <1>5, Zenon
<1> QED
  BY <1>2, <1>6, Zenon DEF getTime

LEMMA GetTimeTypes ==
  ASSUME NEW f \in [1 .. 6 -> Int], NEW g \in getTime(f)
  PROVE  g \in [1 .. 6 -> Int]
<1> DEFINE D == [1 .. 6 -> Int]
           a == Adjusted(f)
<1>1. ASSUME NEW d \in D PROVE DayLimits(d[5], d[6] + Y2K) \subseteq Int
  <2>1. Strays \subseteq Int
    BY ClockAssumption
  <2>2. CASE d[5] \in Months
    <3>1. d[6] + Y2K \in Int
      BY Calendar
    <3>2. DaysOf(d[5], d[6] + Y2K) \in Nat
      BY <2>2, <3>1, Calendar
    <3> QED
      BY <2>2, <3>2 DEF DayLimits
  <2>3. CASE d[5] \notin Months
    BY <2>1, <2>3 DEF DayLimits
  <2> QED
    BY <2>2, <2>3
<1>2. a \in D
  <2>1. Day \in Int
    BY Calendar
  <2> QED
    BY <2>1 DEF Adjusted
<1> HIDE DEF a
<1>3. IntoNextMonth(a) \in D
  <2>1. /\ [a EXCEPT ![4] = 1, ![5] = 1, ![6] = @ + 1] \in D
        /\ [a EXCEPT ![4] = 1, ![5] = @ + 1] \in D
    BY <1>2
  <2> QED
    BY <2>1, Zenon DEF IntoNextMonth
<1>4. MonthBefore(a) \in D
  <2>1. Len(daytab[1]) \in Int
    BY Calendar
  <2>2. [a EXCEPT ![5] = Len(daytab[1]), ![6] = @ - 1] \in D /\ [a EXCEPT ![5] = @ - 1] \in D
    <3> DEFINE len == Len(daytab[1])
    <3> HIDE DEF len
    <3>1. len \in Int
      BY <2>1 DEF len
    <3>2. [a EXCEPT ![5] = len, ![6] = @ - 1] \in D /\ [a EXCEPT ![5] = @ - 1] \in D
      BY <1>2, <3>1
    <3> QED
      BY <3>2 DEF len
  <2> QED
    BY <2>2, Zenon DEF MonthBefore
<1> DEFINE b == MonthBefore(a)
<1>5. \A e \in DayLimits(b[5], b[6] + Y2K) : [b EXCEPT ![4] = e] \in D
  BY <1>1, <1>4
<1>6. getTime(f) = checkDay(a)
  BY DEF getTime, a
<1>7. PICK limit \in DayLimits(a[5], a[6] + Y2K) :
        g \in IF a[4] > limit THEN {IntoNextMonth(a)}
              ELSE IF a[4] > 0 THEN {a}
              ELSE {[b EXCEPT ![4] = e] : e \in DayLimits(b[5], b[6] + Y2K)}
  BY <1>6, Zenon DEF checkDay
<1> HIDE DEF b
<1>8. \/ g = IntoNextMonth(a) \/ g = a
      \/ \E e \in DayLimits(b[5], b[6] + Y2K) : g = [b EXCEPT ![4] = e]
  BY <1>7, Zenon
<1> QED
  BY <1>2, <1>3, <1>5, <1>8, Zenon

LEMMA Appended ==
  ASSUME NEW S, NEW s \in Seq(S), NEW x \in S
  PROVE  /\ Append(s, x) \in Seq(S) /\ Len(Append(s, x)) = Len(s) + 1
         /\ \A i \in 1 .. Len(s) : Append(s, x)[i] = s[i]
         /\ Append(s, x)[Len(s) + 1] = x
OBVIOUS

LEMMA SeqIsFunction ==
  ASSUME NEW S, NEW s \in Seq(S)
  PROVE  s \in [1 .. Len(s) -> S]
OBVIOUS

LEMMA SixthField ==
  ASSUME NEW s \in Seq(Nat), Len(s) = 5, NEW x \in Nat
  PROVE  /\ Append(s, x) \in [1 .. 6 -> Nat] /\ Append(s, x)[6] = x
         /\ \A r \in 1 .. 5 : Append(s, x)[r] = s[r]
<1> DEFINE t == Append(s, x)
<1>1. /\ t \in Seq(Nat) /\ Len(t) = Len(s) + 1
      /\ \A i \in 1 .. Len(s) : t[i] = s[i]
      /\ t[Len(s) + 1] = x
  BY Appended
<1> HIDE DEF t
<1>2. 5 + 1 = 6
  OBVIOUS
<1>3. t \in Seq(Nat) /\ Len(t) = 6
  BY <1>1, <1>2
<1>4. t \in [1 .. 6 -> Nat]
  <2>1. t \in [1 .. Len(t) -> Nat]
    BY <1>3, SeqIsFunction
  <2> QED
    BY <1>3, <2>1
<1>5. t[6] = x /\ \A r \in 1 .. 5 : t[r] = s[r]
  BY <1>1, <1>2
<1> QED
  BY <1>4, <1>5 DEF t

LEMMA SteadyRead ==
  ASSUME ClockTypes, ReadPart, chosen, steady, Len(fields) = 5
  PROVE  Dates = {toMillis(now)}
<1>1. /\ now \in Date /\ fields \in Seq(Nat) /\ index = 6
      /\ \A r \in 1 .. 5 : fields[r] = now[r]
  BY DEF ClockTypes, ReadPart
<1>2. now \in [1 .. 6 -> Nat]
  BY <1>1 DEF Date, RTC_REGS
<1>3. BCDToDecimal(register(index)) = now[6]
  BY <1>1, RegisterRead
<1>4. Append(fields, now[6]) = now
  <2>1. /\ Append(fields, now[6]) \in [1 .. 6 -> Nat] /\ Append(fields, now[6])[6] = now[6]
        /\ \A r \in 1 .. 5 : Append(fields, now[6])[r] = fields[r]
    <3>1. now[6] \in Nat
      BY <1>2
    <3> QED
      BY <1>1, <3>1, SixthField
  <2>2. \A r \in 1 .. 6 : r \in 1 .. 5 \/ r = 6
    OBVIOUS
  <2> DEFINE read == Append(fields, now[6])
  <2>3. \A r \in 1 .. 6 : read[r] = now[r]
    BY <1>1, <2>1, <2>2
  <2>4. read \in [1 .. 6 -> Nat]
    BY <2>1
  <2> HIDE DEF read
  <2>5. read = now
    BY <1>2, <2>3, <2>4
  <2> QED
    BY <2>5 DEF read
<1>5. getTime(Append(fields, BCDToDecimal(register(index)))) = {now}
  BY <1>1, <1>3, <1>4, DateIsKept
<1> QED
  BY <1>5 DEF Dates

(* Whatever was read, the clock's count of it is an int. *)
LEMMA DatesInInt ==
  ASSUME ClockTypes, chosen, Len(fields) = 5, NEW end \in Dates
  PROVE  end \in Int /\ InInt(end)
<1>1. /\ fields \in Seq(Nat) /\ index \in 1 .. 6 /\ now \in Date
  BY DEF ClockTypes, chosen, NoIndex
<1> DEFINE f == Append(fields, BCDToDecimal(register(index)))
<1>2. f \in [1 .. 6 -> Int]
  <2>1. BCDToDecimal(register(index)) \in Nat
    BY <1>1, RegisterRead
  <2>2. f \in [1 .. 6 -> Nat]
    BY <1>1, <2>1, SixthField
  <2> QED
    BY <2>2
<1> HIDE DEF f
<1>3. PICK g \in getTime(f) : end = toMillis(g)
  BY DEF Dates, f
<1>4. g \in [1 .. 6 -> Int]
  BY <1>2, GetTimeTypes
<1>5. Seconds(g) \in Int
  BY <1>4, SecondsCounted
<1> QED
  BY <1>3, <1>5, MillisInInt

-----------------------------------------------------------------------------
(* The steps.                                                               *)

LEMMA WaitsArePositive ==
  ASSUME NEW time \in Waits
  PROVE  time \in Nat \ {0}
<1>1. Waits \subseteq 1 .. Minute * Hour * Day - 1 /\ Minute * Hour * Day \in Nat
  BY ClockAssumption, Calendar
<1> QED
  BY <1>1

LEMMA ClockInitially == ClockInit => ClockInv
<1> SUFFICES ASSUME ClockInit PROVE ClockInv
  OBVIOUS
<1>1. now \in Date /\ Patience \in Nat
  BY BeginsAssumption, Calendar DEF ClockInit
<1>2. /\ index = 0 /\ at = "idle" /\ fields = <<>> /\ start = 0 /\ slept = 0 /\ steady = TRUE
      /\ trusted = "no" /\ seam = FALSE
  BY DEF ClockInit, NoIndex
<1>3. ClockTypes
  <2>1. fields \in Seq(Nat) /\ Len(fields) = 0
    BY <1>2
  <2>2. slept \in 0 .. Patience /\ index \in 0 .. 6 /\ start \in Int /\ Len(fields) <= 5
    BY <1>1, <1>2, <2>1
  <2> QED
    BY <1>1, <1>2, <2>1, <2>2 DEF ClockTypes
<1>4. ReadPart
  BY <1>2 DEF ReadPart, Reading, chosen, NoIndex
<1>5. JudgedPart
  BY <1>2 DEF JudgedPart
<1> QED
  BY <1>3, <1>4, <1>5 DEF ClockInv

(* What a judgement is about does not change while nothing but reads happen. *)
LEMMA JudgementKept ==
  ASSUME JudgedPart,
         now' = now /\ start' = start /\ slept' = slept /\ seam' = seam /\ asked' = asked,
         at' = at, trusted' = trusted
  PROVE  JudgedPart'
BY DEF JudgedPart, Apart, InInt, toMillis, Seconds, Turn, IntoMonth

LEMMA WaitKeeps == ClockInv /\ wait_seconds => ClockInv'
<1> SUFFICES ASSUME ClockInv, wait_seconds PROVE ClockInv'
  OBVIOUS
<1>1. /\ at = "idle" /\ at' = "start" /\ asked' \in Waits
      /\ now' = now /\ index' = index /\ fields' = fields /\ start' = start /\ slept' = slept
      /\ steady' = steady /\ trusted' = trusted /\ seam' = seam
  BY DEF wait_seconds
<1>2. ClockTypes'
  BY <1>1 DEF ClockInv, ClockTypes
<1>3. slept = 0 /\ ~seam /\ trusted = "no"
  BY <1>1 DEF ClockInv, ReadPart
<1>4. ReadPart'
  BY <1>1, <1>3 DEF ClockInv, ReadPart, chosen
<1>5. JudgedPart'
  BY <1>1, <1>3 DEF JudgedPart
<1> QED
  BY <1>2, <1>4, <1>5 DEF ClockInv

LEMMA ChooseKeeps == ClockInv /\ rtcChoose => ClockInv'
<1> SUFFICES ASSUME ClockInv, rtcChoose PROVE ClockInv'
  OBVIOUS
<1>1. /\ at # "idle" /\ index' = Len(fields) + 1
      /\ now' = now /\ at' = at /\ asked' = asked /\ fields' = fields /\ start' = start
      /\ slept' = slept /\ steady' = steady /\ trusted' = trusted /\ seam' = seam
  BY DEF rtcChoose
<1>2. index' \in 0 .. 6
  <2>1. Len(fields) \in Nat /\ Len(fields) <= 5
    BY DEF ClockInv, ClockTypes
  <2> QED
    BY <1>1, <2>1
<1>3. ClockTypes'
  BY <1>1, <1>2 DEF ClockInv, ClockTypes
<1>4. ReadPart'
  BY <1>1 DEF ClockInv, ReadPart, chosen
<1>5. JudgedPart'
  BY <1>1, JudgementKept DEF ClockInv
<1> QED
  BY <1>3, <1>4, <1>5 DEF ClockInv

LEMMA ReadKeeps == ClockInv /\ rtcRead => ClockInv'
<1> SUFFICES ASSUME ClockInv, rtcRead PROVE ClockInv'
  OBVIOUS
<1> DEFINE x == BCDToDecimal(register(index))
<1>1. /\ chosen /\ index' = 0 /\ Len(fields) < 5 /\ fields' = Append(fields, x)
      /\ now' = now /\ at' = at /\ asked' = asked /\ start' = start
      /\ slept' = slept /\ steady' = steady /\ trusted' = trusted /\ seam' = seam
  BY DEF rtcRead, NoIndex
<1>2. index \in 1 .. 6 /\ now \in Date /\ fields \in Seq(Nat) /\ Len(fields) \in Nat
  BY <1>1 DEF ClockInv, ClockTypes, chosen, NoIndex
<1>3. x = now[index] /\ x \in Nat
  BY <1>2, RegisterRead
<1> HIDE DEF x
<1>4. /\ fields' \in Seq(Nat) /\ Len(fields') = Len(fields) + 1
      /\ \A r \in 1 .. Len(fields) : fields'[r] = fields[r]
      /\ fields'[Len(fields) + 1] = x
  BY <1>1, <1>2, <1>3, Appended
<1>5. ClockTypes'
  <2>1. Len(fields') <= 5
    BY <1>1, <1>2, <1>4
  <2> QED
    BY <1>1, <1>4, <2>1 DEF ClockInv, ClockTypes
<1>6. at # "idle"
  BY <1>1 DEF ClockInv, ReadPart, Reading
<1>7. ASSUME steady PROVE \A r \in 1 .. Len(fields') : fields'[r] = now[r]
  <2>1. index = Len(fields) + 1 /\ \A r \in 1 .. Len(fields) : fields[r] = now[r]
    BY <1>1, <1>7 DEF ClockInv, ReadPart
  <2>2. \A r \in 1 .. Len(fields') : r \in 1 .. Len(fields) \/ r = Len(fields) + 1
    BY <1>2, <1>4
  <2> QED
    BY <1>3, <1>4, <2>1, <2>2
<1>8. ReadPart'
  BY <1>1, <1>6, <1>7 DEF ClockInv, ReadPart, chosen, NoIndex
<1>9. JudgedPart'
  BY <1>1, JudgementKept DEF ClockInv
<1> QED
  BY <1>5, <1>8, <1>9 DEF ClockInv

(* A date that is complete leaves nothing read. *)
LEMMA CompletesFacts ==
  ASSUME ClockInv, Completes
  PROVE  /\ chosen /\ Len(fields) = 5 /\ index' = 0 /\ fields' = <<>> /\ steady' = TRUE
         /\ fields' \in Seq(Nat) /\ Len(fields') = 0 /\ ~Reading' /\ ~chosen'
         /\ \A end \in Dates : end \in Int /\ InInt(end)
         /\ steady => Dates = {toMillis(now)}
         /\ toMillis(now) \in Int /\ InInt(toMillis(now))
<1>1. chosen /\ Len(fields) = 5 /\ index' = 0 /\ fields' = <<>> /\ steady' = TRUE
  BY DEF Completes, NoIndex
<1>2. fields' \in Seq(Nat) /\ Len(fields') = 0 /\ ~Reading' /\ ~chosen'
  BY <1>1 DEF Reading, chosen, NoIndex
<1>3. \A end \in Dates : end \in Int /\ InInt(end)
  BY <1>1, DatesInInt DEF ClockInv
<1>4. steady => Dates = {toMillis(now)}
  BY <1>1, SteadyRead DEF ClockInv
<1>5. toMillis(now) \in Int /\ InInt(toMillis(now))
  <2>1. now \in Date
    BY DEF ClockInv, ClockTypes
  <2> QED
    BY <2>1, IntoMonthCounts, MillisInInt
<1> QED
  BY <1>1, <1>2, <1>3, <1>4, <1>5

LEMMA StartKeeps == ClockInv /\ startRead => ClockInv'
<1> SUFFICES ASSUME ClockInv, startRead PROVE ClockInv'
  OBVIOUS
<1>1. /\ at = "start" /\ Completes /\ start' \in Dates /\ at' = "check"
      /\ trusted' = (IF steady THEN "steady" ELSE "unjudged")
      /\ now' = now /\ asked' = asked /\ slept' = slept /\ seam' = seam
  BY DEF startRead
<1>2. /\ index' = 0 /\ steady' = TRUE /\ fields' \in Seq(Nat) /\ Len(fields') = 0
      /\ ~Reading' /\ ~chosen' /\ start' \in Int /\ InInt(start')
      /\ steady => start' = toMillis(now)
      /\ toMillis(now) \in Int
  BY <1>1, CompletesFacts
<1>3. ClockTypes'
  BY <1>1, <1>2 DEF ClockInv, ClockTypes
<1>4. ReadPart'
  <2>1. 1 .. Len(fields') = {}
    BY <1>2
  <2> QED
    BY <1>1, <1>2, <2>1 DEF ReadPart
<1>5. ASSUME trusted' = "steady"
      PROVE  Apart(0, 0, 0)'
  <2>1. steady
    BY <1>1, <1>5
  <2>2. slept = 0 /\ ~seam
    BY <1>1, <2>1 DEF ClockInv, ReadPart
  <2>3. (toMillis(now) - start)' = 0
    <3>1. toMillis(now)' = toMillis(now)
      BY <1>1 DEF toMillis, Seconds, Turn
    <3> QED
      BY <1>2, <2>1, <3>1
  <2>4. 0 + (slept' + 0) * Millis + 0 * Word = 0
    BY <1>1, <2>2, Calendar
  <2> QED
    BY <1>1, <2>2, <2>3, <2>4 DEF Apart
<1>6. JudgedPart'
  <2>1. trusted' # "prompt"
    BY <1>1
  <2>2. InInt(start)'
    BY <1>2 DEF InInt
  <2>3. 0 \in Jumps \cup {0} /\ 0 \in Int
    OBVIOUS
  <2> QED
    BY <1>5, <2>1, <2>2, <2>3 DEF JudgedPart
<1> QED
  BY <1>3, <1>4, <1>6 DEF ClockInv

(* A check that was read steadily finds the clock apart from the start.     *)
LEMMA CheckKeeps == ClockInv /\ checkRead => ClockInv'
<1> SUFFICES ASSUME ClockInv, checkRead PROVE ClockInv'
  OBVIOUS
<1>1. PICK end \in Dates :
        /\ at = "check" /\ Completes /\ now' = now
        /\ IF GoesOn(end) THEN GoesToSleepAgain ELSE Returns
  BY DEF checkRead
<1>2. /\ index' = 0 /\ steady' = TRUE /\ fields' \in Seq(Nat) /\ Len(fields') = 0
      /\ ~Reading' /\ ~chosen' /\ 1 .. Len(fields') = {}
      /\ steady => Dates = {toMillis(now)}
      /\ toMillis(now) \in Int
  BY <1>1, CompletesFacts
<1>3. CASE Returns
  <2>1. /\ at' = "idle" /\ asked' = 0 /\ start' = 0 /\ trusted' = "no" /\ slept' = 0 /\ seam' = FALSE
    BY <1>3 DEF Returns
  <2>2. slept' \in 0 .. Patience /\ start' \in Int /\ index' \in 0 .. 6 /\ Len(fields') <= 5
    BY <1>2, <2>1, Calendar
  <2>3. ClockTypes'
    BY <1>1, <1>2, <2>1, <2>2 DEF ClockInv, ClockTypes
  <2>4. ReadPart'
    BY <1>2, <2>1 DEF ReadPart
  <2>5. JudgedPart'
    BY <2>1 DEF JudgedPart
  <2> QED
    BY <2>3, <2>4, <2>5 DEF ClockInv
<1>4. CASE GoesOn(end) /\ GoesToSleepAgain
  <2>1. /\ trusted' = (IF trusted # "unjudged" THEN trusted
                       ELSE IF steady /\ slept = 0 THEN "prompt" ELSE "no")
        /\ at' = at /\ asked' = asked /\ start' = start /\ slept' = slept /\ seam' = seam
    BY <1>4 DEF GoesToSleepAgain
  <2>2. index' \in 0 .. 6 /\ Len(fields') <= 5
    BY <1>2
  <2>3. ClockTypes'
    BY <1>1, <1>2, <2>1, <2>2 DEF ClockInv, ClockTypes
  <2>4. ReadPart'
    BY <1>1, <1>2, <2>1 DEF ReadPart
  <2>5. CASE trusted' = trusted
    <3>1. JudgedPart'
      BY <1>1, <2>1, <2>5, JudgementKept DEF ClockInv
    <3> QED
      BY <2>3, <2>4, <3>1 DEF ClockInv
  <2>6. CASE trusted' = "no"
    <3>1. JudgedPart'
      BY <1>1, <2>1, <2>6 DEF ClockInv, JudgedPart, InInt
    <3> QED
      BY <2>3, <2>4, <3>1 DEF ClockInv
  <2>7. CASE trusted' = "prompt" /\ trusted = "unjudged"
    <3>1. steady /\ slept = 0
      BY <2>1, <2>7
    <3>2. end = toMillis(now) /\ start \in Int /\ toMillis(now) - start \in Int
      BY <1>2, <3>1 DEF ClockInv, ClockTypes
    <3> PICK first \in Int : first = toMillis(now) - start
      BY <3>2
    <3>3. asked \in Nat \ {0}
      BY <1>1, WaitsArePositive DEF ClockInv, ClockTypes
    <3>4. Quotient(first) \in 0 .. asked - 1
      BY <1>4, <3>2 DEF GoesOn
    <3>5. -Millis < first /\ first < asked * Millis
      BY <3>2, <3>3, <3>4, QuotientBelow
    <3>6. (toMillis(now) - start)' = first
      BY <1>1, <2>1 DEF toMillis, Seconds, Turn
    <3>7. first = first + (slept' + 0) * Millis + 0 * Word
      BY <2>1, <3>1, Calendar
    <3>8. first \in Int
      OBVIOUS
    <3>9. Apart(first, 0, 0)'
      BY <3>6, <3>7 DEF Apart
    <3>10. InInt(start)'
      BY <1>1, <2>1 DEF ClockInv, JudgedPart, InInt
    <3>11. 0 \in Jumps \cup {0} /\ 0 \in Int
      OBVIOUS
    <3>12. JudgedPart'
      BY <2>1, <2>7, <3>5, <3>8, <3>9, <3>10, <3>11 DEF JudgedPart
    <3> QED
      BY <2>3, <2>4, <3>12 DEF ClockInv
  <2> QED
    BY <2>1, <2>5, <2>6, <2>7
<1> QED
  BY <1>1, <1>3, <1>4

LEMMA OtherKeeps == ClockInv /\ OtherChooses => ClockInv'
<1> SUFFICES ASSUME ClockInv, OtherChooses PROVE ClockInv'
  OBVIOUS
<1>1. /\ chosen /\ index' \in RTC_REGS /\ steady' = (steady /\ ~Reading)
      /\ now' = now /\ at' = at /\ asked' = asked /\ fields' = fields /\ start' = start
      /\ trusted' = trusted /\ slept' = slept /\ seam' = seam
  BY DEF OtherChooses, Disturbs, sleeper
<1>2. ~steady' /\ steady' \in BOOLEAN /\ at # "idle"
  BY <1>1 DEF Reading, ClockInv, ReadPart
<1>3. index' \in 0 .. 6
  BY <1>1 DEF RTC_REGS
<1>4. ClockTypes'
  BY <1>1, <1>2, <1>3 DEF ClockInv, ClockTypes
<1>5. ReadPart'
  BY <1>1, <1>2 DEF ClockInv, ReadPart
<1>6. JudgedPart'
  BY <1>1, JudgementKept DEF ClockInv
<1> QED
  BY <1>4, <1>5, <1>6 DEF ClockInv

(* Another second: the clock and the time stay as far apart, but for one    *)
(* end of a month.  The next one is a day away, which is as long as waits   *)
(* last.                                                                    *)
LEMMA TickApart ==
  ASSUME ClockTypes, slept < Patience, now' = NextSecond(now), start' = start,
         slept' = slept + 1,
         seam' = (seam \/ now'[5] # now[5] \/ Turn(Seconds(now')) # Turn(Seconds(now))),
         NEW first \in Int, NEW jump \in Jumps \cup {0}, NEW turns \in Int, Apart(first, jump, turns)
  PROVE  \E jump2 \in Jumps \cup {0}, turns2 \in Int : Apart(first, jump2, turns2)'
<1>1. /\ now \in Date /\ start \in Int /\ slept \in Nat /\ slept <= Patience /\ Patience \in Nat
      /\ Millis \in Nat /\ Word \in Nat /\ DayLong \in Nat /\ Patience <= DayLong
  BY Calendar, Units DEF ClockTypes
<1>2. /\ toMillis(now) - start = first + (slept + jump) * Millis + turns * Word
      /\ jump = 0 \/ IntoMonth(now) < slept
      /\ ~seam => jump = 0 /\ turns = 0
  BY DEF Apart
<1>3. jump \in Int
  BY JumpIsInt DEF Jumps
<1> DEFINE n == NextSecond(now)
           s == Seconds(now)
           t == Turn(s)
           u == Turn(Seconds(n))
<1>4. n \in Date
  BY <1>1, NextKeepsDate
<1>5. s \in Int /\ Seconds(n) \in Int /\ IntoMonth(now) \in Int /\ IntoMonth(n) \in Int
  BY <1>1, <1>4, IntoMonthCounts
<1>6. t \in Int /\ u \in Int
  BY <1>5, CountInInt
<1>7. toMillis(now) = s * Millis - t * Word /\ toMillis(n) = Seconds(n) * Millis - u * Word
  BY DEF toMillis
<1>8. toMillis(now)' = toMillis(n) /\ IntoMonth(now)' = IntoMonth(n)
  BY DEF toMillis, Seconds, Turn, IntoMonth
<1>9. seam' = (seam \/ n[5] # now[5] \/ u # t)
  OBVIOUS
<1>10. \/ Seconds(n) = s + 1 /\ IntoMonth(n) = IntoMonth(now) + 1
       \/ /\ n[5] # now[5] /\ IntoMonth(n) = 0 /\ IntoMonth(now) >= DayLong - 1
          /\ \E j \in Jumps : Seconds(n) = s + 1 + j
  BY <1>1, NextSeconds
<1> HIDE DEF n, s, t, u
<1> PICK turns2 \in Int : turns2 = turns + t - u
  BY <1>6
<1>11. turns2 \in Int /\ turns2 * Word = turns * Word + t * Word - u * Word
  BY <1>1, <1>6
<1>12. CASE Seconds(n) = s + 1 /\ IntoMonth(n) = IntoMonth(now) + 1
  <2>1. (s + 1) * Millis = s * Millis + Millis
    BY <1>1, <1>5
  <2>2. (slept + 1 + jump) * Millis = (slept + jump) * Millis + Millis
    BY <1>1, <1>3
  <2>3. /\ s * Millis \in Int /\ t * Word \in Int /\ u * Word \in Int /\ turns * Word \in Int
        /\ (slept + jump) * Millis \in Int
    BY <1>1, <1>3, <1>5, <1>6
  <2>4. toMillis(n) - start = first + (slept + 1 + jump) * Millis + turns2 * Word
    BY <1>1, <1>2, <1>7, <1>11, <1>12, <2>1, <2>2, <2>3
  <2>5. jump = 0 \/ IntoMonth(n) < slept + 1
    BY <1>1, <1>2, <1>5, <1>12
  <2>6. ~seam' => jump = 0 /\ turns2 = 0
    <3>1. ~seam' => ~seam /\ u = t
      BY <1>9, Zenon
    <3>2. turns = 0 /\ u = t => turns2 = 0
      BY <1>6
    <3> QED
      BY <1>2, <3>1, <3>2
  <2>7. Apart(first, jump, turns2)'
    BY <1>8, <2>4, <2>5, <2>6 DEF Apart
  <2> QED
    BY <1>11, <2>7
<1>13. ASSUME n[5] # now[5], IntoMonth(n) = 0, IntoMonth(now) >= DayLong - 1,
              NEW j \in Jumps, Seconds(n) = s + 1 + j
       PROVE  \E jump2 \in Jumps \cup {0}, turns3 \in Int : Apart(first, jump2, turns3)'
  <2>1. jump = 0
    BY <1>1, <1>2, <1>5, <1>13
  <2>2. j \in Int
    BY JumpIsInt DEF Jumps
  <2>3. (s + 1 + j) * Millis = s * Millis + (1 + j) * Millis
    BY <1>1, <1>5, <2>2
  <2>4. (slept + 1 + j) * Millis = (slept + 0) * Millis + (1 + j) * Millis
    BY <1>1, <2>2
  <2>5. /\ s * Millis \in Int /\ t * Word \in Int /\ u * Word \in Int /\ turns * Word \in Int
        /\ (slept + 0) * Millis \in Int /\ (1 + j) * Millis \in Int
    BY <1>1, <1>5, <1>6, <2>2
  <2>6. toMillis(n) - start = first + (slept + 1 + j) * Millis + turns2 * Word
    <3>1. toMillis(now) - start = first + (slept + 0) * Millis + turns * Word
      BY <1>2, <2>1
    <3>2. toMillis(n) = s * Millis + (1 + j) * Millis - u * Word
      <4>1. toMillis(n) = (s + 1 + j) * Millis - u * Word
        BY <1>7, <1>13
      <4> QED
        BY <2>3, <2>5, <4>1
    <3>3. toMillis(now) = s * Millis - t * Word
      BY <1>7
    <3> QED
      BY <1>1, <1>11, <2>4, <2>5, <3>1, <3>2, <3>3
  <2>7. IntoMonth(n) < slept + 1
    BY <1>1, <1>13
  <2>8. seam'
    BY <1>9, <1>13
  <2>9. Apart(first, j, turns2)'
    BY <1>8, <2>6, <2>7, <2>8 DEF Apart
  <2> QED
    BY <1>11, <2>9
<1> QED
  BY <1>10, <1>12, <1>13

LEMMA TickKeeps == ClockInv /\ Tick => ClockInv'
<1> SUFFICES ASSUME ClockInv, Tick PROVE ClockInv'
  OBVIOUS
<1>1. /\ slept < Patience /\ (at = "start" => Reading) /\ now' = NextSecond(now)
      /\ slept' = (IF Counting THEN slept + 1 ELSE slept)
      /\ seam' = (seam \/ (Counting /\ (now'[5] # now[5] \/ Turn(Seconds(now')) # Turn(Seconds(now)))))
      /\ steady' = (steady /\ ~Reading)
      /\ index' = index /\ at' = at /\ asked' = asked /\ fields' = fields /\ start' = start
      /\ trusted' = trusted
  BY DEF Tick, Disturbs, sleeper
<1>2. slept \in Nat /\ Patience \in Nat
  BY Calendar DEF ClockInv, ClockTypes
<1>3. ClockTypes'
  <2>1. now' \in Date
    BY <1>1, NextKeepsDate DEF ClockInv, ClockTypes
  <2>2. slept' \in 0 .. Patience
    BY <1>1, <1>2
  <2>3. steady' \in BOOLEAN /\ seam' \in BOOLEAN
    BY <1>1 DEF ClockInv, ClockTypes
  <2> QED
    BY <1>1, <2>1, <2>2, <2>3 DEF ClockInv, ClockTypes
<1>4. ReadPart'
  <2>1. ASSUME steady'
        PROVE  fields' = <<>> /\ ~chosen' /\ at' # "start" /\ 1 .. Len(fields') = {}
    <3>1. fields = <<>> /\ ~chosen /\ at # "start"
      BY <1>1, <2>1 DEF Reading
    <3>2. Len(fields) = 0
      BY <3>1
    <3>3. 1 .. Len(fields) = {}
      BY <3>2
    <3> QED
      BY <1>1, <3>1, <3>3 DEF chosen
  <2>2. ASSUME at' = "idle"
        PROVE  slept' = 0 /\ ~seam' /\ ~Reading'
    <3>1. slept = 0 /\ ~seam /\ ~Reading
      BY <1>1, <2>2 DEF ClockInv, ReadPart
    <3>2. ~Counting
      BY <1>1, <2>2, <3>1 DEF Counting
    <3> QED
      BY <1>1, <3>1, <3>2 DEF Reading, chosen
  <2>3. at' # "check" => trusted' = "no"
    BY <1>1 DEF ClockInv, ReadPart
  <2> QED
    BY <2>1, <2>2, <2>3 DEF ReadPart
<1>5. JudgedPart'
  <2>1. CASE at # "check"
    <3>1. trusted' = "no" /\ at' # "check"
      BY <1>1, <2>1 DEF ClockInv, ReadPart
    <3> QED
      BY <3>1 DEF JudgedPart
  <2>2. CASE at = "check"
    <3>1. Counting
      BY <2>2 DEF Counting
    <3>2. /\ slept' = slept + 1
          /\ seam' = (seam \/ now'[5] # now[5] \/ Turn(Seconds(now')) # Turn(Seconds(now)))
      BY <1>1, <3>1
    <3>3. ASSUME NEW first \in Int, NEW jump \in Jumps \cup {0}, NEW turns \in Int,
                 Apart(first, jump, turns)
          PROVE  \E jump2 \in Jumps \cup {0}, turns2 \in Int : Apart(first, jump2, turns2)'
      BY <1>1, <3>2, <3>3, TickApart DEF ClockInv
    <3>4. InInt(start)'
      BY <1>1, <2>2 DEF ClockInv, JudgedPart, InInt
    <3>5. ASSUME trusted' = "steady"
          PROVE  \E jump \in Jumps \cup {0}, turns \in Int : Apart(0, jump, turns)'
      <4>1. PICK jump \in Jumps \cup {0}, turns \in Int : Apart(0, jump, turns)
        BY <1>1, <3>5 DEF ClockInv, JudgedPart
      <4>2. 0 \in Int
        OBVIOUS
      <4> QED
        BY <3>3, <4>1, <4>2
    <3>6. ASSUME trusted' = "prompt"
          PROVE  \E first, turns \in Int, jump \in Jumps \cup {0} :
                   -Millis < first /\ first < asked' * Millis /\ Apart(first, jump, turns)'
      <4>1. PICK first \in Int, turns \in Int, jump \in Jumps \cup {0} :
              -Millis < first /\ first < asked * Millis /\ Apart(first, jump, turns)
        BY <1>1, <3>6 DEF ClockInv, JudgedPart
      <4> QED
        BY <1>1, <3>3, <4>1
    <3> QED
      BY <3>4, <3>5, <3>6 DEF JudgedPart
  <2> QED
    BY <2>1, <2>2
<1> QED
  BY <1>3, <1>4, <1>5 DEF ClockInv

LEMMA ClockKeeps == ClockInv /\ [ClockNext]_clockVars => ClockInv'
<1> SUFFICES ASSUME ClockInv, [ClockNext]_clockVars PROVE ClockInv'
  OBVIOUS
<1>1. CASE ClockNext
  BY <1>1, WaitKeeps, ChooseKeeps, ReadKeeps, StartKeeps, CheckKeeps, TickKeeps, OtherKeeps
     DEF ClockNext
<1>2. CASE UNCHANGED clockVars
  <2>1. /\ now' = now /\ index' = index /\ at' = at /\ asked' = asked /\ fields' = fields
        /\ start' = start /\ trusted' = trusted /\ slept' = slept /\ steady' = steady /\ seam' = seam
    BY <1>2 DEF clockVars, sleeper
  <2>2. ClockTypes' /\ ReadPart'
    BY <2>1 DEF ClockInv, ClockTypes, ReadPart, Reading, chosen
  <2>3. JudgedPart'
    BY <2>1, JudgementKept DEF ClockInv
  <2> QED
    BY <2>2, <2>3 DEF ClockInv
<1> QED
  BY <1>1, <1>2

(* What SleepsAsAsked says of a step.                                       *)
CheckIsRight ==
  checkRead /\ steady =>
    /\ at' = "check" /\ trusted' = "steady" => slept < asked
    /\ at' = "check" /\ trusted' = "prompt" => slept <= asked
    /\ at' = "idle" /\ trusted = "steady" /\ ~seam => slept >= asked

LEMMA ChecksAreRight == ClockInv => CheckIsRight
<1> SUFFICES ASSUME ClockInv, checkRead, steady
             PROVE  /\ at' = "check" /\ trusted' = "steady" => slept < asked
                    /\ at' = "check" /\ trusted' = "prompt" => slept <= asked
                    /\ at' = "idle" /\ trusted = "steady" /\ ~seam => slept >= asked
  BY DEF CheckIsRight
<1>1. PICK end \in Dates :
        at = "check" /\ Completes /\ IF GoesOn(end) THEN GoesToSleepAgain ELSE Returns
  BY DEF checkRead
<1>2. /\ end = toMillis(now) /\ end \in Int /\ InInt(end) /\ start \in Int /\ InInt(start)
  BY <1>1, CompletesFacts DEF ClockInv, ClockTypes, JudgedPart
<1>3. /\ asked \in Waits /\ asked \in Nat \ {0} /\ slept \in 0 .. Patience /\ slept \in Nat
      /\ Millis \in Nat \ {0} /\ Word \in Nat \ {0} /\ Patience \in Nat
  <2>1. asked \in Waits /\ slept \in 0 .. Patience
    BY <1>1 DEF ClockInv, ClockTypes
  <2> QED
    BY <2>1, WaitsArePositive, Calendar
<1> PICK d \in Int : d = end - start
  BY <1>2
<1>4. -Word < d /\ d < Word
  <2>1. Word \div 2 \in Int
    BY <1>3
  <2> QED
    BY <1>2, <1>3, <2>1 DEF InInt
<1>5. ASSUME NEW first \in Int, NEW jump \in Jumps \cup {0}, NEW turns \in Int,
             Apart(first, jump, turns), first < asked * Millis, GoesOn(end)
      PROVE  first + slept * Millis < asked * Millis
  <2>1. d = first + (slept + jump) * Millis + turns * Word
    BY <1>2, <1>5 DEF Apart
  <2>2. Quotient(d) \in 0 .. asked - 1
    BY <1>5 DEF GoesOn
  <2>3. ~(first + slept * Millis >= asked * Millis)
    BY <1>3, <1>4, <1>5, <2>1, <2>2, OverIsOver
  <2> QED
    BY <1>3, <2>3
<1>6. ASSUME at' = "check"
      PROVE  /\ GoesOn(end)
             /\ trusted' = (IF trusted # "unjudged" THEN trusted
                            ELSE IF steady /\ slept = 0 THEN "prompt" ELSE "no")
  BY <1>1, <1>6 DEF Returns, GoesToSleepAgain
<1>7. ASSUME at' = "check", trusted' = "steady" PROVE slept < asked
  <2>1. trusted = "steady"
    BY <1>6, <1>7
  <2>2. PICK jump \in Jumps \cup {0}, turns \in Int : Apart(0, jump, turns)
    BY <2>1 DEF ClockInv, JudgedPart
  <2>3. 0 \in Int /\ 0 < asked * Millis
    BY <1>3
  <2>4. 0 + slept * Millis < asked * Millis
    BY <1>5, <1>6, <1>7, <2>2, <2>3
  <2>5. ASSUME slept >= asked PROVE slept * Millis >= asked * Millis
    BY <1>3, <2>5
  <2>6. slept * Millis \in Int /\ asked * Millis \in Int
    BY <1>3
  <2> QED
    BY <1>3, <2>4, <2>5, <2>6
<1>8. ASSUME at' = "check", trusted' = "prompt" PROVE slept <= asked
  <2>1. CASE slept = 0
    BY <1>3, <2>1
  <2>2. CASE trusted = "prompt"
    <3>1. PICK first \in Int, turns \in Int, jump \in Jumps \cup {0} :
            -Millis < first /\ first < asked * Millis /\ Apart(first, jump, turns)
      BY <2>2 DEF ClockInv, JudgedPart
    <3>2. first + slept * Millis < asked * Millis
      BY <1>5, <1>6, <1>8, <3>1
    <3>3. ASSUME slept >= asked + 1 PROVE slept * Millis >= asked * Millis + Millis
      BY <1>3, <3>3
    <3>4. slept * Millis \in Int /\ asked * Millis \in Int
      BY <1>3
    <3> QED
      BY <1>3, <3>1, <3>2, <3>3, <3>4
  <2> QED
    BY <1>6, <1>8, <2>1, <2>2
<1>9. ASSUME at' = "idle", trusted = "steady", ~seam PROVE slept >= asked
  <2>1. ~GoesOn(end)
    BY <1>1, <1>9 DEF GoesToSleepAgain
  <2>2. PICK jump \in Jumps \cup {0}, turns \in Int : Apart(0, jump, turns)
    BY <1>9 DEF ClockInv, JudgedPart
  <2>3. d = 0 + (slept + 0) * Millis + 0 * Word
    BY <1>2, <1>9, <2>2 DEF Apart
  <2>4. d = slept * Millis /\ d >= 0
    BY <1>3, <2>3
  <2>5. ~(-Millis < d /\ d < asked * Millis)
    BY <1>3, <2>1, QuotientBelow DEF GoesOn
  <2>6. slept * Millis >= asked * Millis
    BY <1>3, <2>4, <2>5
  <2>7. ASSUME slept <= asked - 1 PROVE slept * Millis <= asked * Millis - Millis
    BY <1>3, <2>7
  <2>8. slept * Millis \in Int /\ asked * Millis \in Int
    BY <1>3
  <2> QED
    BY <1>3, <2>6, <2>7, <2>8
<1> QED
  BY <1>7, <1>8, <1>9

(* A wait is as long as was asked, for every calendar, every width of int   *)
(* and all waits shorter than a day: no end of a month and no turn of the   *)
(* count makes a steadily judged one longer, nothing but them shorter.      *)
THEOREM WaitsAreAsLongAsAsked == ClockSpec => SleepsAsAsked
<1>1. ClockInit => ClockInv
  BY ClockInitially
<1>2. ClockInv /\ [ClockNext]_clockVars => ClockInv'
  BY ClockKeeps
<1>3. ClockInv /\ [ClockNext]_clockVars => [CheckIsRight]_clockVars
  BY ChecksAreRight
<1>4. ClockSpec => [][CheckIsRight]_clockVars
  BY <1>1, <1>2, <1>3, PTL DEF ClockSpec
<1> QED
  BY <1>4 DEF SleepsAsAsked, CheckIsRight
=============================================================================
