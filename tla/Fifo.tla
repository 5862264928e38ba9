--------------------------------- MODULE Fifo ---------------------------------
(***************************************************************************)
(* What Kernel/include/queue.h promises: a first-in, first-out queue of    *)
(* items that can also be searched.  An answer is a sequence: empty for    *)
(* NULL, the item that is returned, or the code 0 or -1 of enqueue().      *)
(***************************************************************************)
EXTENDS Integers, Sequences

CONSTANTS
  Item,
  Key,
  KeyOf      \* what the compare functions look at

VARIABLES content, answer

FifoInit == content = <<>> /\ answer = <<>>

First(items, key, i) ==
  /\ i \in 1 .. Len(items) /\ KeyOf[items[i]] = key
  /\ \A j \in 1 .. i - 1 : KeyOf[items[j]] # key

Without(items, i) == [j \in 1 .. Len(items) - 1 |-> items[IF j < i THEN j ELSE j + 1]]

Put ==
  \/ \E d \in Item : content' = Append(content, d) /\ answer' = <<0>>
  \/ content' = content /\ answer' = <<-1>>

Take ==
  /\ content # <<>>
  /\ content' = Tail(content) /\ answer' = <<Head(content)>>

Peek ==
  /\ content # <<>>
  /\ content' = content /\ answer' = <<Head(content)>>

FromEmpty == content = <<>> /\ content' = content /\ answer' = <<>>

Find ==
  \E key \in Key, i \in 1 .. Len(content) :
    First(content, key, i) /\ content' = content /\ answer' = <<content[i]>>

Remove ==
  \E key \in Key, i \in 1 .. Len(content) :
    First(content, key, i) /\ content' = Without(content, i) /\ answer' = <<content[i]>>

Missing ==
  \E key \in Key :
    /\ \A i \in 1 .. Len(content) : KeyOf[content[i]] # key
    /\ content' = content /\ answer' = <<>>

Clear == content' = <<>> /\ answer' = <<>>

FifoNext == Put \/ Take \/ Peek \/ FromEmpty \/ Find \/ Remove \/ Missing \/ Clear

FifoSpec == FifoInit /\ [][FifoNext]_<<content, answer>>
=============================================================================
