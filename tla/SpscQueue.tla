----------------------------- MODULE SpscQueue -----------------------------
(***************************************************************************)
(* LockFreeQueue of src/src/live/lock_free_queue.hpp with one producer and *)
(* one consumer thread, as its comment asks for.  Each access to an index  *)
(* or to a slot that the other thread may see is a step.  The release      *)
(* store and acquire load of an index order the slot's accesses, so steps  *)
(* interleave; a thread's relaxed load is of the index only it stores.     *)
(* A value still in a slot after it was popped is a leftover, as in the    *)
(* code.                                                                   *)
(***************************************************************************)
EXTENDS Naturals, Sequences

CONSTANTS
  Capacity,  \* slots; one stays free
  Items,
  MaxPushes  \* bound: calls to push, and to pop

CapacityAssumption == Capacity \in Nat \ {0}
MaxPushesAssumption == MaxPushes \in Nat

VARIABLES
  head, tail, buffer,
  p_pc, p_item,          \* producer: where it is in push, its argument
  c_pc, c_item,          \* consumer: where it is in pop, the item read
  p_head, p_size,        \* producer in size(): head loaded, last answer
  push_answer, pop_answer, pushes, pops  \* as in BoundedFifo

producerVars == <<p_pc, p_item, push_answer, pushes>>
consumerVars == <<c_pc, c_item, pop_answer, pops>>
sizeVars == <<p_head, p_size>>
vars == <<head, tail, buffer, producerVars, consumerVars, sizeVars>>

Slots == 0 .. Capacity - 1

TypeOK ==
  /\ head \in Slots /\ tail \in Slots
  /\ buffer \in [Slots -> Items]
  /\ p_pc \in {"idle", "load", "write", "store", "size"} /\ p_item \in Items
  /\ c_pc \in {"idle", "read", "store"} /\ c_item \in Items
  /\ p_head \in Slots /\ p_size \in Slots
  /\ pushes \in Nat /\ pops \in Nat

Init ==
  /\ head = 0 /\ tail = 0
  /\ buffer \in [Slots -> Items]
  /\ p_pc = "idle" /\ p_item = buffer[0]
  /\ c_pc = "idle" /\ c_item = buffer[0]
  /\ p_head = 0 /\ p_size = 0
  /\ push_answer = <<>> /\ pop_answer = <<>> /\ pushes = 0 /\ pops = 0

\* Faulty variant: an index runs off the ring.
AfterUnwrapped(i) == i + 1

After(i) == (i + 1) % Capacity

\* Faulty variant: the slot that is kept free is used as well.
FullNever(h) == FALSE

Full(h) == After(tail) = h

\* How many items lie between two indices.
Distance(h, t) == (t + Capacity - h) % Capacity

----------------------------------------------------------------------------
PushCall ==
  /\ p_pc = "idle" /\ pushes < MaxPushes
  /\ p_item' \in Items
  /\ p_pc' = "load"
  /\ UNCHANGED <<head, tail, buffer, push_answer, pushes, consumerVars, sizeVars>>

\* push loads head: the queue is full, or there is room in slot tail.
PushLoad ==
  /\ p_pc = "load"
  /\ IF Full(head)
       THEN p_pc' = "idle" /\ push_answer' = <<>> /\ pushes' = pushes + 1
       ELSE p_pc' = "write" /\ UNCHANGED <<push_answer, pushes>>
  /\ UNCHANGED <<head, tail, buffer, p_item, consumerVars, sizeVars>>

PushWrite ==
  /\ p_pc = "write"
  /\ buffer' = [buffer EXCEPT ![tail] = p_item]
  /\ p_pc' = "store"
  /\ UNCHANGED <<head, tail, p_item, push_answer, pushes, consumerVars, sizeVars>>

PushStore ==
  /\ p_pc = "store"
  /\ tail' = After(tail)
  /\ p_pc' = "idle" /\ push_answer' = <<p_item>> /\ pushes' = pushes + 1
  /\ UNCHANGED <<head, buffer, p_item, consumerVars, sizeVars>>

\* size() in the producer: head is loaded, then tail.
SizeLoadHead ==
  /\ p_pc = "idle"
  /\ p_head' = head /\ p_pc' = "size"
  /\ UNCHANGED <<head, tail, buffer, p_item, push_answer, pushes, consumerVars, p_size>>

\* Faulty variant: the indices the wrong way round.
SizeLoadTailSwapped ==
  /\ p_pc = "size"
  /\ p_size' = Distance(tail, p_head) /\ p_pc' = "idle"
  /\ UNCHANGED <<head, tail, buffer, p_item, push_answer, pushes, consumerVars, p_head>>

SizeLoadTail ==
  /\ p_pc = "size"
  /\ p_size' = Distance(p_head, tail) /\ p_pc' = "idle"
  /\ UNCHANGED <<head, tail, buffer, p_item, push_answer, pushes, consumerVars, p_head>>

----------------------------------------------------------------------------
\* pop loads tail: the queue is empty, or slot head holds the next item.
PopLoad ==
  /\ c_pc = "idle" /\ pops < MaxPushes
  /\ IF head = tail
       THEN pop_answer' = <<>> /\ pops' = pops + 1 /\ UNCHANGED c_pc
       ELSE c_pc' = "read" /\ UNCHANGED <<pop_answer, pops>>
  /\ UNCHANGED <<head, tail, buffer, producerVars, c_item, sizeVars>>

PopRead ==
  /\ c_pc = "read"
  /\ c_item' = buffer[head]
  /\ c_pc' = "store"
  /\ UNCHANGED <<head, tail, buffer, producerVars, pop_answer, pops, sizeVars>>

PopStore ==
  /\ c_pc = "store"
  /\ head' = After(head)
  /\ c_pc' = "idle" /\ pop_answer' = <<c_item>> /\ pops' = pops + 1
  /\ UNCHANGED <<tail, buffer, producerVars, c_item, sizeVars>>

Next ==
  \/ PushCall \/ PushLoad \/ PushWrite \/ PushStore
  \/ SizeLoadHead \/ SizeLoadTail
  \/ PopLoad \/ PopRead \/ PopStore

Spec == Init /\ [][Next]_vars

----------------------------------------------------------------------------
\* The items between head and tail, oldest first.
Contents == [i \in 1 .. Distance(head, tail) |-> buffer[(head + i - 1) % Capacity]]

Fifo == INSTANCE BoundedFifo WITH queue <- Contents, Size <- Capacity - 1

\* The ring implements a FIFO of one item less than its slots: items come out
\* once, in order; push says full and pop says empty only when that was so.
ImplementsFifo == Fifo!Spec

\* The two threads are never in one slot: what the consumer reads is not
\* being written, whatever leftovers the slots hold.
SlotsApart == ~(p_pc \in {"write", "store"} /\ c_pc \in {"read", "store"} /\ head = tail)

\* The producer's own size() never promises room there is not: head may have
\* moved since it was loaded, which only makes the answer too large.
SizeNeverUnderstates ==
  [][p_pc = "size" => p_size' >= Distance(head, tail)]_<<p_pc, p_size>>
=============================================================================
