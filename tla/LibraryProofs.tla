--------------------------- MODULE LibraryProofs ---------------------------
(***************************************************************************)
(* What the parts outside the trading loop keep, each in its own section:  *)
(* the ring is a FIFO, for any number of slots; the cache evicts the least *)
(* recently used entry and serves the newest tick, for any capacity,       *)
(* history and symbols; the hours told lead to an opening, for any step of *)
(* the clock the model allows; what the books say was earned is the cash   *)
(* that moved, and what the paper account holds is what its fills moved,   *)
(* for any prices and quantities; and the parser reads what the outline of *)
(* a file says, for files of any length and depth.                         *)
(***************************************************************************)
EXTENDS MCLibrary, SequenceTheorems, FiniteSetTheorems, WellFoundedInduction, TLAPS

\* A step is a step of one part, or of none.
LEMMA Parts ==
  ASSUME [Next]_vars
  PROVE  /\ [Queue!Next]_(Queue!vars) /\ [Market!Next]_(Market!vars)
         /\ [Ledger!Next]_(Ledger!vars) /\ [Paper!Next]_(Paper!vars)
         /\ [Config!Next]_(Config!vars) /\ [Hours!Next]_(Hours!vars)
  BY DEF Next, vars, queueVars, marketVars, bookVars, paperVars, configVars, hourVars,
     Queue!vars, Queue!producerVars, Queue!consumerVars, Queue!sizeVars, Market!vars,
     Ledger!vars, Paper!vars, Config!vars, Config!parserVars, Hours!vars

----------------------------------------------------------------------------
(***************************************************************************)
(* The ring: arithmetic of its indices.                                    *)
(***************************************************************************)
\* One turn of the ring taken off.
Wrap(x) == IF x < Capacity THEN x ELSE x - Capacity

\* The slot of the k-th item after index h.
Slot(h, k) == (h + (k - 1)) % Capacity

LEMMA CapacityType == Capacity \in Nat /\ Capacity > 0
  BY QueueAssumptions DEF Queue!CapacityAssumption

LEMMA WrapIs ==
  ASSUME NEW x \in Nat, x < 2 * Capacity
  PROVE  x % Capacity = Wrap(x)
  BY CapacityType DEF Wrap

LEMMA IndexFacts ==
  ASSUME NEW h \in Queue!Slots, NEW t \in Queue!Slots
  PROVE  /\ Queue!After(h) = Wrap(h + 1)
         /\ Queue!Distance(h, t) = Wrap((t + Capacity) - h)
         /\ \A k \in 1 .. Capacity : Slot(h, k) = Wrap(h + (k - 1))
  BY CapacityType, WrapIs DEF Queue!Slots, Queue!After, Queue!Distance, Slot

\* Moving an index moves the distance by one; the slot that is kept free tells
\* a full ring from an empty one.
LEMMA DistanceFacts ==
  ASSUME NEW h \in Queue!Slots, NEW t \in Queue!Slots
  PROVE  /\ Queue!After(h) \in Queue!Slots
         /\ Queue!Distance(h, t) \in 0 .. Capacity - 1
         /\ Queue!Distance(h, t) = 0 <=> h = t
         /\ Queue!Distance(h, t) = Capacity - 1 <=> Queue!After(t) = h
         /\ Queue!After(t) # h => Queue!Distance(h, Queue!After(t)) = Queue!Distance(h, t) + 1
         /\ h # t => Queue!Distance(Queue!After(h), t) = Queue!Distance(h, t) - 1
<1>1. h \in 0 .. Capacity - 1 /\ t \in 0 .. Capacity - 1
  BY DEF Queue!Slots
<1>2. Queue!After(h) \in Queue!Slots /\ Queue!After(t) \in Queue!Slots
  BY <1>1, IndexFacts, CapacityType DEF Wrap, Queue!Slots
<1>3. /\ Queue!Distance(h, t) = Wrap((t + Capacity) - h)
      /\ Queue!Distance(h, Queue!After(t)) = Wrap((Queue!After(t) + Capacity) - h)
      /\ Queue!Distance(Queue!After(h), t) = Wrap((t + Capacity) - Queue!After(h))
      /\ Queue!After(h) = Wrap(h + 1) /\ Queue!After(t) = Wrap(t + 1)
  BY <1>2, IndexFacts
<1>4. QED
  BY <1>1, <1>2, <1>3, CapacityType DEF Wrap

\* The items between the indices lie one after the other, and none of them in
\* the slot of the next push.
LEMMA SlotFacts ==
  ASSUME NEW h \in Queue!Slots, NEW t \in Queue!Slots
  PROVE  /\ \A k \in 1 .. Capacity : Slot(h, k) \in Queue!Slots
         /\ Slot(h, 1) = h
         /\ Slot(h, Queue!Distance(h, t) + 1) = t
         /\ \A k \in 1 .. Queue!Distance(h, t) :
              Slot(h, k) # t /\ k \in 1 .. Capacity /\ k + 1 \in 1 .. Capacity
         /\ \A k \in 1 .. Capacity - 1 : Slot(Queue!After(h), k) = Slot(h, k + 1)
<1>1. h \in 0 .. Capacity - 1 /\ t \in 0 .. Capacity - 1
  BY DEF Queue!Slots
<1>2. Queue!After(h) \in Queue!Slots /\ Queue!Distance(h, t) \in 0 .. Capacity - 1
  BY DistanceFacts
<1>3. /\ \A k \in 1 .. Capacity : Slot(h, k) = Wrap(h + (k - 1))
      /\ \A k \in 1 .. Capacity : Slot(Queue!After(h), k) = Wrap(Queue!After(h) + (k - 1))
      /\ Queue!Distance(h, t) = Wrap((t + Capacity) - h) /\ Queue!After(h) = Wrap(h + 1)
  BY <1>2, IndexFacts
<1>4. \A k \in 1 .. Capacity : Slot(h, k) \in Queue!Slots
  BY <1>1, <1>3, CapacityType DEF Wrap, Queue!Slots
<1>5. Slot(h, 1) = h
  BY <1>1, <1>3, CapacityType DEF Wrap
<1>6. Slot(h, Queue!Distance(h, t) + 1) = t
  BY <1>1, <1>2, <1>3, CapacityType DEF Wrap
<1>7. \A k \in 1 .. Queue!Distance(h, t) :
        Slot(h, k) # t /\ k \in 1 .. Capacity /\ k + 1 \in 1 .. Capacity
  BY <1>1, <1>2, <1>3, CapacityType DEF Wrap
<1>8. \A k \in 1 .. Capacity - 1 : Slot(Queue!After(h), k) = Slot(h, k + 1)
  BY <1>1, <1>2, <1>3, CapacityType DEF Wrap
<1>9. QED
  BY <1>4, <1>5, <1>6, <1>7, <1>8

----------------------------------------------------------------------------
(***************************************************************************)
(* The ring: its two threads.                                              *)
(***************************************************************************)
RingTypes ==
  /\ head \in Queue!Slots /\ tail \in Queue!Slots
  /\ buffer \in [Queue!Slots -> Items]
  /\ p_pc \in {"idle", "load", "write", "store", "size"} /\ p_item \in Items
  /\ c_pc \in {"idle", "read", "store"}
  /\ p_head \in Queue!Slots

RingInv ==
  /\ p_pc \in {"write", "store"} => Queue!After(tail) # head
  /\ p_pc = "store" => buffer[tail] = p_item
  /\ c_pc \in {"read", "store"} => head # tail
  /\ c_pc = "store" => c_item = buffer[head]
  /\ p_pc = "size" => Queue!Distance(head, tail) <= Queue!Distance(p_head, tail)

LEMMA RingInit ==
  ASSUME Queue!Init
  PROVE  RingTypes /\ RingInv
<1>1. 0 \in Queue!Slots
  BY CapacityType DEF Queue!Slots
<1>2. buffer[0] \in Items
  BY <1>1 DEF Queue!Init
<1>3. QED
  BY <1>1, <1>2 DEF Queue!Init, RingTypes, RingInv

LEMMA RingTypesStep ==
  ASSUME RingTypes, [Queue!Next]_(Queue!vars)
  PROVE  RingTypes'
<1>1. Queue!After(head) \in Queue!Slots /\ Queue!After(tail) \in Queue!Slots
  BY DistanceFacts DEF RingTypes
<1>2. CASE Queue!PushCall \/ Queue!PushLoad
  BY <1>2 DEF RingTypes, Queue!PushCall, Queue!PushLoad, Queue!consumerVars, Queue!sizeVars
<1>3. CASE Queue!PushWrite \/ Queue!PushStore
  BY <1>1, <1>3 DEF RingTypes, Queue!PushWrite, Queue!PushStore, Queue!consumerVars,
     Queue!sizeVars
<1>4. CASE Queue!SizeLoadHead \/ Queue!SizeLoadTail
  BY <1>4 DEF RingTypes, Queue!SizeLoadHead, Queue!SizeLoadTail, Queue!consumerVars
<1>5. CASE Queue!PopLoad \/ Queue!PopRead \/ Queue!PopStore
  BY <1>1, <1>5 DEF RingTypes, Queue!PopLoad, Queue!PopRead, Queue!PopStore,
     Queue!producerVars, Queue!sizeVars
<1>6. CASE UNCHANGED Queue!vars
  BY <1>6 DEF RingTypes, Queue!vars, Queue!producerVars, Queue!consumerVars, Queue!sizeVars
<1>7. QED
  BY <1>2, <1>3, <1>4, <1>5, <1>6 DEF Queue!Next

LEMMA RingStep ==
  ASSUME RingTypes, RingInv, [Queue!Next]_(Queue!vars)
  PROVE  RingInv'
<1>1. CASE Queue!PushCall \/ Queue!PushLoad
  BY <1>1 DEF RingInv, Queue!PushCall, Queue!PushLoad, Queue!Full, Queue!consumerVars
<1>2. CASE Queue!PushWrite
  <2>1. buffer' = [buffer EXCEPT ![tail] = p_item]
        /\ UNCHANGED <<head, tail, p_item, c_pc, c_item>>
        /\ p_pc = "write" /\ p_pc' = "store"
    BY <1>2 DEF Queue!PushWrite, Queue!consumerVars
  <2>2. buffer'[tail] = p_item /\ (head # tail => buffer'[head] = buffer[head])
    BY <2>1 DEF RingTypes
  <2>3. QED
    BY <2>1, <2>2 DEF RingInv
<1>3. CASE Queue!PushStore
  <2>1. p_pc = "store" /\ p_pc' = "idle" /\ tail' = Queue!After(tail)
        /\ UNCHANGED <<head, buffer, c_pc, c_item>>
    BY <1>3 DEF Queue!PushStore, Queue!consumerVars
  <2>2. QED
    BY <2>1 DEF RingInv
<1>4. CASE Queue!SizeLoadHead \/ Queue!SizeLoadTail
  <2>1. Queue!Distance(head, tail) \in 0 .. Capacity - 1
    BY DistanceFacts DEF RingTypes
  <2>2. UNCHANGED <<head, tail, buffer, p_item, c_pc, c_item>>
        /\ \/ p_head' = head /\ p_pc' = "size"
           \/ p_pc' = "idle"
    BY <1>4 DEF Queue!SizeLoadHead, Queue!SizeLoadTail, Queue!consumerVars
  <2>3. p_pc' = "size" => Queue!Distance(head, tail)' <= Queue!Distance(p_head, tail)'
    BY <2>1, <2>2, CapacityType DEF Queue!Distance
  <2>4. QED
    BY <2>2, <2>3 DEF RingInv
<1>5. CASE Queue!PopLoad
  BY <1>5 DEF RingInv, Queue!PopLoad, Queue!producerVars, Queue!sizeVars, Queue!Distance
<1>6. CASE Queue!PopRead
  BY <1>6 DEF RingInv, Queue!PopRead, Queue!producerVars, Queue!sizeVars, Queue!Distance
<1>7. CASE Queue!PopStore
  <2>1. c_pc = "store" /\ c_pc' = "idle" /\ head' = Queue!After(head)
        /\ UNCHANGED <<tail, buffer, p_pc, p_item, p_head>>
    BY <1>7 DEF Queue!PopStore, Queue!producerVars, Queue!sizeVars
  <2>2. head # tail
    BY <2>1 DEF RingInv
  <2>3. Queue!Distance(Queue!After(head), tail) = Queue!Distance(head, tail) - 1
    BY <2>2, DistanceFacts DEF RingTypes
  <2>4. Queue!After(tail) # Queue!After(head)
    <3>1. head \in 0 .. Capacity - 1 /\ tail \in 0 .. Capacity - 1
      BY DEF RingTypes, Queue!Slots
    <3>2. Queue!After(head) = Wrap(head + 1) /\ Queue!After(tail) = Wrap(tail + 1)
      BY IndexFacts DEF RingTypes
    <3>3. QED
      BY <2>2, <3>1, <3>2, CapacityType DEF Wrap
  <2>5. /\ Queue!Distance(head, tail) \in 0 .. Capacity - 1
        /\ Queue!Distance(p_head, tail) \in 0 .. Capacity - 1
    BY DistanceFacts DEF RingTypes
  <2>6. p_pc = "size" =>
          Queue!Distance(Queue!After(head), tail) <= Queue!Distance(p_head, tail)
    BY <2>3, <2>5, CapacityType DEF RingInv
  <2>7. QED
    BY <2>1, <2>4, <2>6 DEF RingInv, Queue!Distance
<1>8. CASE UNCHANGED Queue!vars
  BY <1>8 DEF RingInv, Queue!vars, Queue!producerVars, Queue!consumerVars, Queue!sizeVars,
     Queue!Distance
<1>9. QED
  BY <1>1, <1>2, <1>3, <1>4, <1>5, <1>6, <1>7, <1>8 DEF Queue!Next

----------------------------------------------------------------------------
(***************************************************************************)
(* The ring is a FIFO.                                                     *)
(***************************************************************************)
ContentsInv ==
  /\ Queue!Contents \in Seq(Items)
  /\ Len(Queue!Contents) = Queue!Distance(head, tail)
  /\ \A k \in 1 .. Queue!Distance(head, tail) : Queue!Contents[k] = buffer[Slot(head, k)]

LEMMA ContentsAre == RingTypes => ContentsInv
<1> SUFFICES ASSUME RingTypes PROVE ContentsInv
  OBVIOUS
<1>1. Queue!Distance(head, tail) \in 0 .. Capacity - 1
  BY DistanceFacts DEF RingTypes
<1>2. PICK d \in Nat : d = Queue!Distance(head, tail)
  BY <1>1, CapacityType
<1>3. Queue!Contents = [k \in 1 .. d |-> buffer[Slot(head, k)]]
  BY <1>2 DEF Queue!Contents, Slot
<1>4. \A k \in 1 .. d : buffer[Slot(head, k)] \in Items
  BY <1>2, SlotFacts DEF RingTypes
<1>5. QED
  BY <1>2, <1>3, <1>4 DEF ContentsInv

\* A step that moves no index and writes outside the contents changes nothing
\* a caller can see.
LEMMA ContentsStill ==
  ASSUME RingTypes, UNCHANGED <<head, tail>>,
         buffer' = buffer \/ \E x \in Items : buffer' = [buffer EXCEPT ![tail] = x]
  PROVE  UNCHANGED Queue!Contents
<1>1. \A k \in 1 .. Queue!Distance(head, tail) : buffer'[Slot(head, k)] = buffer[Slot(head, k)]
  BY SlotFacts DEF RingTypes
<1>2. Queue!Contents = [k \in 1 .. Queue!Distance(head, tail) |-> buffer[Slot(head, k)]]
  BY DEF Queue!Contents, Slot
<1>3. Queue!Contents' = [k \in 1 .. Queue!Distance(head, tail) |-> buffer'[Slot(head, k)]]
  BY DEF Queue!Contents, Slot, Queue!Distance
<1>4. QED
  BY <1>1, <1>2, <1>3

LEMMA PushStoreAppends ==
  ASSUME RingTypes, RingInv, RingTypes', Queue!PushStore
  PROVE  /\ Queue!Contents' = Append(Queue!Contents, p_item)
         /\ Len(Queue!Contents) < Capacity - 1
<1> DEFINE d == Queue!Distance(head, tail)
<1>1. /\ p_pc = "store" /\ tail' = Queue!After(tail) /\ UNCHANGED <<head, buffer>>
  BY DEF Queue!PushStore
<1>2. buffer[tail] = p_item /\ Queue!After(tail) # head
  BY <1>1 DEF RingInv
<1>3. d \in Nat /\ d < Capacity - 1 /\ Queue!Distance(head, tail)' = d + 1
  <2>1. d \in 0 .. Capacity - 1 /\ d # Capacity - 1
    BY <1>2, DistanceFacts DEF RingTypes
  <2>2. Queue!Distance(head, Queue!After(tail)) = d + 1
    BY <1>2, DistanceFacts DEF RingTypes
  <2>3. Queue!Distance(head, tail)' = Queue!Distance(head, Queue!After(tail))
    BY <1>1 DEF Queue!Distance
  <2>4. QED
    BY <2>1, <2>2, <2>3, CapacityType
<1>4. /\ Queue!Contents \in Seq(Items) /\ Len(Queue!Contents) = d
      /\ \A k \in 1 .. d : Queue!Contents[k] = buffer[Slot(head, k)]
  BY ContentsAre DEF ContentsInv
<1>5. /\ Queue!Contents' \in Seq(Items) /\ Len(Queue!Contents') = d + 1
      /\ \A k \in 1 .. d + 1 : Queue!Contents'[k] = buffer[Slot(head, k)]
  <2>1. ContentsInv'
    BY ContentsAre, PTL
  <2>2. QED
    BY <1>1, <1>3, <2>1 DEF ContentsInv, Slot
<1>6. buffer[Slot(head, d + 1)] = p_item
  BY <1>2, SlotFacts DEF RingTypes
<1>7. p_item \in Items
  BY DEF RingTypes
<1> HIDE DEF d
<1>8. /\ Append(Queue!Contents, p_item) \in Seq(Items)
      /\ Len(Append(Queue!Contents, p_item)) = d + 1
      /\ \A k \in 1 .. d + 1 : Append(Queue!Contents, p_item)[k] = buffer[Slot(head, k)]
  BY <1>3, <1>4, <1>6, <1>7
<1>9. QED
  BY <1>3, <1>4, <1>5, <1>8, SeqEqual

LEMMA PopStoreRemoves ==
  ASSUME RingTypes, RingInv, RingTypes', Queue!PopStore
  PROVE  /\ Queue!Contents # <<>> /\ Head(Queue!Contents) = c_item
         /\ Queue!Contents' = Tail(Queue!Contents)
<1> DEFINE d == Queue!Distance(head, tail)
<1>1. /\ c_pc = "store" /\ head' = Queue!After(head) /\ UNCHANGED <<tail, buffer>>
  BY DEF Queue!PopStore, Queue!producerVars
<1>2. c_item = buffer[head] /\ head # tail
  BY <1>1 DEF RingInv
<1>3. d \in Nat /\ d >= 1 /\ d <= Capacity - 1 /\ Queue!Distance(head, tail)' = d - 1
  <2>1. d \in 0 .. Capacity - 1 /\ d # 0
    BY <1>2, DistanceFacts DEF RingTypes
  <2>2. Queue!Distance(Queue!After(head), tail) = d - 1
    BY <1>2, DistanceFacts DEF RingTypes
  <2>3. Queue!Distance(head, tail)' = Queue!Distance(Queue!After(head), tail)
    BY <1>1 DEF Queue!Distance
  <2>4. QED
    BY <2>1, <2>2, <2>3, CapacityType
<1>4. /\ Queue!Contents \in Seq(Items) /\ Len(Queue!Contents) = d
      /\ \A k \in 1 .. d : Queue!Contents[k] = buffer[Slot(head, k)]
  BY ContentsAre DEF ContentsInv
<1>5. /\ Queue!Contents' \in Seq(Items) /\ Len(Queue!Contents') = d - 1
      /\ \A k \in 1 .. d - 1 : Queue!Contents'[k] = buffer[Slot(Queue!After(head), k)]
  <2>1. ContentsInv'
    BY ContentsAre, PTL
  <2>2. QED
    BY <1>1, <1>3, <2>1 DEF ContentsInv, Slot
<1>6. /\ buffer[Slot(head, 1)] = c_item
      /\ \A k \in 1 .. d - 1 : Slot(Queue!After(head), k) = Slot(head, k + 1)
  <2>1. \A k \in 1 .. d - 1 : k \in 1 .. Capacity - 1
    BY <1>3, CapacityType
  <2>2. QED
    BY <1>2, <2>1, SlotFacts DEF RingTypes
<1> HIDE DEF d
<1>7. /\ Queue!Contents # <<>> /\ Head(Queue!Contents) = c_item
      /\ Tail(Queue!Contents) \in Seq(Items) /\ Len(Tail(Queue!Contents)) = d - 1
      /\ \A k \in 1 .. d - 1 : Tail(Queue!Contents)[k] = buffer[Slot(head, k + 1)]
  BY <1>3, <1>4, <1>6
<1>8. QED
  BY <1>3, <1>5, <1>6, <1>7, SeqEqual

\* Full and empty as the indices say it.
LEMMA FullAndEmpty ==
  ASSUME RingTypes
  PROVE  /\ Queue!Full(head) => ~(Len(Queue!Contents) < Capacity - 1)
         /\ head = tail => Queue!Contents = <<>>
<1>1. /\ Queue!Contents \in Seq(Items) /\ Len(Queue!Contents) = Queue!Distance(head, tail)
  BY ContentsAre DEF ContentsInv
<1>2. /\ Queue!Distance(head, tail) = 0 <=> head = tail
      /\ Queue!Distance(head, tail) = Capacity - 1 <=> Queue!After(tail) = head
  BY DistanceFacts DEF RingTypes
<1>3. QED
  BY <1>1, <1>2, CapacityType DEF Queue!Full

LEMMA RingRefines ==
  ASSUME RingTypes, RingInv, RingTypes', [Queue!Next]_(Queue!vars)
  PROVE  [Queue!Fifo!Next]_(Queue!Fifo!vars)
<1>1. CASE Queue!PushCall \/ Queue!SizeLoadHead \/ Queue!SizeLoadTail \/ Queue!PushWrite
           \/ Queue!PopRead
           \/ UNCHANGED Queue!vars
  <2>1. /\ UNCHANGED <<head, tail, push_answer, pop_answer, pushes, pops>>
        /\ buffer' = buffer \/ \E x \in Items : buffer' = [buffer EXCEPT ![tail] = x]
    BY <1>1 DEF Queue!PushCall, Queue!SizeLoadHead, Queue!SizeLoadTail, Queue!PushWrite,
       Queue!PopRead, Queue!vars, Queue!producerVars, Queue!consumerVars, Queue!sizeVars,
       RingTypes
  <2>2. UNCHANGED Queue!Contents
    BY <2>1, ContentsStill
  <2>3. QED
    BY <2>1, <2>2 DEF Queue!Fifo!vars
<1>2. CASE Queue!PushLoad
  <2>1. UNCHANGED Queue!Contents
    BY <1>2, ContentsStill DEF Queue!PushLoad
  <2>2. CASE Queue!Full(head)
    <3>1. /\ push_answer' = <<>> /\ pushes' = pushes + 1 /\ UNCHANGED <<pop_answer, pops>>
      BY <1>2, <2>2 DEF Queue!PushLoad, Queue!consumerVars
    <3>2. p_item \in Items
      BY DEF RingTypes
    <3>3. Queue!Fifo!Push(p_item)
      BY <2>1, <2>2, <3>1, FullAndEmpty DEF Queue!Fifo!Push
    <3>4. QED
      BY <3>2, <3>3 DEF Queue!Fifo!Next
  <2>3. CASE ~Queue!Full(head)
    BY <1>2, <2>1, <2>3 DEF Queue!PushLoad, Queue!consumerVars, Queue!Fifo!vars
  <2>4. QED
    BY <2>2, <2>3
<1>3. CASE Queue!PushStore
  <2>1. /\ push_answer' = <<p_item>> /\ pushes' = pushes + 1 /\ UNCHANGED <<pop_answer, pops>>
    BY <1>3 DEF Queue!PushStore, Queue!consumerVars
  <2>2. p_item \in Items
    BY DEF RingTypes
  <2>3. Queue!Fifo!Push(p_item)
    BY <1>3, <2>1, PushStoreAppends DEF Queue!Fifo!Push
  <2>4. QED
    BY <2>2, <2>3 DEF Queue!Fifo!Next
<1>4. CASE Queue!PopLoad
  <2>1. UNCHANGED Queue!Contents
    BY <1>4, ContentsStill DEF Queue!PopLoad
  <2>2. CASE head = tail
    BY <1>4, <2>1, <2>2, FullAndEmpty DEF Queue!PopLoad, Queue!producerVars, Queue!Fifo!Pop,
       Queue!Fifo!Next
  <2>3. CASE head # tail
    BY <1>4, <2>1, <2>3 DEF Queue!PopLoad, Queue!producerVars, Queue!Fifo!vars
  <2>4. QED
    BY <2>2, <2>3
<1>5. CASE Queue!PopStore
  BY <1>5, PopStoreRemoves DEF Queue!PopStore, Queue!producerVars, Queue!Fifo!Pop,
     Queue!Fifo!Next
<1>6. QED
  BY <1>1, <1>2, <1>3, <1>4, <1>5 DEF Queue!Next

\* lock_free_queue.hpp with one producer and one consumer is a FIFO of one
\* item less than its slots, the two threads are never in one slot, and the
\* producer's size() never promises room there is not.
THEOREM RingIsFifo == Spec => QueueIsFifo
<1>1. Init => RingTypes /\ RingInv /\ Queue!Fifo!Init
  <2> SUFFICES ASSUME Init PROVE RingTypes /\ RingInv /\ Queue!Fifo!Init
    OBVIOUS
  <2>1. Queue!Init
    BY DEF Init
  <2>2. RingTypes /\ RingInv
    BY <2>1, RingInit
  <2>3. Queue!Contents = <<>>
    BY <2>1, <2>2, FullAndEmpty DEF Queue!Init
  <2>4. QED
    BY <2>1, <2>2, <2>3 DEF Queue!Init, Queue!Fifo!Init
<1>2. RingTypes /\ RingInv /\ [Next]_vars => (RingTypes /\ RingInv)'
  BY Parts, RingTypesStep, RingStep
<1>3. RingTypes /\ RingInv /\ RingTypes' /\ [Next]_vars => [Queue!Fifo!Next]_(Queue!Fifo!vars)
  BY Parts, RingRefines
<1>4. RingInv => Queue!SlotsApart
  BY DEF RingInv, Queue!SlotsApart
<1>5. RingTypes /\ RingInv /\ [Next]_vars
        => [p_pc = "size" => p_size' >= Queue!Distance(head, tail)]_<<p_pc, p_size>>
  <2> SUFFICES ASSUME RingTypes, RingInv, [Next]_vars, ~ UNCHANGED <<p_pc, p_size>>,
                      p_pc = "size"
               PROVE  p_size' >= Queue!Distance(head, tail)
    OBVIOUS
  <2>1. Queue!SizeLoadTail
    BY Parts DEF Queue!Next, Queue!PushCall, Queue!PushLoad, Queue!PushWrite, Queue!PushStore,
       Queue!SizeLoadHead, Queue!PopLoad, Queue!PopRead, Queue!PopStore, Queue!vars,
       Queue!producerVars, Queue!consumerVars, Queue!sizeVars
  <2>2. /\ p_size' = Queue!Distance(p_head, tail)
        /\ Queue!Distance(head, tail) <= Queue!Distance(p_head, tail)
    BY <2>1 DEF Queue!SizeLoadTail, RingInv
  <2>3. /\ Queue!Distance(head, tail) \in 0 .. Capacity - 1
        /\ Queue!Distance(p_head, tail) \in 0 .. Capacity - 1
    BY DistanceFacts DEF RingTypes
  <2>4. QED
    BY <2>2, <2>3, CapacityType
<1>6. QED
  BY <1>1, <1>2, <1>3, <1>4, <1>5, PTL
     DEF Spec, QueueIsFifo, Queue!ImplementsFifo, Queue!Fifo!Spec, Queue!SizeNeverUnderstates

----------------------------------------------------------------------------
(***************************************************************************)
(* The cache: what putting an entry does to the list.                      *)
(***************************************************************************)
CacheTypes ==
  /\ cache \in Seq(Market!TickType) /\ uses \in Nat
  /\ last_use \in [Symbols -> Nat] /\ \A s \in Symbols : last_use[s] <= uses

\* The list goes from the most recently used symbol to the least recently used.
Sorted ==
  \A j, k \in 1 .. Len(cache) :
    j < k => last_use[cache[j].symbol] > last_use[cache[k].symbol]

CacheInv ==
  /\ Sorted
  /\ \A j \in 1 .. Len(cache) : last_use[cache[j].symbol] > 0
  /\ Market!EvictsLeastRecent

LEMMA CacheCapacityType == CacheCapacity \in Nat
  BY MarketAssumptions DEF Market!CapacityAssumption

LEMMA EntrySymbols ==
  ASSUME CacheTypes
  PROVE  \A j \in 1 .. Len(cache) : cache[j].symbol \in Symbols
<1>1. \A j \in 1 .. Len(cache) : cache[j] \in Market!TickType
  BY DEF CacheTypes
<1>2. QED
  BY <1>1 DEF Market!TickType

LEMMA RemoveAtFacts ==
  ASSUME NEW S, NEW q \in Seq(S), NEW p \in 1 .. Len(q)
  PROVE  /\ Market!RemoveAt(q, p) \in Seq(S)
         /\ Len(Market!RemoveAt(q, p)) = Len(q) - 1
         /\ \A j \in 1 .. Len(q) - 1 :
              Market!RemoveAt(q, p)[j] = IF j < p THEN q[j] ELSE q[j + 1]
<1> DEFINE left == SubSeq(q, 1, p - 1)
           right == SubSeq(q, p + 1, Len(q))
<1>1. left \in Seq(S) /\ Len(left) = p - 1 /\ \A j \in 1 .. p - 1 : left[j] = q[j]
  <2>1. 1 \in 1 .. Len(q) + 1 /\ p - 1 \in 1 - 1 .. Len(q)
    OBVIOUS
  <2>2. QED
    BY <2>1, SubSeqProperties
<1>2. /\ right \in Seq(S) /\ Len(right) = Len(q) - p
      /\ \A j \in 1 .. Len(q) - p : right[j] = q[p + j]
  <2>1. p + 1 \in 1 .. Len(q) + 1 /\ Len(q) \in (p + 1) - 1 .. Len(q)
    OBVIOUS
  <2>2. \A j \in 1 .. Len(q) - p : ((p + 1) + j) - 1 = p + j
    OBVIOUS
  <2>3. QED
    BY <2>1, <2>2, SubSeqProperties
<1> HIDE DEF left, right
<1>3. /\ left \o right \in Seq(S) /\ Len(left \o right) = Len(q) - 1
      /\ \A j \in 1 .. Len(q) - 1 :
           (left \o right)[j] = IF j <= p - 1 THEN left[j] ELSE right[j - (p - 1)]
  <2>1. Len(left) + Len(right) = Len(q) - 1
    BY <1>1, <1>2
  <2>2. /\ left \o right \in Seq(S) /\ Len(left \o right) = Len(left) + Len(right)
        /\ \A j \in 1 .. Len(left) + Len(right) :
             (left \o right)[j] = IF j <= Len(left) THEN left[j] ELSE right[j - Len(left)]
    BY <1>1, <1>2, ConcatProperties
  <2>3. QED
    BY <1>1, <2>1, <2>2
<1>4. ASSUME NEW j \in 1 .. Len(q) - 1
      PROVE  (left \o right)[j] = IF j < p THEN q[j] ELSE q[j + 1]
  <2>1. CASE j < p
    BY <1>1, <1>3, <2>1
  <2>2. CASE j >= p
    <3>1. j - (p - 1) \in 1 .. Len(q) - p /\ p + (j - (p - 1)) = j + 1
      BY <2>2
    <3>2. right[j - (p - 1)] = q[j + 1]
      BY <1>2, <3>1
    <3>3. QED
      BY <1>3, <2>2, <3>2
  <2>3. j < p \/ j >= p
    OBVIOUS
  <2>4. QED
    BY <2>1, <2>2, <2>3
<1>5. Market!RemoveAt(q, p) = left \o right
  BY DEF Market!RemoveAt, left, right
<1>6. QED
  BY <1>3, <1>4, <1>5

\* Where the entry of a symbol is, or the end of the list.
Place(s) ==
  IF Market!Cached(s) = {} THEN Len(cache) + 1 ELSE CHOOSE j \in Market!Cached(s) : TRUE

LEMMA PlaceFacts ==
  ASSUME CacheTypes, NEW s
  PROVE  /\ Place(s) \in 1 .. Len(cache) + 1
         /\ Place(s) <= Len(cache) => cache[Place(s)].symbol = s
         /\ Place(s) = Len(cache) + 1 <=> Market!Cached(s) = {}
  BY DEF CacheTypes, Place, Market!Cached

LEMMA OthersFacts ==
  ASSUME CacheTypes, NEW s
  PROVE  /\ Market!Others(s) \in Seq(Market!TickType)
         /\ Len(Market!Others(s))
              = IF Place(s) <= Len(cache) THEN Len(cache) - 1 ELSE Len(cache)
         /\ \A j \in 1 .. Len(Market!Others(s)) :
              Market!Others(s)[j] = IF j < Place(s) THEN cache[j] ELSE cache[j + 1]
<1>1. cache \in Seq(Market!TickType) /\ Len(cache) \in Nat
  BY DEF CacheTypes
<1>2. CASE Market!Cached(s) = {}
  BY <1>1, <1>2 DEF Market!Others, Place
<1>3. CASE Market!Cached(s) # {}
  <2>1. Market!Others(s) = Market!RemoveAt(cache, Place(s))
    BY <1>3 DEF Market!Others, Place
  <2>2. Place(s) \in 1 .. Len(cache)
    BY <1>1, <1>3, PlaceFacts
  <2>3. /\ Market!Others(s) \in Seq(Market!TickType) /\ Len(Market!Others(s)) = Len(cache) - 1
        /\ \A j \in 1 .. Len(cache) - 1 :
             Market!Others(s)[j] = IF j < Place(s) THEN cache[j] ELSE cache[j + 1]
    BY <1>1, <2>1, <2>2, RemoveAtFacts
  <2>4. Place(s) <= Len(cache)
    BY <1>1, <2>2
  <2>5. QED
    BY <2>3, <2>4
<1>4. QED
  BY <1>2, <1>3

\* The entry put is in front, the one it replaces is gone, the others follow
\* in their order and the last of them goes where there is no room.
LEMMA PutFacts ==
  ASSUME CacheTypes, Len(cache) <= CacheCapacity, NEW t \in Market!TickType
  PROVE  LET p == Place(t.symbol)
             put == Market!Put(t)
         IN /\ put \in Seq(Market!TickType)
            /\ Len(put) = IF p <= Len(cache) \/ Len(cache) = CacheCapacity
                            THEN Len(cache) ELSE Len(cache) + 1
            /\ \A j \in 1 .. Len(put) :
                 put[j] = IF j = 1 THEN t ELSE IF j <= p THEN cache[j - 1] ELSE cache[j]
<1> DEFINE p == Place(t.symbol)
           others == Market!Others(t.symbol)
           list == <<t>> \o others
           n == IF Len(list) > CacheCapacity THEN CacheCapacity ELSE Len(list)
<1>1. /\ p \in 1 .. Len(cache) + 1
      /\ others \in Seq(Market!TickType)
      /\ Len(others) = IF p <= Len(cache) THEN Len(cache) - 1 ELSE Len(cache)
      /\ \A j \in 1 .. Len(others) : others[j] = IF j < p THEN cache[j] ELSE cache[j + 1]
  BY PlaceFacts, OthersFacts
<1>2. Len(cache) \in Nat
  BY DEF CacheTypes
<1>3. Market!Put(t) = SubSeq(list, 1, n)
  BY DEF Market!Put
<1> HIDE DEF others, p
<1>4. /\ list \in Seq(Market!TickType) /\ Len(list) = Len(others) + 1 /\ list[1] = t
      /\ \A j \in 2 .. Len(list) : list[j] = others[j - 1]
  <2>1. <<t>> \in Seq(Market!TickType) /\ Len(<<t>>) = 1 /\ <<t>>[1] = t
    OBVIOUS
  <2>2. QED
    BY <1>1, <2>1, ConcatProperties
<1> HIDE DEF list
<1>5. /\ n \in 0 .. Len(list)
      /\ n = IF p <= Len(cache) \/ Len(cache) = CacheCapacity
             THEN Len(cache) ELSE Len(cache) + 1
  BY <1>1, <1>2, <1>4, CacheCapacityType
<1> HIDE DEF n
<1>6. \A j \in 2 .. Len(list) : list[j] = IF j <= p THEN cache[j - 1] ELSE cache[j]
  <2> SUFFICES ASSUME NEW j \in 2 .. Len(list)
               PROVE  list[j] = IF j <= p THEN cache[j - 1] ELSE cache[j]
    OBVIOUS
  <2>1. j - 1 \in 1 .. Len(others) /\ (j - 1) + 1 = j /\ (j - 1 < p <=> j <= p)
    BY <1>1, <1>2, <1>4
  <2>2. others[j - 1] = IF j - 1 < p THEN cache[j - 1] ELSE cache[(j - 1) + 1]
    BY <1>1, <2>1
  <2>3. QED
    BY <1>4, <2>1, <2>2
<1>7. /\ SubSeq(list, 1, n) \in Seq(Market!TickType) /\ Len(SubSeq(list, 1, n)) = n
      /\ \A j \in 1 .. n : SubSeq(list, 1, n)[j] = list[j]
  <2>1. 1 \in 1 .. Len(list) + 1 /\ n \in 1 - 1 .. Len(list) /\ Len(list) \in Nat
    BY <1>4, <1>5
  <2>2. /\ SubSeq(list, 1, n) \in Seq(Market!TickType)
        /\ Len(SubSeq(list, 1, n)) = (n - 1) + 1
        /\ \A j \in 1 .. (n - 1) + 1 : SubSeq(list, 1, n)[j] = list[(1 + j) - 1]
    BY <1>4, <2>1, SubSeqProperties
  <2>3. (n - 1) + 1 = n /\ \A j \in 1 .. n : (1 + j) - 1 = j
    BY <1>5, <2>1
  <2>4. QED
    BY <2>2, <2>3
<1>8. \A j \in 1 .. n :
        list[j] = IF j = 1 THEN t ELSE IF j <= p THEN cache[j - 1] ELSE cache[j]
  <2>1. \A j \in 1 .. n : j = 1 \/ j \in 2 .. Len(list)
    BY <1>4, <1>5
  <2>2. QED
    BY <1>4, <1>6, <2>1
<1>9. QED
  BY <1>3, <1>5, <1>7, <1>8 DEF p

\* The entries of two places are of two symbols, and a symbol without a place
\* has no entry.
LEMMA OneEntryEach ==
  ASSUME CacheTypes, Sorted, NEW s \in Symbols, NEW j \in 1 .. Len(cache), cache[j].symbol = s
  PROVE  Place(s) = j
<1>1. j \in Market!Cached(s) /\ Len(cache) \in Nat
  BY DEF CacheTypes, Market!Cached
<1>2. Place(s) \in 1 .. Len(cache) /\ cache[Place(s)].symbol = s
  BY <1>1, PlaceFacts
<1>3. ~(j < Place(s)) /\ ~(Place(s) < j)
  BY <1>2 DEF Sorted, CacheTypes
<1>4. QED
  BY <1>1, <1>2, <1>3

\* What becomes of the other entries: each comes from an entry before it or at
\* its place, and one is lost only from the end of a full list.
LEMMA PutMoves ==
  ASSUME CacheTypes, CacheInv, NEW t \in Market!TickType
  PROVE  LET put == Market!Put(t)
         IN /\ put \in Seq(Market!TickType) /\ Len(put) <= CacheCapacity
            /\ Len(put) # 0 => put[1] = t
            /\ Len(put) = 0 => Len(put) = CacheCapacity
            /\ Len(cache) = CacheCapacity => Len(put) = CacheCapacity
            /\ \A k \in 2 .. Len(put) : \E j \in 1 .. Len(cache) :
                 put[k] = cache[j] /\ cache[j].symbol # t.symbol
            /\ \A k, m \in 2 .. Len(put) :
                 k < m => last_use[put[k].symbol] > last_use[put[m].symbol]
            /\ \A m \in 1 .. Len(cache) : cache[m].symbol # t.symbol =>
                 \/ \E k \in 2 .. Len(put) : put[k] = cache[m]
                 \/ /\ Len(put) = CacheCapacity
                    /\ \A k \in 2 .. Len(put) :
                         last_use[put[k].symbol] > last_use[cache[m].symbol]
<1> DEFINE p == Place(t.symbol)
           put == Market!Put(t)
           old(k) == IF k <= p THEN k - 1 ELSE k
<1>1. /\ put \in Seq(Market!TickType)
      /\ Len(put) = IF p <= Len(cache) \/ Len(cache) = CacheCapacity
                      THEN Len(cache) ELSE Len(cache) + 1
      /\ \A j \in 1 .. Len(put) :
           put[j] = IF j = 1 THEN t ELSE IF j <= p THEN cache[j - 1] ELSE cache[j]
  BY PutFacts DEF CacheInv, Market!EvictsLeastRecent
<1>2. /\ p \in 1 .. Len(cache) + 1 /\ Len(cache) \in Nat /\ Len(cache) <= CacheCapacity
      /\ t.symbol \in Symbols
  BY PlaceFacts DEF CacheInv, Market!EvictsLeastRecent, CacheTypes, Market!TickType
<1>3. \A j \in 1 .. Len(cache) : cache[j].symbol = t.symbol => j = p
  BY <1>2, OneEntryEach DEF CacheInv
<1>4. p <= Len(cache) => cache[p].symbol = t.symbol
  BY PlaceFacts
<1> HIDE DEF p, put
<1>5. /\ \A k \in 2 .. Len(put) : old(k) \in 1 .. Len(cache) /\ old(k) # p
      /\ \A k, m \in 2 .. Len(put) : k < m => old(k) < old(m)
  BY <1>1, <1>2
<1>6. \A k \in 2 .. Len(put) : put[k] = cache[old(k)]
  BY <1>1
<1>7. /\ Len(put) <= CacheCapacity
      /\ Len(put) # 0 => put[1] = t
      /\ Len(put) = 0 => Len(put) = CacheCapacity
      /\ Len(cache) = CacheCapacity => Len(put) = CacheCapacity
  BY <1>1, <1>2, CacheCapacityType
<1> HIDE DEF old
<1>8. \A k \in 2 .. Len(put) : \E j \in 1 .. Len(cache) :
        put[k] = cache[j] /\ cache[j].symbol # t.symbol
  BY <1>3, <1>5, <1>6
<1>9. \A k, m \in 2 .. Len(put) :
        k < m => last_use[put[k].symbol] > last_use[put[m].symbol]
  BY <1>5, <1>6 DEF CacheInv, Sorted
<1>10. ASSUME NEW m \in 1 .. Len(cache), cache[m].symbol # t.symbol
       PROVE  \/ \E k \in 2 .. Len(put) : put[k] = cache[m]
              \/ /\ Len(put) = CacheCapacity
                 /\ \A k \in 2 .. Len(put) :
                      last_use[put[k].symbol] > last_use[cache[m].symbol]
  <2>1. m # p
    BY <1>4, <1>10
  <2>2. CASE m < p /\ m + 1 <= Len(put)
    <3>1. m + 1 \in 2 .. Len(put) /\ put[m + 1] = cache[m]
      BY <1>1, <1>2, <2>2
    <3>2. QED
      BY <3>1
  <2>3. CASE p < m
    <3>1. m \in 2 .. Len(put) /\ put[m] = cache[m]
      BY <1>1, <1>2, <2>3
    <3>2. QED
      BY <3>1
  <2>4. CASE m < p /\ m + 1 > Len(put)
    <3>1. m = Len(cache) /\ Len(put) = Len(cache) /\ Len(put) = CacheCapacity
      BY <1>1, <1>2, <2>4
    <3>2. \A k \in 2 .. Len(put) : old(k) < m
      BY <1>1, <1>2, <2>4, <3>1 DEF old
    <3>3. QED
      BY <1>5, <1>6, <3>1, <3>2 DEF CacheInv, Sorted
  <2>5. QED
    BY <1>1, <1>2, <2>1, <2>2, <2>3, <2>4
<1>11. QED
  BY <1>1, <1>7, <1>8, <1>9, <1>10 DEF put

LEMMA PutKeeps ==
  ASSUME CacheTypes, CacheInv, NEW t \in Market!TickType,
         cache' = Market!Put(t), Market!Used(t.symbol)
  PROVE  CacheTypes' /\ CacheInv'
<1> DEFINE put == Market!Put(t)
<1>1. /\ put \in Seq(Market!TickType) /\ Len(put) <= CacheCapacity
      /\ Len(put) # 0 => put[1] = t
      /\ Len(put) = 0 => Len(put) = CacheCapacity
      /\ Len(cache) = CacheCapacity => Len(put) = CacheCapacity
      /\ \A k \in 2 .. Len(put) : \E j \in 1 .. Len(cache) :
           put[k] = cache[j] /\ cache[j].symbol # t.symbol
      /\ \A k, m \in 2 .. Len(put) :
           k < m => last_use[put[k].symbol] > last_use[put[m].symbol]
      /\ \A m \in 1 .. Len(cache) : cache[m].symbol # t.symbol =>
           \/ \E k \in 2 .. Len(put) : put[k] = cache[m]
           \/ /\ Len(put) = CacheCapacity
              /\ \A k \in 2 .. Len(put) :
                   last_use[put[k].symbol] > last_use[cache[m].symbol]
  BY PutMoves
<1>2. cache' = put /\ uses' = uses + 1 /\ last_use' = [last_use EXCEPT ![t.symbol] = uses + 1]
  BY DEF Market!Used
<1>3. /\ cache \in Seq(Market!TickType) /\ uses \in Nat /\ last_use \in [Symbols -> Nat]
      /\ \A s \in Symbols : last_use[s] <= uses
      /\ t.symbol \in Symbols /\ \A j \in 1 .. Len(cache) : cache[j].symbol \in Symbols
  BY EntrySymbols DEF CacheTypes, Market!TickType
<1> HIDE DEF put
<1>4. /\ last_use' \in [Symbols -> Nat] /\ last_use'[t.symbol] = uses + 1
      /\ \A s \in Symbols : last_use[s] < uses + 1
      /\ \A s \in Symbols : s # t.symbol => last_use'[s] = last_use[s]
  BY <1>2, <1>3
<1>5. CacheTypes'
  BY <1>1, <1>2, <1>3, <1>4 DEF CacheTypes
<1>6. \A k \in 2 .. Len(put) :
        /\ put[k].symbol \in Symbols /\ put[k].symbol # t.symbol
        /\ last_use'[put[k].symbol] = last_use[put[k].symbol]
        /\ last_use'[put[k].symbol] > 0
  <2> SUFFICES ASSUME NEW k \in 2 .. Len(put)
               PROVE  /\ put[k].symbol \in Symbols /\ put[k].symbol # t.symbol
                      /\ last_use'[put[k].symbol] = last_use[put[k].symbol]
                      /\ last_use'[put[k].symbol] > 0
    OBVIOUS
  <2>1. PICK j \in 1 .. Len(cache) : put[k] = cache[j] /\ cache[j].symbol # t.symbol
    BY <1>1
  <2>2. cache[j].symbol \in Symbols /\ last_use[cache[j].symbol] > 0
    BY <1>3 DEF CacheInv
  <2>3. QED
    BY <1>4, <2>1, <2>2
<1>7. Len(put) \in Nat /\ \A k \in 1 .. Len(put) : k = 1 \/ k \in 2 .. Len(put)
  BY <1>1
<1>8. Sorted'
  <2> SUFFICES ASSUME NEW k \in 1 .. Len(put), NEW m \in 1 .. Len(put), k < m
               PROVE  last_use'[put[k].symbol] > last_use'[put[m].symbol]
    BY <1>2 DEF Sorted
  <2>1. m \in 2 .. Len(put)
    BY <1>7
  <2>2. CASE k = 1
    BY <1>1, <1>4, <1>6, <1>7, <2>1, <2>2
  <2>3. CASE k \in 2 .. Len(put)
    BY <1>1, <1>6, <2>1, <2>3
  <2>4. QED
    BY <1>7, <2>2, <2>3
<1>9. \A j \in 1 .. Len(put) : last_use'[put[j].symbol] > 0
  BY <1>1, <1>3, <1>4, <1>6, <1>7
<1>10. \A s : (Market!Cached(s) # {} <=> \E j \in 1 .. Len(cache) : cache[j].symbol = s)
  BY <1>3 DEF Market!Cached
<1>11. \A s : (Market!Cached(s)' # {} <=> \E j \in 1 .. Len(put) : put[j].symbol = s)
  BY <1>1, <1>2 DEF Market!Cached
\* What a symbol without an entry, now, had before.
<1>12. ASSUME NEW u \in Symbols, Market!Cached(u)' = {}, Len(put) # 0
       PROVE  /\ u # t.symbol
              /\ \/ Market!Cached(u) = {}
                 \/ /\ Len(put) = CacheCapacity
                    /\ \A k \in 2 .. Len(put) : last_use[put[k].symbol] > last_use[u]
  <2>1. u # t.symbol
    <3>1. 1 \in 1 .. Len(put) /\ put[1] = t
      BY <1>1, <1>7, <1>12
    <3>2. Market!Cached(t.symbol)' # {}
      BY <1>11, <3>1
    <3>3. QED
      BY <1>12, <3>2
  <2>2. ASSUME NEW j \in 1 .. Len(cache), cache[j].symbol = u
        PROVE  /\ Len(put) = CacheCapacity
               /\ \A k \in 2 .. Len(put) : last_use[put[k].symbol] > last_use[u]
    <3>1. ~ \E k \in 2 .. Len(put) : put[k] = cache[j]
      BY <1>7, <1>11, <1>12, <2>2
    <3>2. QED
      BY <1>1, <2>1, <2>2, <3>1
  <2>3. QED
    BY <1>10, <2>1, <2>2
<1>13. ASSUME NEW s \in Symbols, NEW u \in Symbols,
              Market!Cached(s)' # {}, Market!Cached(u)' = {}
       PROVE  last_use'[s] > last_use'[u]
  <2>1. PICK k \in 1 .. Len(put) : put[k].symbol = s
    BY <1>11, <1>13
  <2>2. Len(put) # 0
    BY <1>7, <2>1
  <2>3. u # t.symbol /\ last_use'[u] = last_use[u]
    BY <1>4, <1>12, <1>13, <2>2
  <2>4. CASE k = 1
    BY <1>1, <1>4, <2>1, <2>2, <2>3, <2>4
  <2>5. CASE k \in 2 .. Len(put)
    <3>1. last_use'[s] = last_use[s]
      BY <1>6, <2>1, <2>5
    <3>2. CASE Market!Cached(u) = {}
      <4>1. Market!Cached(s) # {}
        BY <1>1, <1>10, <2>1, <2>5
      <4>2. QED
        BY <2>3, <3>1, <3>2, <4>1 DEF CacheInv, Market!EvictsLeastRecent
    <3>3. CASE \A m \in 2 .. Len(put) : last_use[put[m].symbol] > last_use[u]
      BY <2>1, <2>3, <2>5, <3>1, <3>3
    <3>4. QED
      BY <1>12, <1>13, <2>2, <3>2, <3>3
  <2>6. QED
    BY <1>7, <2>4, <2>5
<1>14. ASSUME NEW u \in Symbols, last_use'[u] > 0, Market!Cached(u)' = {}
       PROVE  Len(put) = CacheCapacity
  <2>1. CASE Len(put) = 0
    BY <1>1, <2>1
  <2>2. CASE Len(put) # 0
    <3>1. u # t.symbol /\ last_use[u] > 0
      BY <1>4, <1>12, <1>14, <2>2
    <3>2. CASE Market!Cached(u) = {}
      BY <1>1, <3>1, <3>2 DEF CacheInv, Market!EvictsLeastRecent
    <3>3. QED
      BY <1>12, <1>14, <2>2, <3>2
  <2>3. QED
    BY <2>1, <2>2
<1>15. Market!EvictsLeastRecent'
  BY <1>1, <1>2, <1>13, <1>14 DEF Market!EvictsLeastRecent
<1>16. QED
  BY <1>2, <1>5, <1>8, <1>9, <1>15 DEF CacheInv

\* A hit is an entry put again.
LEMMA HitIsPut ==
  ASSUME CacheTypes, CacheInv, NEW s \in Symbols, NEW j \in Market!Cached(s)
  PROVE  /\ cache[j] \in Market!TickType /\ cache[j].symbol = s
         /\ <<cache[j]>> \o Market!Others(s) = Market!Put(cache[j])
<1>1. cache \in Seq(Market!TickType) /\ j \in 1 .. Len(cache) /\ cache[j].symbol = s
  BY DEF CacheTypes, Market!Cached
<1>2. cache[j] \in Market!TickType
  BY <1>1
<1> DEFINE list == <<cache[j]>> \o Market!Others(s)
<1>3. list \in Seq(Market!TickType) /\ Len(list) = Len(cache)
  <2>1. /\ Market!Others(s) \in Seq(Market!TickType)
        /\ Len(Market!Others(s))
             = IF Place(s) <= Len(cache) THEN Len(cache) - 1 ELSE Len(cache)
    BY OthersFacts
  <2>2. Place(s) = j
    BY <1>1, OneEntryEach DEF CacheInv
  <2>3. <<cache[j]>> \in Seq(Market!TickType) /\ Len(<<cache[j]>>) = 1
    BY <1>2
  <2>4. list \in Seq(Market!TickType) /\ Len(list) = 1 + Len(Market!Others(s))
    BY <2>1, <2>3, ConcatProperties
  <2>5. Len(cache) \in Nat /\ j <= Len(cache)
    BY <1>1
  <2>6. QED
    BY <2>1, <2>2, <2>4, <2>5
<1>4. Market!Put(cache[j])
        = SubSeq(list, 1, IF Len(list) > CacheCapacity THEN CacheCapacity ELSE Len(list))
  BY <1>1 DEF Market!Put
<1>5. ~(Len(list) > CacheCapacity)
  BY <1>1, <1>3, CacheCapacityType DEF CacheInv, Market!EvictsLeastRecent
<1> HIDE DEF list
<1>6. Market!Put(cache[j]) = list
  BY <1>3, <1>4, <1>5, SubSeqFull
<1>7. QED
  BY <1>1, <1>2, <1>6 DEF list

LEMMA CacheInit ==
  ASSUME Market!Init
  PROVE  CacheTypes /\ CacheInv
<1>1. cache = <<>> /\ uses = 0 /\ last_use = [s \in Symbols |-> 0]
  BY DEF Market!Init, Market!Never
<1>2. \A s : Market!Cached(s) = {}
  BY <1>1 DEF Market!Cached
<1>3. QED
  BY <1>1, <1>2, CacheCapacityType DEF CacheTypes, CacheInv, Sorted, Market!EvictsLeastRecent

LEMMA CacheStep ==
  ASSUME CacheTypes, CacheInv, [Market!Next]_(Market!vars)
  PROVE  CacheTypes' /\ CacheInv'
<1>1. CASE Market!OnTick
  <2>1. PICK s \in Symbols : /\ cache' = Market!Put([symbol |-> s, at |-> uses + 1])
                             /\ Market!Used(s)
    BY <1>1 DEF Market!OnTick
  <2>2. [symbol |-> s, at |-> uses + 1] \in Market!TickType
    BY DEF CacheTypes, Market!TickType
  <2>3. QED
    BY <2>1, <2>2, PutKeeps
<1>2. ASSUME NEW s \in Symbols, Market!GetLastTick(s)
      PROVE  CacheTypes' /\ CacheInv'
  <2>1. PICK j \in Market!Cached(s) :
          cache' = <<cache[j]>> \o Market!Others(s) /\ Market!Used(s)
    BY <1>2 DEF Market!GetLastTick
  <2>2. /\ cache[j] \in Market!TickType /\ cache[j].symbol = s
        /\ cache' = Market!Put(cache[j])
    BY <2>1, HitIsPut
  <2>3. Market!Used(cache[j].symbol)
    BY <2>1, <2>2
  <2>4. QED
    BY <2>2, <2>3, PutKeeps
<1>3. CASE Market!ClearCache
  <2>1. cache' = <<>> /\ uses' = uses /\ last_use' = [s \in Symbols |-> 0]
    BY <1>3 DEF Market!ClearCache, Market!Never
  <2>2. \A s : Market!Cached(s)' = {}
    BY <2>1 DEF Market!Cached
  <2>3. QED
    BY <2>1, <2>2, CacheCapacityType
       DEF CacheTypes, CacheInv, Sorted, Market!EvictsLeastRecent
<1>4. CASE UNCHANGED <<cache, uses, last_use>>
  BY <1>4 DEF CacheTypes, CacheInv, Sorted, Market!EvictsLeastRecent, Market!Cached
<1>5. \/ Market!OnTick \/ Market!ClearCache \/ \E s \in Symbols : Market!GetLastTick(s)
      \/ UNCHANGED <<cache, uses, last_use>>
  BY DEF Market!Next, Market!vars, Market!StoreTick, Market!NotifySubscribers,
     Market!Subscribe, Market!ClearRest, Market!GetLastPrice, Market!GetHistory
<1>6. QED
  BY <1>1, <1>2, <1>3, <1>4, <1>5

----------------------------------------------------------------------------
(***************************************************************************)
(* The cache: what readers are told.                                       *)
(***************************************************************************)
\* The newest tick of a symbol the aggregator has: the one being filed, until
\* it is.
Due ==
  [s \in Symbols |-> IF pc \in {"store", "notify"} /\ tick[1].symbol = s
                       THEN tick[1].at ELSE last_prices[s]]

ReadTypes ==
  /\ pc \in {"free", "store", "notify", "clear"}
  /\ pc \in {"store", "notify"} => tick[1] \in Market!TickType
  /\ last_prices \in [Symbols -> Nat] /\ newest \in [Symbols -> Nat]
  /\ symbol_ticks \in [Symbols -> Seq(Market!TickType)]

ReadInv ==
  /\ pc \in {"store", "notify"} => tick[1].at <= uses
  /\ pc = "store" => last_prices[tick[1].symbol] <= tick[1].at
  /\ pc = "notify" => last_prices[tick[1].symbol] = tick[1].at
  /\ pc = "clear" => cache = <<>>
  /\ \A s \in Symbols : newest[s] <= Due[s] /\ last_prices[s] <= uses
  /\ \A j \in 1 .. Len(cache) : cache[j].at = Due[cache[j].symbol]
  /\ \A s \in Symbols : symbol_ticks[s] # <<>> =>
       symbol_ticks[s][Len(symbol_ticks[s])].at = last_prices[s]

LEMMA SuffixFacts ==
  ASSUME NEW S, NEW q \in Seq(S), NEW n \in Nat
  PROVE  /\ Market!Suffix(q, n) \in Seq(S)
         /\ Market!Suffix(q, n) # <<>> =>
              q # <<>> /\ Market!Suffix(q, n)[Len(Market!Suffix(q, n))] = q[Len(q)]
         /\ n > 0 /\ q # <<>> => Market!Suffix(q, n) # <<>>
<1> DEFINE m == (IF Len(q) > n THEN Len(q) - n ELSE 0) + 1
           r == SubSeq(q, m, Len(q))
<1>1. Len(q) \in Nat /\ m \in 1 .. Len(q) + 1 /\ (n > 0 /\ Len(q) > 0 => m <= Len(q))
  OBVIOUS
<1> HIDE DEF m
<1>2. /\ r \in Seq(S) /\ Len(r) = IF m <= Len(q) THEN (Len(q) - m) + 1 ELSE 0
      /\ \A j \in 1 .. (Len(q) - m) + 1 : r[j] = q[(m + j) - 1]
  BY <1>1, SubSeqProperties
<1>3. Market!Suffix(q, n) = r
  BY DEF Market!Suffix, m
<1> HIDE DEF r
<1>4. ASSUME r # <<>>
      PROVE  q # <<>> /\ r[Len(r)] = q[Len(q)]
  <2>1. m <= Len(q) /\ Len(r) = (Len(q) - m) + 1
    BY <1>1, <1>2, <1>4
  <2>2. /\ (Len(q) - m) + 1 \in 1 .. (Len(q) - m) + 1
        /\ (m + ((Len(q) - m) + 1)) - 1 = Len(q) /\ Len(q) # 0
    BY <1>1, <2>1
  <2>3. QED
    BY <1>2, <2>1, <2>2
<1>5. ASSUME n > 0, q # <<>>
      PROVE  r # <<>>
  BY <1>1, <1>2, <1>5
<1>6. QED
  BY <1>2, <1>3, <1>4, <1>5

LEMMA ReadInit ==
  ASSUME Market!Init
  PROVE  ReadTypes /\ ReadInv
<1>1. /\ cache = <<>> /\ uses = 0 /\ pc = "free"
      /\ last_prices = [s \in Symbols |-> 0] /\ newest = [s \in Symbols |-> 0]
      /\ symbol_ticks = [s \in Symbols |-> <<>>]
  BY DEF Market!Init, Market!Never
<1>2. QED
  BY <1>1 DEF ReadTypes, ReadInv, Due

\* The entries after a put are the one put and entries of other symbols.
LEMMA PutEntries ==
  ASSUME CacheTypes, CacheInv, NEW t \in Market!TickType
  PROVE  \A k \in 1 .. Len(Market!Put(t)) :
           \/ Market!Put(t)[k] = t
           \/ \E j \in 1 .. Len(cache) :
                Market!Put(t)[k] = cache[j] /\ cache[j].symbol # t.symbol
<1>1. /\ Market!Put(t) \in Seq(Market!TickType)
      /\ Len(Market!Put(t)) # 0 => Market!Put(t)[1] = t
      /\ \A k \in 2 .. Len(Market!Put(t)) : \E j \in 1 .. Len(cache) :
           Market!Put(t)[k] = cache[j] /\ cache[j].symbol # t.symbol
  BY PutMoves
<1>2. \A k \in 1 .. Len(Market!Put(t)) :
        (k = 1 /\ Len(Market!Put(t)) # 0) \/ k \in 2 .. Len(Market!Put(t))
  BY <1>1
<1>3. QED
  BY <1>1, <1>2

LEMMA OnTickReads ==
  ASSUME CacheTypes, CacheInv, ReadTypes, ReadInv, Market!OnTick
  PROVE  ReadTypes' /\ ReadInv' /\ UNCHANGED newest
<1>1. PICK s \in Symbols : /\ tick' = <<[symbol |-> s, at |-> uses + 1]>>
                           /\ cache' = Market!Put(tick'[1]) /\ Market!Used(s)
  BY DEF Market!OnTick
<1>2. /\ pc = "free" /\ pc' = "store" /\ uses' = uses + 1
      /\ UNCHANGED <<symbol_ticks, last_prices, newest>>
  BY <1>1 DEF Market!OnTick, Market!Used
<1> DEFINE t == [symbol |-> s, at |-> uses + 1]
<1>3. t \in Market!TickType /\ t.symbol = s /\ t.at = uses + 1 /\ tick'[1] = t /\ uses \in Nat
  BY <1>1 DEF CacheTypes, Market!TickType
<1> HIDE DEF t
<1>4. /\ \A u \in Symbols : Due[u] = last_prices[u]
      /\ \A u \in Symbols : Due'[u] = IF u = s THEN uses + 1 ELSE last_prices[u]
  BY <1>2, <1>3 DEF Due
<1>5. ReadTypes'
  BY <1>2, <1>3 DEF ReadTypes
<1>6. ASSUME NEW u \in Symbols
      PROVE  newest'[u] <= Due'[u] /\ last_prices'[u] <= uses'
  <2>1. /\ newest[u] \in Nat /\ last_prices[u] \in Nat
        /\ newest[u] <= last_prices[u] /\ last_prices[u] <= uses
    BY <1>4 DEF ReadInv, ReadTypes
  <2>2. Due'[u] = last_prices[u] \/ Due'[u] = uses + 1
    BY <1>4
  <2>3. QED
    BY <1>2, <1>3, <2>1, <2>2
<1>7. ASSUME NEW k \in 1 .. Len(cache')
      PROVE  cache'[k].at = Due'[cache'[k].symbol]
  <2>1. \/ cache'[k] = t
        \/ \E j \in 1 .. Len(cache) : cache'[k] = cache[j] /\ cache[j].symbol # s
    BY <1>1, <1>3, PutEntries
  <2>2. \A j \in 1 .. Len(cache) : cache[j].symbol \in Symbols
    BY EntrySymbols
  <2>3. QED
    BY <1>3, <1>4, <2>1, <2>2 DEF ReadInv
<1>8. QED
  BY <1>2, <1>3, <1>5, <1>6, <1>7 DEF ReadInv

LEMMA StoreTickReads ==
  ASSUME CacheTypes, ReadTypes, ReadInv, Market!StoreTick
  PROVE  ReadTypes' /\ ReadInv' /\ UNCHANGED newest
<1> DEFINE t == tick[1]
           new == Market!Suffix(Append(symbol_ticks[t.symbol], t), KeepTicks)
<1>1. /\ pc = "store" /\ pc' = "notify" /\ UNCHANGED <<cache, tick, uses, newest>>
      /\ symbol_ticks' = [symbol_ticks EXCEPT ![t.symbol] = new]
      /\ last_prices' = [last_prices EXCEPT ![t.symbol] = t.at]
  BY DEF Market!StoreTick
<1>2. t \in Market!TickType /\ t.symbol \in Symbols /\ t.at \in Nat /\ t.at <= uses
  BY <1>1 DEF ReadTypes, ReadInv, Market!TickType
<1>3. new \in Seq(Market!TickType) /\ (new # <<>> => new[Len(new)] = t)
  <2>1. KeepTicks \in Nat
    BY MarketAssumptions DEF Market!KeepTicksAssumption
  <2> DEFINE q == Append(symbol_ticks[t.symbol], t)
  <2>2. q \in Seq(Market!TickType) /\ q[Len(q)] = t
    BY <1>2 DEF ReadTypes
  <2> HIDE DEF q
  <2>3. /\ Market!Suffix(q, KeepTicks) \in Seq(Market!TickType)
        /\ Market!Suffix(q, KeepTicks) # <<>> =>
             Market!Suffix(q, KeepTicks)[Len(Market!Suffix(q, KeepTicks))] = q[Len(q)]
    BY <2>1, <2>2, SuffixFacts
  <2>4. QED
    BY <2>2, <2>3 DEF q
<1> HIDE DEF new
<1>4. /\ ReadTypes' /\ tick'[1] = t
      /\ \A s \in Symbols : s # t.symbol =>
           symbol_ticks'[s] = symbol_ticks[s] /\ last_prices'[s] = last_prices[s]
      /\ symbol_ticks'[t.symbol] = new /\ last_prices'[t.symbol] = t.at
  BY <1>1, <1>2, <1>3 DEF ReadTypes
<1>5. Due' = Due
  BY <1>1, <1>4 DEF Due
<1>6. ASSUME NEW s \in Symbols
      PROVE  newest'[s] <= Due'[s] /\ last_prices'[s] <= uses'
  BY <1>1, <1>2, <1>4, <1>5 DEF ReadInv
<1>7. ASSUME NEW k \in 1 .. Len(cache')
      PROVE  cache'[k].at = Due'[cache'[k].symbol]
  <2>1. cache[k].symbol \in Symbols
    BY <1>1, EntrySymbols
  <2>2. QED
    BY <1>1, <1>5, <2>1 DEF ReadInv
<1>8. ASSUME NEW s \in Symbols, symbol_ticks'[s] # <<>>
      PROVE  symbol_ticks'[s][Len(symbol_ticks'[s])].at = last_prices'[s]
  BY <1>3, <1>4, <1>8 DEF ReadInv
<1>9. QED
  BY <1>1, <1>2, <1>4, <1>6, <1>7, <1>8 DEF ReadInv

\* Whatever a reader is told is what is due.
LEMMA ToldIsDue ==
  ASSUME CacheTypes, ReadTypes, ReadInv, NEW s \in Symbols,
         Market!GetLastTick(s) \/ Market!GetLastPrice(s) \/ Market!GetHistory(s, 1)
  PROVE  newest' = [newest EXCEPT ![s] = Due[s]]
<1>1. CASE Market!GetLastTick(s)
  <2>1. PICK j \in Market!Cached(s) : Market!Returned(s, cache[j].at)
    BY <1>1 DEF Market!GetLastTick
  <2>2. j \in 1 .. Len(cache) /\ cache[j].symbol = s
    BY DEF CacheTypes, Market!Cached
  <2>3. QED
    BY <2>1, <2>2 DEF ReadInv, Market!Returned
<1>2. CASE Market!GetLastPrice(s)
  BY <1>2 DEF Market!GetLastPrice, Market!Returned, Due
<1>3. CASE Market!GetHistory(s, 1)
  <2> DEFINE recent == Market!Suffix(symbol_ticks[s], 1)
  <2>1. /\ pc = "free" /\ symbol_ticks[s] # <<>>
        /\ newest' = [newest EXCEPT ![s] = recent[Len(recent)].at]
    BY <1>3 DEF Market!GetHistory, Market!Returned
  <2>2. symbol_ticks[s] \in Seq(Market!TickType)
    BY DEF ReadTypes
  <2>3. recent[Len(recent)] = symbol_ticks[s][Len(symbol_ticks[s])]
    BY <2>1, <2>2, SuffixFacts
  <2>4. QED
    BY <2>1, <2>3 DEF ReadInv, Due
<1>4. QED
  BY <1>1, <1>2, <1>3

LEMMA ReadsKeep ==
  ASSUME CacheTypes, CacheInv, ReadTypes, ReadInv, NEW s \in Symbols,
         Market!GetLastTick(s) \/ Market!GetLastPrice(s) \/ Market!GetHistory(s, 1)
  PROVE  /\ ReadTypes' /\ ReadInv'
         /\ \A u \in Symbols : newest'[u] >= newest[u]
<1>1. newest' = [newest EXCEPT ![s] = Due[s]]
  BY ToldIsDue
<1>2. /\ UNCHANGED <<symbol_ticks, last_prices, pc, tick>>
      /\ uses' = uses \/ uses' = uses + 1
  BY DEF Market!GetLastTick, Market!GetLastPrice, Market!GetHistory, Market!Used
<1>3. /\ Due' = Due
      /\ \A u \in Symbols : Due[u] \in Nat
  BY <1>2 DEF Due, ReadTypes, Market!TickType
<1>4. \A k \in 1 .. Len(cache') : \E j \in 1 .. Len(cache) : cache'[k] = cache[j]
  <2>1. CASE Market!GetLastTick(s)
    <3>1. PICK j \in Market!Cached(s) : cache' = <<cache[j]>> \o Market!Others(s)
      BY <2>1 DEF Market!GetLastTick
    <3>2. /\ cache[j] \in Market!TickType /\ j \in 1 .. Len(cache)
          /\ cache' = Market!Put(cache[j])
      BY <3>1, HitIsPut DEF CacheTypes, Market!Cached
    <3>3. QED
      BY <3>2, PutEntries
  <2>2. CASE UNCHANGED cache
    BY <2>2
  <2>3. QED
    BY <2>1, <2>2 DEF Market!GetLastPrice, Market!GetHistory
<1>5. pc = "clear" => cache' = <<>>
  <2>1. ASSUME cache = <<>>
        PROVE  Market!Cached(s) = {}
    BY <2>1 DEF Market!Cached
  <2>2. QED
    BY <2>1 DEF ReadInv, Market!GetLastTick, Market!GetLastPrice, Market!GetHistory
<1>6. /\ newest' \in [Symbols -> Nat]
      /\ \A u \in Symbols : newest'[u] >= newest[u] /\ newest'[u] <= Due[u]
  BY <1>1, <1>3 DEF ReadTypes, ReadInv
<1>7. ReadTypes'
  BY <1>2, <1>6 DEF ReadTypes
<1>8. \A k \in 1 .. Len(cache') : cache'[k].at = Due'[cache'[k].symbol]
  BY <1>3, <1>4 DEF ReadInv
<1>9. /\ pc' \in {"store", "notify"} => tick'[1].at <= uses'
      /\ \A u \in Symbols : last_prices'[u] <= uses'
  <2>1. uses \in Nat /\ last_prices \in [Symbols -> Nat]
        /\ (pc \in {"store", "notify"} => tick[1].at \in Nat)
    BY DEF ReadTypes, CacheTypes, Market!TickType
  <2>2. QED
    BY <1>2, <2>1 DEF ReadInv
<1>10. QED
  BY <1>2, <1>3, <1>5, <1>6, <1>7, <1>8, <1>9 DEF ReadInv

LEMMA ReadStep ==
  ASSUME CacheTypes, CacheInv, ReadTypes, ReadInv, [Market!Next]_(Market!vars)
  PROVE  /\ ReadTypes' /\ ReadInv'
         /\ newest' # newest /\ newest' # Market!Never =>
              \A s \in Symbols : newest'[s] >= newest[s]
<1>1. CASE Market!OnTick
  BY <1>1, OnTickReads
<1>2. CASE Market!StoreTick
  BY <1>2, StoreTickReads
<1>3. CASE Market!NotifySubscribers
  <2> DEFINE s == tick[1].symbol
  <2>1. /\ pc = "notify" /\ pc' = "free"
        /\ UNCHANGED <<cache, symbol_ticks, last_prices, uses>>
        /\ newest' = newest \/ newest' = [newest EXCEPT ![s] = tick[1].at]
    BY <1>3 DEF Market!NotifySubscribers, Market!Returned
  <2>2. tick[1].symbol \in Symbols /\ tick[1].at \in Nat /\ last_prices[s] = tick[1].at
    BY <2>1 DEF ReadTypes, ReadInv, Market!TickType
  <2>3. Due' = Due /\ Due[s] = tick[1].at
    BY <2>1, <2>2 DEF Due
  <2>4. /\ newest' \in [Symbols -> Nat]
        /\ \A u \in Symbols : newest'[u] >= newest[u] /\ newest'[u] <= Due[u]
    <3>1. newest \in [Symbols -> Nat] /\ \A u \in Symbols : newest[u] <= Due[u]
      BY DEF ReadTypes, ReadInv
    <3>2. CASE newest' = newest
      BY <3>1, <3>2
    <3>3. CASE newest' = [newest EXCEPT ![s] = tick[1].at]
      BY <2>2, <2>3, <3>1, <3>3
    <3>4. QED
      BY <2>1, <3>2, <3>3
  <2>5. ReadTypes'
    BY <2>1, <2>4 DEF ReadTypes
  <2>6. QED
    BY <2>1, <2>3, <2>4, <2>5 DEF ReadInv
<1>4. CASE Market!ClearCache
  <2>1. /\ pc = "free" /\ pc' = "clear" /\ cache' = <<>>
        /\ UNCHANGED <<symbol_ticks, last_prices, tick, uses, newest>>
    BY <1>4 DEF Market!ClearCache
  <2>2. Due' = Due
    BY <2>1 DEF Due
  <2>3. QED
    BY <2>1, <2>2 DEF ReadTypes, ReadInv
<1>5. CASE Market!ClearRest
  <2>1. /\ pc = "clear" /\ pc' = "free" /\ UNCHANGED <<cache, uses>>
        /\ symbol_ticks' = [s \in Symbols |-> <<>>]
        /\ last_prices' = [s \in Symbols |-> 0] /\ newest' = [s \in Symbols |-> 0]
        /\ newest' = Market!Never
    BY <1>5 DEF Market!ClearRest, Market!Never
  <2>2. Due' = [s \in Symbols |-> 0] /\ cache = <<>> /\ uses \in Nat
    BY <2>1 DEF Due, ReadInv, CacheTypes
  <2>3. QED
    BY <2>1, <2>2 DEF ReadTypes, ReadInv
<1>6. ASSUME NEW s \in Symbols,
             Market!GetLastTick(s) \/ Market!GetLastPrice(s) \/ Market!GetHistory(s, 1)
      PROVE  /\ ReadTypes' /\ ReadInv'
             /\ \A u \in Symbols : newest'[u] >= newest[u]
  BY <1>6, ReadsKeep
<1>7. CASE Market!Subscribe \/ UNCHANGED Market!vars
  <2>1. UNCHANGED <<cache, symbol_ticks, last_prices, pc, tick, uses, newest>>
    BY <1>7 DEF Market!Subscribe, Market!vars
  <2>2. Due' = Due
    BY <2>1 DEF Due
  <2>3. QED
    BY <2>1, <2>2 DEF ReadTypes, ReadInv
<1>8. QED
  BY <1>1, <1>2, <1>3, <1>4, <1>5, <1>6, <1>7 DEF Market!Next

\* cache.hpp and market_data.hpp: an entry leaves the cache only for want of
\* room and after more recently used ones have taken all of it, and no reader,
\* in or out of the aggregator's mutex, is told an older tick than one before.
THEOREM CacheServesNewest == Spec => CacheIsSound
<1> DEFINE Inv == CacheTypes /\ CacheInv /\ ReadTypes /\ ReadInv
<1>1. Init => Inv
  BY CacheInit, ReadInit DEF Init
<1>2. Inv /\ [Next]_vars => Inv'
  BY Parts, CacheStep, ReadStep
<1>3. Inv => Market!EvictsLeastRecent
  BY DEF CacheInv
<1>4. Inv /\ [Next]_vars =>
        [newest' # Market!Never => \A s \in Symbols : newest'[s] >= newest[s]]_newest
  BY Parts, ReadStep
<1>5. QED
  BY <1>1, <1>2, <1>3, <1>4, PTL DEF Spec, CacheIsSound, Market!ReadsNeverGoBack

----------------------------------------------------------------------------
(***************************************************************************)
(* The hours.                                                              *)
(***************************************************************************)
HoursTypes == minute \in 0 .. 1439 /\ promised \in Int

\* Who is waiting was told the minutes to an opening time: of this day, or of
\* the next; and in that case did not ask in vain about this one.
Nobody == promised < 0
Today == minute + promised = 570
Tomorrow == minute + promised = 1440 + 570
NoneMissed == early \/ Hours!Weekend \/ minute >= Hours!Closing

HoursInv == HoursTypes /\ (Nobody \/ Today \/ (Tomorrow /\ NoneMissed))

LEMMA Times == Hours!MinutesPerDay = 1440 /\ Hours!Opening = 570 /\ Hours!Closing = 960
  BY DEF Hours!MinutesPerDay, Hours!Opening, Hours!Closing

LEMMA StepType == Step \in 1 .. 30
<1>1. Step \in Nat /\ Step > 0 /\ 30 % Step = 0
  BY HoursAssumptions DEF Hours!StepAssumption
<1>2. Step > 30 => 30 % Step = 30
  BY <1>1
<1>3. QED
  BY <1>1, <1>2

LEMMA HoursStep ==
  ASSUME HoursInv, [Hours!Next]_(Hours!vars)
  PROVE  HoursInv'
<1>1. minute \in 0 .. 1439 /\ promised \in Int
  BY DEF HoursInv, HoursTypes
<1>2. CASE Hours!Ask
  <2>1. /\ UNCHANGED <<day, minute>> /\ ~Hours!IsMarketOpen
        /\ promised' = (1440 - minute) + 570
        /\ early' = (~Hours!Weekend /\ minute < 570)
    BY <1>2, Times DEF Hours!Ask, Hours!SecondsUntilOpen
  <2>2. Hours!Weekend \/ minute < 570 \/ minute >= 960
    BY <1>1, <2>1, Times DEF Hours!IsMarketOpen
  <2>3. (Hours!Weekend' <=> Hours!Weekend) /\ (~Hours!Weekend /\ minute < 570 => early')
    BY <2>1, Zenon DEF Hours!Weekend
  <2>4. minute >= 960 => minute' >= Hours!Closing
    BY <2>1, Times
  <2>5. NoneMissed'
    BY <2>2, <2>3, <2>4 DEF NoneMissed
  <2>6. HoursTypes'
    BY <1>1, <2>1 DEF HoursTypes
  <2>7. Tomorrow'
    BY <1>1, <2>1 DEF Tomorrow
  <2>8. QED
    BY <2>5, <2>6, <2>7 DEF HoursInv
<1>3. CASE Hours!Clock
  <2> DEFINE now == minute + Step
  <2>1. /\ minute' = now % 1440 /\ day' = IF now < 1440 THEN day ELSE (day + 1) % 7
        /\ promised' = (IF promised >= Step THEN promised - Step ELSE -1) /\ early' = early
    BY <1>3, Times DEF Hours!Clock
  <2>2. now \in 0 .. 1469 /\ Step \in 1 .. 30
    BY <1>1, StepType
  <2>3. minute' = IF now < 1440 THEN now ELSE now - 1440
    BY <2>1, <2>2
  <2>4. /\ promised' \in Int
        /\ (promised' >= 0 => promised >= Step /\ promised' = promised - Step)
    BY <1>1, <2>1, <2>2
  <2>5. NoneMissed /\ now < 1440 => NoneMissed'
    <3>1. now < 1440 => day' = day /\ (minute >= Hours!Closing => minute' >= Hours!Closing)
      BY <1>1, <2>1, <2>2, <2>3, Times
    <3>2. day' = day => (Hours!Weekend' <=> Hours!Weekend)
      BY DEF Hours!Weekend
    <3>3. QED
      BY <2>1, <3>1, <3>2 DEF NoneMissed
  <2>6. HoursTypes'
    BY <2>2, <2>3, <2>4 DEF HoursTypes
  <2>7. CASE promised' < 0
    <3>1. Nobody'
      BY <2>7 DEF Nobody
    <3>2. QED
      BY <2>6, <3>1 DEF HoursInv
  <2>8. CASE promised' >= 0 /\ now >= 1440
    <3>1. Today \/ Tomorrow
      BY <1>1, <2>2, <2>4, <2>8 DEF HoursInv, Nobody
    <3>2. Today'
      BY <1>1, <2>2, <2>3, <2>4, <2>8, <3>1 DEF Today, Tomorrow
    <3>3. QED
      BY <2>6, <3>2 DEF HoursInv
  <2>9. CASE promised' >= 0 /\ now < 1440
    <3>1. minute' + promised' = minute + promised /\ promised >= 0
      BY <1>1, <2>2, <2>3, <2>4, <2>9
    <3>2. (Today => Today') /\ (Tomorrow => Tomorrow')
      BY <3>1 DEF Today, Tomorrow
    <3>3. ~Nobody
      BY <1>1, <3>1 DEF Nobody
    <3>4. QED
      BY <2>5, <2>6, <2>9, <3>2, <3>3 DEF HoursInv
  <2>10. QED
    BY <2>2, <2>4, <2>7, <2>8, <2>9
<1>4. CASE UNCHANGED Hours!vars
  BY <1>4 DEF HoursInv, HoursTypes, Nobody, Today, Tomorrow, NoneMissed, Hours!vars,
     Hours!Weekend
<1>5. QED
  BY <1>2, <1>3, <1>4 DEF Hours!Next

\* market_hours.hpp: after the time seconds_until_open says the market is
\* open or it is a weekend, and until then it was not, except for those who
\* asked in the morning of a trading day, whatever the clock is read at.
THEOREM OpensThen == Spec => []OpensWhenSaid
<1>1. Init => HoursInv
  <2>1. Init => minute = 0 /\ promised = -1
    BY DEF Init, Hours!Init
  <2>2. minute = 0 /\ promised = -1 => HoursInv
    BY DEF HoursInv, HoursTypes, Nobody
  <2>3. QED
    BY <2>1, <2>2
<1>2. HoursInv /\ [Next]_vars => HoursInv'
  BY Parts, HoursStep
<1>3. HoursInv => OpensWhenSaid
  BY Times DEF HoursInv, HoursTypes, Nobody, Today, Tomorrow, NoneMissed, OpensWhenSaid,
     Hours!OpensWhenSaid, Hours!IsMarketOpen
<1>4. QED
  BY <1>1, <1>2, <1>3, PTL DEF Spec
----------------------------------------------------------------------------
(***************************************************************************)
(* Sums and folds over finite sets.  The community modules define them by  *)
(* recursion on a function chosen with CHOOSE; that there is one is proved *)
(* by induction on the size of the set, from the least natural number that *)
(* would break it.                                                         *)
(***************************************************************************)
LEMMA LeastNatural ==
  ASSUME NEW T \in SUBSET Nat, T # {}
  PROVE  \E n \in T : \A m \in T : n <= m
<1> DEFINE Less == {p \in Nat \X Nat : p[1] < p[2]}
<1>1. IsWellFoundedOn(Less, Nat)
  BY NatLessThanWellFounded DEF OpToRel
<1>2. \A m, n \in T : m < n => <<m, n>> \in Less
  OBVIOUS
<1> HIDE DEF Less
<1>3. PICK n \in T : \A m \in T : ~ (<<m, n>> \in Less)
  BY <1>1, WFMin
<1>4. ASSUME NEW m \in T PROVE n <= m
  <2>1. m \in Nat /\ n \in Nat /\ ~(m < n)
    BY <1>2, <1>3
  <2>2. QED
    BY <2>1
<1>5. QED
  BY <1>4

\* Induction over the naturals, for a set.
LEMMA NaturalInduction ==
  ASSUME NEW Good, 0 \in Good, \A n \in Nat : n \in Good => n + 1 \in Good
  PROVE  \A n \in Nat : n \in Good
<1> SUFFICES ASSUME Nat \ Good # {} PROVE FALSE
  OBVIOUS
<1>1. PICK n \in Nat \ Good : \A m \in Nat \ Good : n <= m
  BY LeastNatural
<1>2. n # 0 /\ n - 1 \in Nat
  BY <1>1
<1>3. n - 1 \in Good
  <2>1. ~(n <= n - 1)
    BY <1>1
  <2>2. QED
    BY <1>1, <1>2, <2>1
<1>4. (n - 1) + 1 = n
  BY <1>1
<1>5. QED
  BY <1>1, <1>2, <1>3, <1>4

\* The subsets of S of at most n members.
Small(S, n) == {s \in SUBSET S : Cardinality(s) <= n}

LEMMA SmallSubsets ==
  ASSUME NEW S, IsFiniteSet(S), NEW n \in Nat
  PROVE  /\ Small(S, 0) = {{}}
         /\ \A s \in Small(S, n + 1) : \A x \in s : s \ {x} \in Small(S, n)
         /\ Small(S, n) \subseteq Small(S, n + 1)
         /\ \A s \in SUBSET S : s \in Small(S, Cardinality(S))
         /\ \A s \in SUBSET S : IsFiniteSet(s) /\ Cardinality(s) \in Nat
<1>1. \A s \in SUBSET S : IsFiniteSet(s) /\ Cardinality(s) \in Nat
  BY FS_Subset, FS_CardinalityType
<1>2. Small(S, 0) = {{}}
  <2>1. \A s \in SUBSET S : Cardinality(s) <= 0 <=> s = {}
    BY <1>1, FS_EmptySet
  <2>2. QED
    BY <2>1 DEF Small
<1>3. ASSUME NEW s \in Small(S, n + 1), NEW x \in s
      PROVE  s \ {x} \in Small(S, n)
  <2>1. s \in SUBSET S /\ IsFiniteSet(s) /\ Cardinality(s) <= n + 1
    BY <1>1 DEF Small
  <2>2. Cardinality(s \ {x}) = Cardinality(s) - 1
    BY <2>1, FS_RemoveElement
  <2>3. Cardinality(s) \in Nat
    BY <1>1, <2>1
  <2>4. Cardinality(s \ {x}) <= n
    BY <2>1, <2>2, <2>3
  <2>5. QED
    BY <2>1, <2>4 DEF Small
<1>4. Small(S, n) \subseteq Small(S, n + 1)
  <2>1. \A c \in Nat : c <= n => c <= n + 1
    OBVIOUS
  <2>2. QED
    BY <1>1, <2>1 DEF Small
<1>5. \A s \in SUBSET S : s \in Small(S, Cardinality(S))
  BY <1>1, FS_Subset DEF Small
<1>6. QED
  BY <1>1, <1>2, <1>3, <1>4, <1>5

LEMMA SubsetIsSmall ==
  ASSUME NEW S, IsFiniteSet(S), NEW s \in SUBSET S
  PROVE  Cardinality(s) \in Nat /\ s \in Small(S, Cardinality(s))
<1>1. IsFiniteSet(s) /\ Cardinality(s) \in Nat
  BY FS_Subset, FS_CardinalityType
<1>2. QED
  BY <1>1 DEF Small

\* Which member is taken off.
Takes(take, S) == \A s \in SUBSET S : s # {} => take[s] \in s

\* A fold over the subsets of S: one member is taken off at a time.
IsFold(g, T, base, take, F) ==
  g = [s \in T |-> IF s = {} THEN base ELSE F[take[s]][g[s \ {take[s]}]]]

LEMMA FoldExists ==
  ASSUME NEW S, IsFiniteSet(S), NEW A, NEW base \in A,
         NEW take, Takes(take, S),
         NEW F \in [S -> [A -> A]]
  PROVE  \E g \in [SUBSET S -> A] : IsFold(g, SUBSET S, base, take, F)
<1> DEFINE Fold(T, g) == IsFold(g, T, base, take, F)
           Good == {n \in Nat : \E g \in [Small(S, n) -> A] : Fold(Small(S, n), g)}
<1>1. 0 \in Good
  <2>1. Small(S, 0) = {{}}
    BY SmallSubsets
  <2>2. [s \in {{}} |-> base] \in [Small(S, 0) -> A] /\ Fold(Small(S, 0), [s \in {{}} |-> base])
    BY <2>1 DEF IsFold
  <2>3. QED
    BY <2>2
<1>2. ASSUME NEW n \in Nat, n \in Good PROVE n + 1 \in Good
  <2>1. PICK g \in [Small(S, n) -> A] : Fold(Small(S, n), g)
    BY <1>2
  <2> DEFINE h == [s \in Small(S, n + 1) |-> IF s = {} THEN base
                                             ELSE F[take[s]][g[s \ {take[s]}]]]
  <2>2. ASSUME NEW s \in Small(S, n + 1), s # {}
        PROVE  take[s] \in S /\ take[s] \in s /\ s \ {take[s]} \in Small(S, n)
    <3>1. s \in SUBSET S
      BY DEF Small
    <3>2. take[s] \in s
      BY <2>2, <3>1 DEF Takes
    <3>3. QED
      BY <3>1, <3>2, SmallSubsets
  <2>3. h \in [Small(S, n + 1) -> A]
    BY <2>2
  <2>4. \A s \in Small(S, n) : h[s] = g[s]
    BY <2>1, SmallSubsets DEF IsFold
  <2>5. \A s \in Small(S, n + 1) : s # {} => g[s \ {take[s]}] = h[s \ {take[s]}]
    BY <2>2, <2>4
  <2>6. Fold(Small(S, n + 1), h)
    BY <2>5 DEF IsFold
  <2>7. \E k \in [Small(S, n + 1) -> A] : Fold(Small(S, n + 1), k)
    <3> HIDE DEF h
    <3>1. QED
      BY <2>3, <2>6
  <2>8. n + 1 \in Nat
    OBVIOUS
  <2>9. QED
    BY <2>7, <2>8, Zenon
<1> HIDE DEF Good
<1>3. \A n \in Nat : n \in Good
  BY <1>1, <1>2, NaturalInduction
<1>4. Cardinality(S) \in Good /\ Cardinality(S) \in Nat
  BY <1>3, FS_CardinalityType
<1>5. Small(S, Cardinality(S)) = SUBSET S
  BY <1>4, SmallSubsets DEF Small
<1>6. \E g \in [Small(S, Cardinality(S)) -> A] : Fold(Small(S, Cardinality(S)), g)
  BY <1>4 DEF Good
<1>7. QED
  BY <1>5, <1>6

\* The sum of the values of a function over a set of its arguments, as the
\* fold of the community modules makes it: w[x] for one member x of a set
\* and the sum over the rest.
IsSum(g, w, S) ==
  g = [s \in SUBSET S |-> IF s = {} THEN 0
                          ELSE w[CHOOSE x \in s : TRUE] + g[s \ {CHOOSE x \in s : TRUE}]]
Ints(w, S) == \A x \in S : w[x] \in Int
SumOver(w, S) == (CHOOSE g : IsSum(g, w, S))[S]

LEMMA SumExists ==
  ASSUME NEW S, IsFiniteSet(S), NEW w, Ints(w, S)
  PROVE  \E g \in [SUBSET S -> Int] : IsSum(g, w, S)
<1> DEFINE take == [s \in SUBSET S |-> CHOOSE x \in s : TRUE]
           F == [x \in S |-> [a \in Int |-> w[x] + a]]
<1>1. \A s \in SUBSET S : s # {} => take[s] \in s /\ take[s] = CHOOSE x \in s : TRUE
  OBVIOUS
<1>2. F \in [S -> [Int -> Int]]
  BY DEF Ints
<1>3. \A x \in S, a \in Int : F[x][a] = w[x] + a
  OBVIOUS
<1> HIDE DEF take, F
<1>4. PICK g \in [SUBSET S -> Int] :
        IsFold(g, SUBSET S, 0, take, F)
  <2>1. Takes(take, S)
    BY <1>1 DEF Takes
  <2>2. 0 \in Int
    OBVIOUS
  <2>3. QED
    BY <1>2, <2>1, <2>2, FoldExists, Zenon
<1>5. ASSUME NEW s \in SUBSET S, s # {}
      PROVE  g[s] = w[CHOOSE x \in s : TRUE] + g[s \ {CHOOSE x \in s : TRUE}]
  <2>1. take[s] \in S /\ s \ {take[s]} \in SUBSET S
    BY <1>1, <1>5
  <2>2. g[s] = F[take[s]][g[s \ {take[s]}]]
    BY <1>4, <1>5 DEF IsFold
  <2>3. g[s] = w[take[s]] + g[s \ {take[s]}]
    BY <1>3, <2>1, <2>2
  <2>4. QED
    BY <1>1, <1>5, <2>3
<1>6. g[{}] = 0
  BY <1>4 DEF IsFold
<1>7. IsSum(g, w, S)
  BY <1>5, <1>6 DEF IsSum
<1>8. QED
  BY <1>7

\* What the equation says of each subset.
LEMMA SumUnfolds ==
  ASSUME NEW S, NEW w, NEW g, IsSum(g, w, S)
  PROVE  /\ g[{}] = 0
         /\ \A s \in SUBSET S : s # {} =>
              \E x \in s : g[s] = w[x] + g[s \ {x}] /\ x = CHOOSE y \in s : TRUE
<1>1. \A s \in SUBSET S :
        g[s] = IF s = {} THEN 0
               ELSE w[CHOOSE x \in s : TRUE] + g[s \ {CHOOSE x \in s : TRUE}]
  BY DEF IsSum
<1>2. \A s \in SUBSET S : s # {} => (CHOOSE x \in s : TRUE) \in s
  OBVIOUS
<1>3. g[{}] = 0
  BY <1>1
<1>4. QED
  BY <1>1, <1>2, <1>3

\* A property of subsets that holds of the empty set, and of a set when it
\* holds of the set without one member, holds of every subset.
LEMMA SubsetInduction ==
  ASSUME NEW S, IsFiniteSet(S), NEW Good,
         {} \in Good,
         \A s \in SUBSET S : (\A x \in s : s \ {x} \in Good) => s \in Good
  PROVE  \A s \in SUBSET S : s \in Good
<1> DEFINE Done == {n \in Nat : Small(S, n) \subseteq Good}
<1>1. 0 \in Done
  BY SmallSubsets
<1>2. ASSUME NEW n \in Nat, n \in Done PROVE n + 1 \in Done
  <2>1. ASSUME NEW s \in Small(S, n + 1) PROVE s \in Good
    <3>1. s \in SUBSET S
      BY DEF Small
    <3>2. \A x \in s : s \ {x} \in Good
      BY <1>2, SmallSubsets
    <3>3. QED
      BY <3>1, <3>2
  <2>2. n + 1 \in Nat
    OBVIOUS
  <2>3. QED
    BY <2>1, <2>2
<1> HIDE DEF Done
<1>3. \A n \in Nat : n \in Done
  BY <1>1, <1>2, NaturalInduction
<1>4. ASSUME NEW s \in SUBSET S PROVE s \in Good
  <2>1. \A t \in SUBSET S : Cardinality(t) \in Nat /\ t \in Small(S, Cardinality(t))
    BY SubsetIsSmall
  <2>2. QED
    BY <1>3, <2>1 DEF Done
<1>5. QED
  BY <1>4

\* Sums of functions that agree are the same, over whatever larger sets.
LEMMA SumsAgree ==
  ASSUME NEW S, NEW R \in SUBSET S, IsFiniteSet(R), NEW w, NEW v,
         \A x \in R : w[x] = v[x],
         NEW g, IsSum(g, w, S), NEW h, IsSum(h, v, R)
  PROVE  \A s \in SUBSET R : g[s] = h[s]
<1> DEFINE Good == {s \in SUBSET R : g[s] = h[s]}
<1>1. {} \in Good
  BY SumUnfolds
<1>2. ASSUME NEW s \in SUBSET R, \A x \in s : s \ {x} \in Good PROVE s \in Good
  <2>1. CASE s = {}
    BY <1>1, <2>1
  <2>2. CASE s # {}
    <3>1. PICK x \in s : g[s] = w[x] + g[s \ {x}] /\ x = CHOOSE y \in s : TRUE
      BY <2>2, SumUnfolds
    <3>2. PICK z \in s : h[s] = v[z] + h[s \ {z}] /\ z = CHOOSE y \in s : TRUE
      BY <2>2, SumUnfolds
    <3>3. x = z /\ w[x] = v[x] /\ g[s \ {x}] = h[s \ {x}]
      BY <1>2, <3>1, <3>2
    <3>4. QED
      BY <3>1, <3>2, <3>3
  <2>3. QED
    BY <2>1, <2>2
<1> HIDE DEF Good
<1>3. \A s \in SUBSET R : s \in Good
  BY <1>1, <1>2, SubsetInduction
<1>4. QED
  BY <1>3 DEF Good

\* Any member may be the one taken off.
TakenOff(g, w, S, x) == g[S] = w[x] + g[S \ {x}]

LEMMA SumTakesAny ==
  ASSUME NEW S, IsFiniteSet(S), NEW w, Ints(w, S),
         NEW g \in [SUBSET S -> Int], IsSum(g, w, S), NEW z \in S
  PROVE  TakenOff(g, w, S, z)
<1> DEFINE Good == {s \in SUBSET S : \A x \in s : g[s] = w[x] + g[s \ {x}]}
<1>1. {} \in Good
  OBVIOUS
<1>2. ASSUME NEW s \in SUBSET S, \A x \in s : s \ {x} \in Good PROVE s \in Good
  <2>1. ASSUME NEW x \in s PROVE g[s] = w[x] + g[s \ {x}]
    <3>1. PICK y \in s : g[s] = w[y] + g[s \ {y}]
      <4>1. s # {}
        OBVIOUS
      <4>2. \E y \in s : g[s] = w[y] + g[s \ {y}] /\ y = CHOOSE v \in s : TRUE
        BY <4>1, SumUnfolds
      <4>3. QED
        BY <4>2
    <3>2. CASE x = y
      BY <3>1, <3>2
    <3>3. CASE x # y
      <4>1. g[s \ {y}] = w[x] + g[(s \ {y}) \ {x}]
        BY <1>2, <3>3
      <4>2. g[s \ {x}] = w[y] + g[(s \ {x}) \ {y}]
        BY <1>2, <3>3
      <4>3. (s \ {y}) \ {x} = (s \ {x}) \ {y}
        OBVIOUS
      <4>4. PICK a, b, r \in Int : a = w[x] /\ b = w[y] /\ r = g[(s \ {x}) \ {y}]
        BY DEF Ints
      <4>5. g[s] = b + (a + r) /\ g[s \ {x}] = b + r
        BY <3>1, <4>1, <4>2, <4>3, <4>4
      <4>6. b + (a + r) = a + (b + r)
        OBVIOUS
      <4>7. QED
        BY <4>4, <4>5, <4>6
    <3>4. QED
      BY <3>2, <3>3
  <2>2. QED
    BY <2>1
<1> HIDE DEF Good
<1>3. \A s \in SUBSET S : s \in Good
  BY <1>1, <1>2, SubsetInduction
<1>4. QED
  BY <1>3 DEF Good, TakenOff

LEMMA SumIs ==
  ASSUME NEW S, IsFiniteSet(S), NEW w, Ints(w, S), NEW g, IsSum(g, w, S)
  PROVE  SumOver(w, S) = g[S]
<1> DEFINE h == CHOOSE h : IsSum(h, w, S)
<1>1. IsSum(h, w, S) /\ SumOver(w, S) = h[S]
  BY DEF SumOver
<1> HIDE DEF h
<1>2. \A s \in SUBSET S : g[s] = h[s]
  BY <1>1, SumsAgree
<1>3. QED
  BY <1>1, <1>2

\* The facts about sums used below.
TakenOffSum(w, S, x) == SumOver(w, S) = w[x] + SumOver(w, S \ {x})

LEMMA SumFacts ==
  ASSUME NEW S, IsFiniteSet(S), NEW w, Ints(w, S)
  PROVE  /\ SumOver(w, S) \in Int
         /\ S = {} => SumOver(w, S) = 0
         /\ \A x \in S : TakenOffSum(w, S, x)
<1> DEFINE g == CHOOSE g : IsSum(g, w, S)
<1>1. PICK h \in [SUBSET S -> Int] : IsSum(h, w, S)
  BY SumExists
<1>2. IsSum(g, w, S) /\ SumOver(w, S) = g[S]
  BY <1>1 DEF SumOver
<1> HIDE DEF g
<1>3. \A s \in SUBSET S : g[s] = h[s]
  BY <1>1, <1>2, SumsAgree
<1>4. SumOver(w, S) = h[S]
  BY <1>2, <1>3
<1>5. ASSUME NEW x \in S PROVE TakenOffSum(w, S, x)
  <2> DEFINE k == CHOOSE k : IsSum(k, w, S \ {x})
  <2>1. IsFiniteSet(S \ {x}) /\ Ints(w, S \ {x})
    BY FS_RemoveElement DEF Ints
  <2>2. \E v : IsSum(v, w, S \ {x})
    BY <2>1, SumExists
  <2>3. IsSum(k, w, S \ {x}) /\ SumOver(w, S \ {x}) = k[S \ {x}]
    BY <2>2 DEF SumOver
  <2> HIDE DEF k
  <2>4. h[S \ {x}] = k[S \ {x}]
    BY <1>1, <2>1, <2>3, SumsAgree
  <2>5. h[S] = w[x] + h[S \ {x}]
    <3>1. TakenOff(h, w, S, x)
      BY <1>1, SumTakesAny
    <3>2. QED
      BY <3>1 DEF TakenOff
  <2>6. QED
    BY <1>4, <2>3, <2>4, <2>5 DEF TakenOffSum
<1>6. S = {} => h[S] = 0
  BY <1>1, SumUnfolds
<1>7. QED
  BY <1>1, <1>4, <1>5, <1>6

LEMMA SumCongruent ==
  ASSUME NEW S, IsFiniteSet(S), NEW w, NEW v, Ints(w, S), \A x \in S : w[x] = v[x]
  PROVE  SumOver(w, S) = SumOver(v, S)
<1> DEFINE g == CHOOSE g : IsSum(g, w, S)
           h == CHOOSE h : IsSum(h, v, S)
<1>1. Ints(v, S)
  BY DEF Ints
<1>2. IsSum(g, w, S) /\ IsSum(h, v, S)
  BY <1>1, SumExists
<1> HIDE DEF g, h
<1>3. \A s \in SUBSET S : g[s] = h[s]
  BY <1>2, SumsAgree
<1>4. g[S] = h[S]
  BY <1>3
<1>5. QED
  BY <1>4 DEF SumOver, g, h

Nats(w, S) == \A x \in S : w[x] \in Nat

LEMMA SumNat ==
  ASSUME NEW S, IsFiniteSet(S), NEW w, Nats(w, S)
  PROVE  SumOver(w, S) \in Nat
<1> DEFINE Good == {s \in SUBSET S : SumOver(w, s) \in Nat}
<1>1. ASSUME NEW s \in SUBSET S, \A x \in s : s \ {x} \in Good PROVE s \in Good
  <2>1. IsFiniteSet(s) /\ Ints(w, s)
    BY FS_Subset DEF Nats, Ints
  <2>2. CASE s = {}
    BY <2>1, <2>2, SumFacts
  <2>3. CASE s # {}
    <3>1. PICK x \in s : TRUE
      BY <2>3
    <3>2. TakenOffSum(w, s, x)
      BY <2>1, SumFacts
    <3>3. SumOver(w, s \ {x}) \in Nat /\ w[x] \in Nat
      BY <1>1 DEF Nats
    <3>4. QED
      BY <3>2, <3>3 DEF TakenOffSum
  <2>4. QED
    BY <2>2, <2>3
<1>2. {} \in Good
  BY <1>1
<1> HIDE DEF Good
<1>3. \A s \in SUBSET S : s \in Good
  BY <1>1, <1>2, SubsetInduction
<1>4. QED
  BY <1>3 DEF Good

----------------------------------------------------------------------------
(***************************************************************************)
(* The books: sums over the lots of a position.                            *)
(***************************************************************************)
\* A sum over one more index.
LEMMA SumAppend ==
  ASSUME NEW n \in Nat, NEW w, NEW v, Ints(v, 1 .. n + 1), \A k \in 1 .. n : w[k] = v[k]
  PROVE  /\ SumOver(w, 1 .. n) \in Int
         /\ SumOver(v, 1 .. n + 1) = SumOver(w, 1 .. n) + v[n + 1]
<1>1. IsFiniteSet(1 .. n) /\ IsFiniteSet(1 .. n + 1)
  <2>1. 1 \in Int /\ n \in Int /\ n + 1 \in Int
    OBVIOUS
  <2>2. QED
    BY <2>1, FS_Interval
<1>2. n + 1 \in 1 .. n + 1 /\ (1 .. n + 1) \ {n + 1} = 1 .. n
  OBVIOUS
<1>3. Ints(w, 1 .. n) /\ v[n + 1] \in Int
  BY <1>2 DEF Ints
<1>4. SumOver(w, 1 .. n) = SumOver(v, 1 .. n)
  BY <1>1, <1>3, SumCongruent
<1>5. TakenOffSum(v, 1 .. n + 1, n + 1)
  BY <1>1, <1>2, SumFacts
<1>6. SumOver(w, 1 .. n) \in Int
  BY <1>1, <1>3, SumFacts
<1>7. SumOver(v, 1 .. n + 1) = v[n + 1] + SumOver(w, 1 .. n)
  BY <1>2, <1>4, <1>5 DEF TakenOffSum
<1>8. QED
  BY <1>3, <1>6, <1>7

Lots == Seq(Ledger!LotType)
Costs(lots) == [n \in DOMAIN lots |-> lots[n].price * lots[n].quantity]
Sizes(lots) == [n \in DOMAIN lots |-> lots[n].quantity]

LEMMA LotFields ==
  ASSUME NEW lots \in Lots
  PROVE  /\ DOMAIN lots = 1 .. Len(lots) /\ Len(lots) \in Nat /\ IsFiniteSet(DOMAIN lots)
         /\ \A n \in DOMAIN lots : /\ lots[n] \in Ledger!LotType
                                   /\ Costs(lots)[n] \in Nat /\ Sizes(lots)[n] \in Nat
         /\ Ints(Costs(lots), DOMAIN lots) /\ Ints(Sizes(lots), DOMAIN lots)
<1>1. DOMAIN lots = 1 .. Len(lots) /\ Len(lots) \in Nat
  BY DEF Lots
<1>2. IsFiniteSet(DOMAIN lots)
  BY <1>1, FS_Interval
<1>3. \A n \in DOMAIN lots : lots[n] \in Ledger!LotType
  BY DEF Lots
<1>4. \A p, q \in Nat : p * q \in Nat
  OBVIOUS
<1>5. \A n \in DOMAIN lots : Costs(lots)[n] \in Nat /\ Sizes(lots)[n] \in Nat
  BY <1>3, <1>4 DEF Costs, Sizes, Ledger!LotType
<1>6. QED
  BY <1>1, <1>2, <1>3, <1>5 DEF Ints

LEMMA CostIsSum ==
  ASSUME NEW lots \in Lots
  PROVE  Ledger!Cost(lots) = SumOver(Costs(lots), DOMAIN lots)
<1> DEFINE D == DOMAIN lots
           Eq(f) == f = [s \in SUBSET D |-> IF s = {} THEN 0
                          ELSE lots[CHOOSE x \in s : TRUE].price
                                 * lots[CHOOSE x \in s : TRUE].quantity
                               + f[s \ {CHOOSE x \in s : TRUE}]]
           f == CHOOSE f : Eq(f)
<1>1. \A s \in SUBSET D : s # {} => (CHOOSE x \in s : TRUE) \in D
  OBVIOUS
<1>2. \A h : Eq(h) <=> IsSum(h, Costs(lots), D)
  BY <1>1 DEF IsSum, Costs
<1>3. Ledger!Cost(lots) = f[D]
  BY DEF Ledger!Cost, Ledger!MapThenSumSet, Ledger!MapThenFoldSet
<1> HIDE DEF f, Eq
<1>4. \E h : Eq(h)
  BY <1>2, LotFields, SumExists
<1>5. IsSum(f, Costs(lots), D)
  BY <1>2, <1>4 DEF f
<1>6. SumOver(Costs(lots), D) = f[D]
  BY <1>5, LotFields, SumIs
<1>7. QED
  BY <1>3, <1>6

LEMMA SharesIsSum ==
  ASSUME NEW lots \in Lots
  PROVE  Ledger!Shares(lots) = SumOver(Sizes(lots), DOMAIN lots)
<1> DEFINE D == DOMAIN lots
           Eq(f) == f = [s \in SUBSET D |-> IF s = {} THEN 0
                          ELSE lots[CHOOSE x \in s : TRUE].quantity
                               + f[s \ {CHOOSE x \in s : TRUE}]]
           f == CHOOSE f : Eq(f)
<1>1. \A s \in SUBSET D : s # {} => (CHOOSE x \in s : TRUE) \in D
  OBVIOUS
<1>2. \A h : Eq(h) <=> IsSum(h, Sizes(lots), D)
  BY <1>1 DEF IsSum, Sizes
<1>3. Ledger!Shares(lots) = f[D]
  BY DEF Ledger!Shares, Ledger!MapThenSumSet, Ledger!MapThenFoldSet
<1> HIDE DEF f, Eq
<1>4. \E h : Eq(h)
  BY <1>2, LotFields, SumExists
<1>5. IsSum(f, Sizes(lots), D)
  BY <1>2, <1>4 DEF f
<1>6. SumOver(Sizes(lots), D) = f[D]
  BY <1>5, LotFields, SumIs
<1>7. QED
  BY <1>3, <1>6

\* What the lots cost and how many shares they are, lot by lot.
LEMMA LotSums ==
  /\ Ledger!Cost(<<>>) = 0 /\ Ledger!Shares(<<>>) = 0
  /\ \A lots \in Lots : Ledger!Cost(lots) \in Nat /\ Ledger!Shares(lots) \in Nat
  /\ \A lots \in Lots, lot \in Ledger!LotType :
       /\ Append(lots, lot) \in Lots
       /\ Ledger!Cost(Append(lots, lot)) = Ledger!Cost(lots) + lot.price * lot.quantity
       /\ Ledger!Shares(Append(lots, lot)) = Ledger!Shares(lots) + lot.quantity
<1>1. Ledger!Cost(<<>>) = 0 /\ Ledger!Shares(<<>>) = 0
  <2>1. <<>> \in Lots /\ DOMAIN (<<>>) = {}
    BY DEF Lots
  <2>2. /\ SumOver(Costs(<<>>), DOMAIN (<<>>)) = 0
        /\ SumOver(Sizes(<<>>), DOMAIN (<<>>)) = 0
    BY <2>1, LotFields, SumFacts
  <2>3. QED
    BY <2>1, <2>2, CostIsSum, SharesIsSum
<1>2. ASSUME NEW lots \in Lots
      PROVE  Ledger!Cost(lots) \in Nat /\ Ledger!Shares(lots) \in Nat
  <2>1. /\ Nats(Costs(lots), DOMAIN lots) /\ Nats(Sizes(lots), DOMAIN lots)
        /\ IsFiniteSet(DOMAIN lots)
    BY LotFields DEF Nats
  <2>2. QED
    BY <2>1, SumNat, CostIsSum, SharesIsSum
<1>3. ASSUME NEW lots \in Lots, NEW lot \in Ledger!LotType
      PROVE  /\ Append(lots, lot) \in Lots
             /\ Ledger!Cost(Append(lots, lot)) = Ledger!Cost(lots) + lot.price * lot.quantity
             /\ Ledger!Shares(Append(lots, lot)) = Ledger!Shares(lots) + lot.quantity
  <2> DEFINE more == Append(lots, lot)
             n == Len(lots)
  <2>1. /\ more \in Lots /\ DOMAIN more = 1 .. n + 1 /\ n \in Nat /\ more[n + 1] = lot
        /\ DOMAIN lots = 1 .. n /\ \A k \in 1 .. n : more[k] = lots[k]
    BY LotFields DEF Lots
  <2> HIDE DEF more, n
  <2>2. Ints(Costs(more), 1 .. n + 1) /\ Ints(Sizes(more), 1 .. n + 1)
    BY <2>1, LotFields
  <2>3. /\ \A k \in 1 .. n : Costs(lots)[k] = Costs(more)[k] /\ Sizes(lots)[k] = Sizes(more)[k]
        /\ Costs(more)[n + 1] = lot.price * lot.quantity
        /\ Sizes(more)[n + 1] = lot.quantity
    BY <2>1 DEF Costs, Sizes
  <2>4. /\ SumOver(Costs(more), 1 .. n + 1) = SumOver(Costs(lots), 1 .. n) + Costs(more)[n + 1]
        /\ SumOver(Sizes(more), 1 .. n + 1) = SumOver(Sizes(lots), 1 .. n) + Sizes(more)[n + 1]
    BY <2>1, <2>2, <2>3, SumAppend
  <2>5. /\ Ledger!Cost(more) = Ledger!Cost(lots) + lot.price * lot.quantity
        /\ Ledger!Shares(more) = Ledger!Shares(lots) + lot.quantity
    BY <2>1, <2>3, <2>4, CostIsSum, SharesIsSum
  <2>6. QED
    BY <2>1, <2>5 DEF more
<1>4. QED
  BY <1>1, <1>2, <1>3

----------------------------------------------------------------------------
(***************************************************************************)
(* The sell loop: what it leaves of the lots, and what it earns.           *)
(***************************************************************************)
Sale == [remaining : Nat, lots : Lots, earned : Int]
NothingSold(quantity) == [remaining |-> quantity, lots |-> <<>>, earned |-> 0]

LEMMA LeftIs ==
  ASSUME NEW lot \in Ledger!LotType, NEW take \in Nat, take <= lot.quantity
  PROVE  /\ Ledger!Left(lot, take) \in Lots
         /\ \A lots \in Lots :
              /\ lots \o Ledger!Left(lot, take) \in Lots
              /\ Ledger!Cost(lots \o Ledger!Left(lot, take))
                   = Ledger!Cost(lots) + lot.price * (lot.quantity - take)
              /\ Ledger!Shares(lots \o Ledger!Left(lot, take))
                   = Ledger!Shares(lots) + (lot.quantity - take)
         /\ take = lot.quantity => Ledger!Left(lot, take) = <<>>
<1>1. lot.price \in Nat /\ lot.quantity \in Nat
  BY DEF Ledger!LotType
<1>2. CASE take = lot.quantity
  <2>1. Ledger!Left(lot, take) = <<>>
    BY <1>2 DEF Ledger!Left
  <2>2. \A lots \in Lots : lots \o <<>> = lots
    BY DEF Lots
  <2>3. lot.quantity - take = 0 /\ lot.price * (lot.quantity - take) = 0
    BY <1>1, <1>2
  <2>4. <<>> \in Lots
    BY DEF Lots
  <2>5. \A lots \in Lots : Ledger!Cost(lots) \in Nat /\ Ledger!Shares(lots) \in Nat
    BY LotSums
  <2>6. QED
    BY <2>1, <2>2, <2>3, <2>4, <2>5
<1>3. CASE take # lot.quantity
  <2> DEFINE rest == [lot EXCEPT !.quantity = @ - take]
  <2>1. /\ rest \in Ledger!LotType /\ rest.price = lot.price
        /\ rest.quantity = lot.quantity - take
    BY <1>1 DEF Ledger!LotType
  <2>2. Ledger!Left(lot, take) = <<rest>>
    BY <1>3 DEF Ledger!Left
  <2> HIDE DEF rest
  <2>3. \A lots \in Lots : lots \o <<rest>> = Append(lots, rest)
    BY <2>1 DEF Lots
  <2>4. <<rest>> \in Lots
    BY <2>1 DEF Lots
  <2>5. ASSUME NEW lots \in Lots
        PROVE  /\ lots \o <<rest>> \in Lots
               /\ Ledger!Cost(lots \o <<rest>>) = Ledger!Cost(lots) + rest.price * rest.quantity
               /\ Ledger!Shares(lots \o <<rest>>) = Ledger!Shares(lots) + rest.quantity
    <3>1. /\ Append(lots, rest) \in Lots
          /\ Ledger!Cost(Append(lots, rest)) = Ledger!Cost(lots) + rest.price * rest.quantity
          /\ Ledger!Shares(Append(lots, rest)) = Ledger!Shares(lots) + rest.quantity
      BY <2>1, LotSums
    <3>2. QED
      BY <2>3, <3>1
  <2>6. QED
    BY <1>3, <2>1, <2>2, <2>4, <2>5
<1>4. QED
  BY <1>2, <1>3

LEMMA SellFromType ==
  ASSUME NEW sale \in Sale, NEW lot \in Ledger!LotType, NEW price \in Nat
  PROVE  Ledger!SellFrom(sale, lot, price) \in Sale
<1> DEFINE take == Ledger!Least(sale.remaining, lot.quantity)
<1>1. /\ lot.price \in Nat /\ lot.quantity \in Nat
      /\ sale.remaining \in Nat /\ sale.lots \in Lots /\ sale.earned \in Int
  BY DEF Ledger!LotType, Sale
<1>2. take \in Nat /\ take <= lot.quantity /\ take <= sale.remaining
  BY <1>1 DEF Ledger!Least
<1>3. Ledger!SellFrom(sale, lot, price) =
        [remaining |-> sale.remaining - take, lots |-> sale.lots \o Ledger!Left(lot, take),
         earned |-> sale.earned + (price - lot.price) * take]
  BY DEF Ledger!SellFrom
<1> HIDE DEF take
<1>4. sale.lots \o Ledger!Left(lot, take) \in Lots
  BY <1>1, <1>2, LeftIs
<1>5. sale.remaining - take \in Nat
  BY <1>1, <1>2
<1>6. (price - lot.price) * take \in Int
  BY <1>1, <1>2
<1>7. sale.earned + (price - lot.price) * take \in Int
  BY <1>1, <1>6
<1>8. QED
  BY <1>3, <1>4, <1>5, <1>7 DEF Sale

\* What holds after the first lots, costing c and being q shares in all.
Sold(sale, quantity, price, c, q) ==
  /\ sale.remaining = IF q < quantity THEN quantity - q ELSE 0
  /\ Ledger!Shares(sale.lots) = q - (quantity - sale.remaining)
  /\ sale.earned = price * (quantity - sale.remaining) - c + Ledger!Cost(sale.lots)
  /\ q <= quantity => sale.lots = <<>>

\* The products of one round.
LEMMA Products ==
  /\ \A a, b \in Nat : a * b \in Nat
  /\ \A p, a, b \in Int : p * (a + b) = p * a + p * b
  /\ \A p, a, b \in Int : p * (a - b) = p * a - p * b
  /\ \A p, r, a \in Int : (p - r) * a = p * a - r * a
  OBVIOUS

LEMMA RoundArithmetic ==
  ASSUME NEW q \in Nat, NEW quantity \in Nat, NEW r \in Nat, NEW size \in Nat, NEW t \in Nat,
         r = IF q < quantity THEN quantity - q ELSE 0,
         t <= size, t <= r, t = size \/ t = r
  PROVE  /\ r - t = IF q + size < quantity THEN quantity - (q + size) ELSE 0
         /\ (q - (quantity - r)) + (size - t) = (q + size) - (quantity - (r - t))
  OBVIOUS

LEMMA SellRound ==
  ASSUME NEW sale \in Sale, NEW lot \in Ledger!LotType, NEW quantity \in Nat, NEW price \in Nat,
         NEW c \in Nat, NEW q \in Nat, Sold(sale, quantity, price, c, q)
  PROVE  /\ Ledger!SellFrom(sale, lot, price) \in Sale
         /\ Sold(Ledger!SellFrom(sale, lot, price), quantity, price,
                 c + lot.price * lot.quantity, q + lot.quantity)
<1> DEFINE take == Ledger!Least(sale.remaining, lot.quantity)
           next == Ledger!SellFrom(sale, lot, price)
<1>1. /\ lot.price \in Nat /\ lot.quantity \in Nat
      /\ sale.remaining \in Nat /\ sale.lots \in Lots /\ sale.earned \in Int
  BY DEF Ledger!LotType, Sale
<1>2. /\ take \in Nat /\ take <= lot.quantity /\ take <= sale.remaining
      /\ take = lot.quantity \/ take = sale.remaining
  BY <1>1 DEF Ledger!Least
<1>3. /\ next.remaining = sale.remaining - take
      /\ next.lots = sale.lots \o Ledger!Left(lot, take)
      /\ next.earned = sale.earned + (price - lot.price) * take
      /\ next = [remaining |-> next.remaining, lots |-> next.lots, earned |-> next.earned]
  BY DEF Ledger!SellFrom
<1> HIDE DEF take, next
<1>4. /\ next.lots \in Lots
      /\ Ledger!Cost(next.lots) = Ledger!Cost(sale.lots) + lot.price * (lot.quantity - take)
      /\ Ledger!Shares(next.lots) = Ledger!Shares(sale.lots) + (lot.quantity - take)
      /\ take = lot.quantity => Ledger!Left(lot, take) = <<>>
  BY <1>1, <1>2, <1>3, LeftIs
<1>5. next \in Sale
  BY SellFromType DEF next
<1>6. next.remaining = IF q + lot.quantity < quantity THEN quantity - (q + lot.quantity) ELSE 0
  <2>1. sale.remaining = IF q < quantity THEN quantity - q ELSE 0
    BY DEF Sold
  <2>2. sale.remaining - take = IF q + lot.quantity < quantity
                                  THEN quantity - (q + lot.quantity) ELSE 0
    BY <1>1, <1>2, <2>1, RoundArithmetic
  <2>3. QED
    BY <1>3, <2>2
<1>7. Ledger!Shares(next.lots) = (q + lot.quantity) - (quantity - next.remaining)
  <2>1. Ledger!Shares(sale.lots) = q - (quantity - sale.remaining)
    BY DEF Sold
  <2>2. sale.remaining = IF q < quantity THEN quantity - q ELSE 0
    BY DEF Sold
  <2>3. (q - (quantity - sale.remaining)) + (lot.quantity - take)
          = (q + lot.quantity) - (quantity - (sale.remaining - take))
    BY <1>1, <1>2, <2>2, RoundArithmetic
  <2>4. QED
    BY <1>3, <1>4, <2>1, <2>3
<1>8. next.earned = price * (quantity - next.remaining) - (c + lot.price * lot.quantity)
                      + Ledger!Cost(next.lots)
  <2>1. sale.earned = price * (quantity - sale.remaining) - c + Ledger!Cost(sale.lots)
    BY DEF Sold
  <2>2. (price - lot.price) * take = price * take - lot.price * take
    BY <1>1, <1>2, Products
  <2>3. lot.price * (lot.quantity - take) = lot.price * lot.quantity - lot.price * take
    BY <1>1, <1>2, Products
  <2>4. price * (quantity - next.remaining) = price * (quantity - sale.remaining) + price * take
    <3>1. quantity - next.remaining = (quantity - sale.remaining) + take
      BY <1>1, <1>2, <1>3
    <3>2. quantity - sale.remaining \in Int /\ take \in Int
      BY <1>1, <1>2
    <3>3. QED
      BY <3>1, <3>2, Products
  <2>5. PICK a, b, d, e \in Int :
          /\ a = price * (quantity - sale.remaining) /\ b = price * take
          /\ d = lot.price * take /\ e = lot.price * lot.quantity
    <3>1. price * (quantity - sale.remaining) \in Int
      BY <1>1
    <3>2. price * take \in Int /\ lot.price * take \in Int /\ lot.price * lot.quantity \in Int
      BY <1>1, <1>2
    <3>3. QED
      BY <3>1, <3>2
  <2>6. PICK f \in Nat : f = Ledger!Cost(sale.lots)
    BY <1>1, LotSums
  <2>7. /\ next.earned = ((a - c) + f) + (b - d)
        /\ Ledger!Cost(next.lots) = f + (e - d)
        /\ price * (quantity - next.remaining) = a + b
    BY <1>3, <1>4, <2>1, <2>2, <2>3, <2>4, <2>5, <2>6
  <2>8. ((a - c) + f) + (b - d) = ((a + b) - (c + e)) + (f + (e - d))
    BY <2>5, <2>6
  <2>9. QED
    BY <2>5, <2>7, <2>8
<1>9. q + lot.quantity <= quantity => next.lots = <<>>
  <2>1. ASSUME q + lot.quantity <= quantity PROVE next.lots = <<>>
    <3>1. q <= quantity /\ take = lot.quantity
      BY <1>1, <1>2, <2>1 DEF Sold
    <3>2. sale.lots = <<>> /\ Ledger!Left(lot, take) = <<>>
      BY <1>4, <3>1 DEF Sold
    <3>3. QED
      BY <1>3, <3>2
  <2>2. QED
    BY <2>1
<1>10. QED
  BY <1>5, <1>6, <1>7, <1>8, <1>9 DEF Sold, next

LEMMA MaxOfPrefix ==
  ASSUME NEW n \in Nat
  PROVE  /\ Ledger!Max(1 .. n + 1) = n + 1
         /\ (1 .. n + 1) \ {Ledger!Max(1 .. n + 1)} = 1 .. n
<1>1. \A m \in 1 .. n + 1 : (\A k \in 1 .. n + 1 : m >= k) <=> m = n + 1
  OBVIOUS
<1>2. n + 1 \in 1 .. n + 1 /\ (1 .. n + 1) \ {n + 1} = 1 .. n
  OBVIOUS
<1>3. Ledger!Max(1 .. n + 1) = n + 1
  BY <1>1, <1>2 DEF Ledger!Max
<1>4. QED
  BY <1>2, <1>3

\* A set of naturals up to n has a largest member.
LEMMA MaxIsMember ==
  ASSUME NEW n \in Nat, NEW s \in SUBSET (1 .. n), s # {}
  PROVE  Ledger!Max(s) \in s /\ \A k \in s : k <= Ledger!Max(s)
<1> DEFINE above == {n - k : k \in s}
<1>1. above \in SUBSET Nat /\ above # {}
  <2>1. \A k \in s : n - k \in Nat
    OBVIOUS
  <2>2. PICK k \in s : TRUE
    OBVIOUS
  <2>3. n - k \in above
    BY <2>2
  <2>4. QED
    BY <2>1, <2>3
<1>2. PICK m \in above : \A k \in above : m <= k
  BY <1>1, LeastNatural
<1>3. PICK x \in s : m = n - x
  BY <1>2
<1>4. \A k \in s : x >= k
  <2>1. \A k \in s : n - x <= n - k
    BY <1>2, <1>3
  <2>2. QED
    BY <1>3, <2>1
<1>5. Ledger!Max(s) \in s /\ \A k \in s : Ledger!Max(s) >= k
  BY <1>3, <1>4 DEF Ledger!Max
<1>6. QED
  BY <1>5

\* The fold is the loop: one sale after each lot.
LEMMA SellSteps ==
  ASSUME NEW lots \in Lots, NEW quantity \in Nat, NEW price \in Nat
  PROVE  \E r \in [0 .. Len(lots) -> Sale] :
           /\ r[0] = NothingSold(quantity)
           /\ \A k \in 1 .. Len(lots) : r[k] = Ledger!SellFrom(r[k - 1], lots[k], price)
           /\ Ledger!Sell(lots, quantity, price) = r[Len(lots)]
<1> DEFINE n == Len(lots)
           D == DOMAIN lots
           Eq(f) == f = [s \in SUBSET D |->
                           IF s = {} THEN NothingSold(quantity)
                           ELSE Ledger!SellFrom(f[s \ {Ledger!Max(s)}],
                                                lots[Ledger!Max(s)], price)]
           f == CHOOSE f : Eq(f)
           take == [s \in SUBSET D |-> Ledger!Max(s)]
           F == [k \in D |-> [a \in Sale |-> Ledger!SellFrom(a, lots[k], price)]]
<1>1. Ledger!Sell(lots, quantity, price) = f[D]
  BY DEF Ledger!Sell, Ledger!FoldLeft, Ledger!MapThenFoldSet, NothingSold
<1>2. D = 1 .. n /\ n \in Nat /\ IsFiniteSet(D) /\ \A k \in D : lots[k] \in Ledger!LotType
  BY LotFields
<1>3. ASSUME NEW k \in D, NEW a \in Sale PROVE Ledger!SellFrom(a, lots[k], price) \in Sale
  BY <1>2, SellFromType
<1>4. /\ F \in [D -> [Sale -> Sale]]
      /\ \A k \in D, a \in Sale : F[k][a] = Ledger!SellFrom(a, lots[k], price)
  BY <1>3
<1>5. Takes(take, D) /\ \A s \in SUBSET D : take[s] = Ledger!Max(s)
  BY <1>2, MaxIsMember DEF Takes
<1>6. NothingSold(quantity) \in Sale
  BY DEF NothingSold, Sale, Lots
<1> HIDE DEF take, F, D, n, f, Eq
<1>7. PICK g \in [SUBSET D -> Sale] : IsFold(g, SUBSET D, NothingSold(quantity), take, F)
  BY <1>2, <1>4, <1>5, <1>6, FoldExists, Zenon
<1>8. ASSUME NEW s \in SUBSET D, s # {}
      PROVE  g[s] = Ledger!SellFrom(g[s \ {Ledger!Max(s)}], lots[Ledger!Max(s)], price)
  <2>1. Ledger!Max(s) \in D /\ s \ {Ledger!Max(s)} \in SUBSET D
    BY <1>5, <1>8 DEF Takes
  <2>2. g[s] = F[take[s]][g[s \ {take[s]}]]
    BY <1>7, <1>8 DEF IsFold
  <2>3. QED
    BY <1>4, <1>5, <2>1, <2>2
<1>9. g[{}] = NothingSold(quantity) /\ g = [s \in SUBSET D |-> g[s]]
  BY <1>7 DEF IsFold
<1>10. Eq(g)
  BY <1>8, <1>9 DEF Eq
<1>11. Eq(f)
  BY <1>10 DEF f
<1>12. /\ f[{}] = NothingSold(quantity)
       /\ \A s \in SUBSET D : s # {} =>
            f[s] = Ledger!SellFrom(f[s \ {Ledger!Max(s)}], lots[Ledger!Max(s)], price)
  BY <1>11 DEF Eq
<1> DEFINE r == [k \in 0 .. n |-> g[1 .. k]]
           Good == {k \in Nat : k <= n => f[1 .. k] = g[1 .. k]}
<1>13. ASSUME NEW k \in Nat, k + 1 <= n
       PROVE  /\ f[1 .. k + 1] = Ledger!SellFrom(f[1 .. k], lots[k + 1], price)
              /\ g[1 .. k + 1] = Ledger!SellFrom(g[1 .. k], lots[k + 1], price)
  <2>1. 1 .. k + 1 \in SUBSET D /\ k + 1 \in 1 .. k + 1
    BY <1>2, <1>13
  <2>2. 1 .. k + 1 # {}
    BY <2>1
  <2>3. QED
    BY <1>8, <1>12, <2>1, <2>2, MaxOfPrefix
<1>14. 0 \in Good
  <2>1. 1 .. 0 = {}
    OBVIOUS
  <2>2. QED
    BY <1>9, <1>12, <2>1
<1>15. ASSUME NEW k \in Nat, k \in Good PROVE k + 1 \in Good
  <2>1. k + 1 <= n => k <= n
    BY <1>2
  <2>2. k + 1 <= n => f[1 .. k + 1] = g[1 .. k + 1]
    BY <1>13, <1>15, <2>1
  <2>3. k + 1 \in Nat
    OBVIOUS
  <2>4. QED
    BY <2>2, <2>3
<1> HIDE DEF Good
<1>16. \A k \in Nat : k \in Good
  BY <1>14, <1>15, NaturalInduction
<1>17. f[D] = g[1 .. n]
  BY <1>2, <1>16 DEF Good
<1>18. r \in [0 .. n -> Sale] /\ r[0] = NothingSold(quantity) /\ r[n] = g[1 .. n]
  <2>1. \A k \in 0 .. n : 1 .. k \in SUBSET D
    BY <1>2
  <2>2. 1 .. 0 = {}
    OBVIOUS
  <2>3. 0 \in 0 .. n /\ n \in 0 .. n
    BY <1>2
  <2>4. QED
    BY <1>9, <2>1, <2>2, <2>3
<1>19. ASSUME NEW k \in 1 .. n PROVE r[k] = Ledger!SellFrom(r[k - 1], lots[k], price)
  <2>1. k - 1 \in Nat /\ (k - 1) + 1 = k /\ k <= n /\ k - 1 \in 0 .. n /\ k \in 0 .. n
    BY <1>2
  <2>2. g[1 .. k] = Ledger!SellFrom(g[1 .. k - 1], lots[k], price)
    BY <1>13, <2>1
  <2>3. QED
    BY <2>1, <2>2
<1> HIDE DEF r
<1>20. QED
  BY <1>1, <1>17, <1>18, <1>19 DEF n

\* The running totals along the loop.
LEMMA SellTotals ==
  ASSUME NEW lots \in Lots, NEW quantity \in Nat, NEW price \in Nat
  PROVE  /\ Ledger!Sell(lots, quantity, price) \in Sale
         /\ Sold(Ledger!Sell(lots, quantity, price), quantity, price,
                 Ledger!Cost(lots), Ledger!Shares(lots))
<1> DEFINE n == Len(lots)
           C(k) == SumOver(Costs(lots), 1 .. k)
           Q(k) == SumOver(Sizes(lots), 1 .. k)
<1>1. PICK r \in [0 .. n -> Sale] :
        /\ r[0] = NothingSold(quantity)
        /\ \A k \in 1 .. n : r[k] = Ledger!SellFrom(r[k - 1], lots[k], price)
        /\ Ledger!Sell(lots, quantity, price) = r[n]
  BY SellSteps
<1> DEFINE Good == {k \in Nat : k <= n => Sold(r[k], quantity, price, C(k), Q(k))}
<1>2. n \in Nat /\ DOMAIN lots = 1 .. n
  BY LotFields
<1> HIDE DEF n
<1>3. \A k \in 0 .. n : C(k) \in Nat /\ Q(k) \in Nat
  <2>1. ASSUME NEW k \in 0 .. n
        PROVE  IsFiniteSet(1 .. k) /\ Nats(Costs(lots), 1 .. k) /\ Nats(Sizes(lots), 1 .. k)
    <3>1. 1 .. k \in SUBSET (DOMAIN lots)
      BY <1>2
    <3>2. QED
      BY <3>1, LotFields, FS_Subset DEF Nats
  <2>2. QED
    BY <2>1, SumNat
<1>4. ASSUME NEW k \in Nat, k + 1 <= n
      PROVE  /\ C(k + 1) = C(k) + lots[k + 1].price * lots[k + 1].quantity
             /\ Q(k + 1) = Q(k) + lots[k + 1].quantity
             /\ lots[k + 1] \in Ledger!LotType
  <2>1. k + 1 \in DOMAIN lots /\ 1 .. k + 1 \in SUBSET (DOMAIN lots)
    BY <1>2, <1>4
  <2>2. Ints(Costs(lots), 1 .. k + 1) /\ Ints(Sizes(lots), 1 .. k + 1)
    BY <2>1, LotFields DEF Ints
  <2>3. C(k + 1) = C(k) + Costs(lots)[k + 1] /\ Q(k + 1) = Q(k) + Sizes(lots)[k + 1]
    BY <2>2, SumAppend
  <2>4. QED
    BY <2>1, <2>3, LotFields DEF Costs, Sizes
<1> HIDE DEF C, Q
<1>5. C(0) = 0 /\ Q(0) = 0
  <2>1. 1 .. 0 = {} /\ IsFiniteSet({}) /\ Ints(Costs(lots), {}) /\ Ints(Sizes(lots), {})
    BY FS_EmptySet DEF Ints
  <2>2. QED
    BY <2>1, SumFacts DEF C, Q
<1>6. 0 \in Good
  <2>1. Sold(NothingSold(quantity), quantity, price, 0, 0)
    <3>1. price * (quantity - quantity) = 0
      OBVIOUS
    <3>2. QED
      BY <3>1, LotSums DEF Sold, NothingSold
  <2>2. QED
    BY <1>1, <1>5, <2>1
<1>7. ASSUME NEW k \in Nat, k \in Good PROVE k + 1 \in Good
  <2>1. ASSUME k + 1 <= n
        PROVE  Sold(r[k + 1], quantity, price, C(k + 1), Q(k + 1))
    <3>1. k \in 0 .. n /\ k + 1 \in 1 .. n /\ (k + 1) - 1 = k
      BY <1>2, <2>1
    <3>2. r[k] \in Sale /\ r[k + 1] = Ledger!SellFrom(r[k], lots[k + 1], price)
      BY <1>1, <3>1
    <3>3. Sold(r[k], quantity, price, C(k), Q(k)) /\ C(k) \in Nat /\ Q(k) \in Nat
      BY <1>3, <1>7, <3>1
    <3>4. PICK sale \in Sale, lot \in Ledger!LotType, c \in Nat, q \in Nat :
            sale = r[k] /\ lot = lots[k + 1] /\ c = C(k) /\ q = Q(k)
      BY <1>4, <2>1, <3>2, <3>3
    <3>5. Sold(Ledger!SellFrom(sale, lot, price), quantity, price,
               c + lot.price * lot.quantity, q + lot.quantity)
      BY <3>3, <3>4, SellRound
    <3>6. QED
      BY <1>4, <2>1, <3>2, <3>4, <3>5
  <2>2. k + 1 \in Nat
    OBVIOUS
  <2>3. QED
    BY <2>1, <2>2
<1> HIDE DEF Good
<1>8. \A k \in Nat : k \in Good
  BY <1>6, <1>7, NaturalInduction
<1>9. Sold(r[n], quantity, price, C(n), Q(n)) /\ r[n] \in Sale
  BY <1>1, <1>2, <1>8 DEF Good
<1>10. C(n) = Ledger!Cost(lots) /\ Q(n) = Ledger!Shares(lots)
  BY <1>2, CostIsSum, SharesIsSum DEF C, Q
<1>11. QED
  BY <1>1, <1>9, <1>10

\* A sell takes what it can of the shares held, for their price less their
\* cost, and nothing is left when everything is taken.
LEMMA SellFacts ==
  ASSUME NEW lots \in Lots, NEW quantity \in Nat, NEW price \in Nat,
         NEW sold, sold = Ledger!Sell(lots, quantity, price),
         NEW held, held = Ledger!Shares(lots)
  PROVE  /\ sold.lots \in Lots /\ sold.earned \in Int
         /\ sold.earned = price * Ledger!Least(quantity, held)
                            - Ledger!Cost(lots) + Ledger!Cost(sold.lots)
         /\ quantity < held => Ledger!Shares(sold.lots) = held - quantity
         /\ held <= quantity => sold.lots = <<>>
<1>1. sold \in Sale /\ Sold(sold, quantity, price, Ledger!Cost(lots), held)
  BY SellTotals
<1>2. sold.lots \in Lots /\ sold.earned \in Int /\ held \in Nat
  BY <1>1, LotSums DEF Sale
<1>3. quantity - sold.remaining = Ledger!Least(quantity, held)
  BY <1>1, <1>2 DEF Sold, Ledger!Least
<1>4. quantity < held => Ledger!Shares(sold.lots) = held - quantity
  BY <1>1, <1>2 DEF Sold
<1>5. held <= quantity => sold.lots = <<>>
  BY <1>1 DEF Sold
<1>6. sold.earned = price * Ledger!Least(quantity, held)
                      - Ledger!Cost(lots) + Ledger!Cost(sold.lots)
  BY <1>1, <1>3 DEF Sold
<1>7. QED
  BY <1>2, <1>4, <1>5, <1>6

----------------------------------------------------------------------------
(***************************************************************************)
(* The two books agree, and what was earned is the cash that came in.      *)
(***************************************************************************)
PositionType == [quantity : Nat, cost : Nat, realized_pnl : Int, lots : Lots]
TrackerType == [quantity : Nat, cost : Nat, over : Nat \ {0}, lots : Lots]

\* A position and the tracker's entry of one symbol.
SameLots(p, t) ==
  /\ p.lots = t.lots /\ p.quantity = t.quantity
  /\ p.cost = Ledger!Cost(p.lots) /\ p.quantity = Ledger!Shares(p.lots)

TrackerOf(q, c, o, kept) == [quantity |-> q, cost |-> c, over |-> o, lots |-> kept]
TrackerWith(t, q, kept) == [t EXCEPT !.quantity = q, !.lots = kept]
PositionOf(q, c, e, kept) == [quantity |-> q, cost |-> c, realized_pnl |-> e, lots |-> kept]

LEMMA NewTracker ==
  ASSUME NEW q \in Nat, NEW c \in Nat, NEW o \in Nat \ {0}, NEW kept \in Lots
  PROVE  /\ TrackerOf(q, c, o, kept) \in TrackerType
         /\ TrackerOf(q, c, o, kept).quantity = q /\ TrackerOf(q, c, o, kept).lots = kept
  BY DEF TrackerOf, TrackerType

LEMMA LessTracked ==
  ASSUME NEW t \in TrackerType, NEW q \in Nat, NEW kept \in Lots
  PROVE  /\ TrackerWith(t, q, kept) \in TrackerType
         /\ TrackerWith(t, q, kept).quantity = q /\ TrackerWith(t, q, kept).lots = kept
  BY DEF TrackerWith, TrackerType

LEMMA NewPosition ==
  ASSUME NEW q \in Nat, NEW c \in Nat, NEW e \in Int, NEW kept \in Lots
  PROVE  /\ PositionOf(q, c, e, kept) \in PositionType
         /\ PositionOf(q, c, e, kept).quantity = q /\ PositionOf(q, c, e, kept).cost = c
         /\ PositionOf(q, c, e, kept).realized_pnl = e /\ PositionOf(q, c, e, kept).lots = kept
  BY DEF PositionOf, PositionType

LEMMA Sums == (\A a, b \in Nat : a + b \in Nat) /\ (\A a \in Nat, b \in Nat \ {0} : a + b \in Nat)
  OBVIOUS

LEMMA EmptyEntries ==
  /\ Ledger!NoPosition \in PositionType /\ Ledger!NoTracker \in TrackerType
  /\ SameLots(Ledger!NoPosition, Ledger!NoTracker)
  /\ Ledger!NoPosition.realized_pnl = 0 /\ Ledger!Cost(Ledger!NoPosition.lots) = 0
  BY LotSums DEF PositionType, TrackerType, Lots, SameLots, Ledger!NoPosition, Ledger!NoTracker

\* What a buy and a sell do to a position.
Bought(p, p2, quantity, price) ==
  /\ p2.realized_pnl = p.realized_pnl
  /\ Ledger!Cost(p2.lots) = Ledger!Cost(p.lots) + price * quantity

SoldFrom(p, p2, earned, quantity, price) ==
  /\ earned \in Int /\ earned = Ledger!Sell(p.lots, quantity, price).earned
  /\ earned = price * Ledger!Least(quantity, p.quantity)
                - Ledger!Cost(p.lots) + Ledger!Cost(p2.lots)
  /\ p2.realized_pnl = IF p.quantity <= quantity THEN 0 ELSE p.realized_pnl + earned

LEMMA BuyEntries ==
  ASSUME NEW p \in PositionType, NEW t \in TrackerType, SameLots(p, t),
         NEW quantity \in Nat \ {0}, NEW price \in Nat \ {0},
         NEW p2, p2 = Ledger!Position(p, TRUE, quantity, price),
         NEW t2, t2 = Ledger!Tracker(t, TRUE, quantity, price)
  PROVE  /\ p2 \in PositionType /\ t2 \in TrackerType /\ SameLots(p2, t2)
         /\ Bought(p, p2, quantity, price)
<1> DEFINE lot == [price |-> price, quantity |-> quantity]
<1>1. lot \in Ledger!LotType /\ lot.price = price /\ lot.quantity = quantity
  BY DEF Ledger!LotType
<1>2. /\ p.quantity \in Nat /\ p.cost \in Nat /\ p.realized_pnl \in Int /\ p.lots \in Lots
      /\ t.quantity \in Nat /\ t.cost \in Nat /\ t.over \in Nat \ {0} /\ t.lots \in Lots
  BY DEF PositionType, TrackerType
<1>3. p2 = [p EXCEPT !.quantity = p.quantity + quantity,
                     !.cost = p.cost + price * quantity,
                     !.lots = Append(p.lots, lot)]
  BY DEF Ledger!Position
<1>4. t2 = [quantity |-> t.quantity + quantity,
            cost |-> t.cost * t.quantity + price * quantity * t.over,
            over |-> t.over * (t.quantity + quantity),
            lots |-> Append(t.lots, lot)]
  BY DEF Ledger!Tracker
<1> HIDE DEF lot
<1>5. /\ Append(p.lots, lot) \in Lots
      /\ Ledger!Cost(Append(p.lots, lot)) = Ledger!Cost(p.lots) + price * quantity
      /\ Ledger!Shares(Append(p.lots, lot)) = Ledger!Shares(p.lots) + quantity
  BY <1>1, <1>2, LotSums
<1>6. /\ p2.quantity = p.quantity + quantity /\ p2.cost = p.cost + price * quantity
      /\ p2.realized_pnl = p.realized_pnl /\ p2.lots = Append(p.lots, lot)
      /\ p2 = [quantity |-> p2.quantity, cost |-> p2.cost,
               realized_pnl |-> p2.realized_pnl, lots |-> p2.lots]
  BY <1>3 DEF PositionType
<1>7. price * quantity \in Nat /\ t.cost * t.quantity \in Nat
  BY <1>2, Products
<1>8. price * quantity * t.over \in Nat
  BY <1>2, <1>7, Products
<1>9. t.over * (t.quantity + quantity) \in Nat \ {0}
  <2>1. \A a, b \in Nat \ {0} : a * b \in Nat \ {0}
    OBVIOUS
  <2>2. t.quantity + quantity \in Nat \ {0}
    BY <1>2
  <2>3. QED
    BY <1>2, <2>1, <2>2
<1>10. PICK q \in Nat, c \in Nat :
         q = p.quantity + quantity /\ c = p.cost + price * quantity
  BY <1>2, <1>7, Sums
<1>11. PICK tc \in Nat, over \in Nat \ {0} :
         /\ tc = t.cost * t.quantity + price * quantity * t.over
         /\ over = t.over * (t.quantity + quantity)
  BY <1>7, <1>8, <1>9, Sums
<1>12. p.quantity = t.quantity /\ p.lots = t.lots /\ p.quantity = Ledger!Shares(p.lots)
       /\ p.cost = Ledger!Cost(p.lots)
  BY DEF SameLots
<1>13. p2 \in PositionType
  BY <1>2, <1>5, <1>6, <1>10 DEF PositionType
<1>14. t2 = TrackerOf(q, tc, over, Append(p.lots, lot))
  BY <1>4, <1>10, <1>11, <1>12 DEF TrackerOf
<1>15. t2 \in TrackerType /\ t2.quantity = q /\ t2.lots = Append(p.lots, lot)
  <2>1. PICK kept \in Lots : kept = Append(p.lots, lot)
    BY <1>5
  <2>2. /\ TrackerOf(q, tc, over, kept) \in TrackerType
        /\ TrackerOf(q, tc, over, kept).quantity = q
        /\ TrackerOf(q, tc, over, kept).lots = kept
    BY NewTracker
  <2>3. QED
    BY <1>14, <2>1, <2>2
<1>16. SameLots(p2, t2)
  <2>1. p2.lots = t2.lots /\ p2.quantity = t2.quantity
    BY <1>6, <1>10, <1>15
  <2>2. p2.cost = Ledger!Cost(p2.lots) /\ p2.quantity = Ledger!Shares(p2.lots)
    BY <1>5, <1>6, <1>12
  <2>3. QED
    BY <2>1, <2>2 DEF SameLots
<1>17. QED
  BY <1>5, <1>6, <1>13, <1>15, <1>16 DEF Bought

\* p2 and t2 are the entries after a sell that earned so much.
Sells(p, t, p2, t2, earned, quantity, price) ==
  /\ p2 = Ledger!Position(p, FALSE, quantity, price)
  /\ t2 = Ledger!Tracker(t, FALSE, quantity, price)
  /\ earned = Ledger!Earned(t, quantity, price)

LEMMA SellEntries ==
  ASSUME NEW p \in PositionType, NEW t \in TrackerType, SameLots(p, t),
         NEW quantity \in Nat \ {0}, NEW price \in Nat \ {0},
         NEW p2, NEW t2, NEW earned, Sells(p, t, p2, t2, earned, quantity, price)
  PROVE  /\ p2 \in PositionType /\ t2 \in TrackerType /\ SameLots(p2, t2)
         /\ SoldFrom(p, p2, earned, quantity, price)
<1> DEFINE sold == Ledger!Sell(p.lots, quantity, price)
<1>1. /\ p.quantity \in Nat /\ p.cost \in Nat /\ p.realized_pnl \in Int /\ p.lots \in Lots
      /\ t.quantity \in Nat /\ t.cost \in Nat /\ t.over \in Nat \ {0} /\ t.lots = p.lots
      /\ t.quantity = p.quantity /\ p.quantity = Ledger!Shares(p.lots)
  BY DEF PositionType, TrackerType, SameLots
<1>2. earned = sold.earned
  BY <1>1 DEF Sells, Ledger!Earned
<1>3. p2 = IF p.quantity <= quantity
             THEN Ledger!NoPosition
             ELSE [quantity |-> p.quantity - quantity, cost |-> Ledger!Cost(sold.lots),
                   realized_pnl |-> p.realized_pnl + sold.earned, lots |-> sold.lots]
  BY DEF Sells, Ledger!Position
<1>4. t2 = IF t.quantity <= quantity
             THEN Ledger!NoTracker
             ELSE [t EXCEPT !.quantity = t.quantity - quantity, !.lots = sold.lots]
  BY <1>1 DEF Sells, Ledger!Tracker
<1> HIDE DEF sold
<1>5. /\ sold.lots \in Lots /\ sold.earned \in Int
      /\ sold.earned = price * Ledger!Least(quantity, p.quantity)
                         - Ledger!Cost(p.lots) + Ledger!Cost(sold.lots)
      /\ quantity < p.quantity => Ledger!Shares(sold.lots) = p.quantity - quantity
      /\ p.quantity <= quantity => sold.lots = <<>>
  BY <1>1, SellFacts DEF sold
<1>6. CASE p.quantity <= quantity
  <2>1. p2 = Ledger!NoPosition /\ t2 = Ledger!NoTracker
    BY <1>1, <1>3, <1>4, <1>6
  <2>2. Ledger!Cost(sold.lots) = Ledger!Cost(p2.lots)
    BY <1>5, <1>6, <2>1, EmptyEntries, LotSums
  <2>3. QED
    BY <1>2, <1>5, <1>6, <2>1, <2>2, EmptyEntries DEF sold, SoldFrom
<1>7. CASE ~(p.quantity <= quantity)
  <2>1. /\ p2 = [quantity |-> p.quantity - quantity, cost |-> Ledger!Cost(sold.lots),
                 realized_pnl |-> p.realized_pnl + sold.earned, lots |-> sold.lots]
        /\ t2 = [t EXCEPT !.quantity = t.quantity - quantity, !.lots = sold.lots]
    BY <1>1, <1>3, <1>4, <1>7
  <2>2. p.quantity - quantity \in Nat /\ quantity < p.quantity
    BY <1>1, <1>7
  <2>3. Ledger!Cost(sold.lots) \in Nat
    BY <1>5, LotSums
  <2>4. p.realized_pnl + sold.earned \in Int
    BY <1>1, <1>5
  <2>5. PICK q \in Nat, c \in Nat, e \in Int, lots \in Lots :
          /\ q = p.quantity - quantity /\ c = Ledger!Cost(sold.lots)
          /\ e = p.realized_pnl + sold.earned /\ lots = sold.lots
    BY <1>5, <2>2, <2>3, <2>4
  <2>6. p2 = PositionOf(q, c, e, lots)
    BY <2>1, <2>5 DEF PositionOf
  <2>7. t2 = TrackerWith(t, q, lots)
    BY <1>1, <2>1, <2>5 DEF TrackerWith
  <2>8. t2 \in TrackerType /\ t2.quantity = q /\ t2.lots = lots
    <3>1. /\ TrackerWith(t, q, lots) \in TrackerType
          /\ TrackerWith(t, q, lots).quantity = q /\ TrackerWith(t, q, lots).lots = lots
      BY LessTracked
    <3>2. QED
      BY <2>7, <3>1
  <2>9. /\ p2 \in PositionType /\ p2.quantity = q /\ p2.cost = c
        /\ p2.realized_pnl = e /\ p2.lots = lots
    <3>1. /\ PositionOf(q, c, e, lots) \in PositionType
          /\ PositionOf(q, c, e, lots).quantity = q /\ PositionOf(q, c, e, lots).cost = c
          /\ PositionOf(q, c, e, lots).realized_pnl = e /\ PositionOf(q, c, e, lots).lots = lots
      BY NewPosition
    <3>2. QED
      BY <2>6, <3>1
  <2>10. q = Ledger!Shares(lots) /\ c = Ledger!Cost(lots)
    BY <1>5, <2>2, <2>5
  <2>11. SameLots(p2, t2)
    BY <2>8, <2>9, <2>10 DEF SameLots
  <2>12. p2.lots = sold.lots /\ p2.realized_pnl = p.realized_pnl + earned
    BY <1>2, <2>5, <2>9
  <2>13. earned = Ledger!Sell(p.lots, quantity, price).earned
    BY <1>2 DEF sold
  <2>14. earned = price * Ledger!Least(quantity, p.quantity)
                    - Ledger!Cost(p.lots) + Ledger!Cost(p2.lots)
    BY <1>2, <1>5, <2>12
  <2>15. QED
    BY <1>2, <1>5, <1>7, <2>8, <2>9, <2>11, <2>12, <2>13, <2>14 DEF SoldFrom
<1>8. QED
  BY <1>6, <1>7

\* Sums over the symbols.
LEMMA RealizedInIs ==
  ASSUME IsFiniteSet(Symbols), NEW book, NEW w, Ints(w, Symbols),
         \A s \in Symbols : w[s] = book[s].realized_pnl
  PROVE  Ledger!RealizedIn(book) = SumOver(w, Symbols)
<1> DEFINE Eq(f) == f = [s \in SUBSET Symbols |->
                           IF s = {} THEN 0
                           ELSE book[CHOOSE x \in s : TRUE].realized_pnl
                                + f[s \ {CHOOSE x \in s : TRUE}]]
           f == CHOOSE f : Eq(f)
<1>1. \A s \in SUBSET Symbols : s # {} => (CHOOSE x \in s : TRUE) \in Symbols
  OBVIOUS
<1>2. \A h : Eq(h) <=> IsSum(h, w, Symbols)
  BY <1>1 DEF IsSum
<1>3. Ledger!RealizedIn(book) = f[Symbols]
  BY DEF Ledger!RealizedIn, Ledger!MapThenSumSet, Ledger!MapThenFoldSet
<1> HIDE DEF f, Eq
<1>4. \E h : Eq(h)
  BY <1>2, SumExists
<1>5. IsSum(f, w, Symbols)
  BY <1>2, <1>4 DEF f
<1>6. QED
  BY <1>3, <1>5, SumIs

LEMMA CostInIs ==
  ASSUME IsFiniteSet(Symbols), NEW book, NEW w, Ints(w, Symbols),
         \A s \in Symbols : w[s] = Ledger!Cost(book[s].lots)
  PROVE  Ledger!CostIn(book) = SumOver(w, Symbols)
<1> DEFINE Eq(f) == f = [s \in SUBSET Symbols |->
                           IF s = {} THEN 0
                           ELSE Ledger!Cost(book[CHOOSE x \in s : TRUE].lots)
                                + f[s \ {CHOOSE x \in s : TRUE}]]
           f == CHOOSE f : Eq(f)
<1>1. \A s \in SUBSET Symbols : s # {} => (CHOOSE x \in s : TRUE) \in Symbols
  OBVIOUS
<1>2. \A h : Eq(h) <=> IsSum(h, w, Symbols)
  BY <1>1 DEF IsSum
<1>3. Ledger!CostIn(book) = f[Symbols]
  BY DEF Ledger!CostIn, Ledger!MapThenSumSet, Ledger!MapThenFoldSet
<1> HIDE DEF f, Eq
<1>4. \E h : Eq(h)
  BY <1>2, SumExists
<1>5. IsSum(f, w, Symbols)
  BY <1>2, <1>4 DEF f
<1>6. QED
  BY <1>3, <1>5, SumIs

SumMoves(w, v, S, x) ==
  SumOver(w, S) \in Int /\ SumOver(v, S) = (SumOver(w, S) - w[x]) + v[x]

LEMMA SumReplaces ==
  ASSUME NEW S, IsFiniteSet(S), NEW w, Ints(w, S), NEW v, Ints(v, S), NEW x \in S,
         \A y \in S : y # x => v[y] = w[y]
  PROVE  SumMoves(w, v, S, x)
<1>1. IsFiniteSet(S \ {x}) /\ Ints(w, S \ {x}) /\ \A y \in S \ {x} : w[y] = v[y]
  BY FS_RemoveElement DEF Ints
<1>2. SumOver(w, S \ {x}) = SumOver(v, S \ {x}) /\ SumOver(w, S \ {x}) \in Int
  BY <1>1, SumCongruent, SumFacts
<1>3. TakenOffSum(w, S, x) /\ TakenOffSum(v, S, x) /\ SumOver(w, S) \in Int
  BY SumFacts
<1>4. w[x] \in Int /\ v[x] \in Int
  BY DEF Ints
<1>5. PICK a, b, r \in Int : a = w[x] /\ b = v[x] /\ r = SumOver(w, S \ {x})
  BY <1>2, <1>4
<1>6. SumOver(w, S) = a + r /\ SumOver(v, S) = b + r
  BY <1>2, <1>3, <1>5 DEF TakenOffSum
<1>7. b + r = ((a + r) - a) + b
  OBVIOUS
<1>8. QED
  BY <1>3, <1>5, <1>6, <1>7 DEF SumMoves

\* One position of the book changes.
LEMMA BookSums ==
  ASSUME IsFiniteSet(Symbols),
         NEW book \in [Symbols -> PositionType], NEW x \in Symbols, NEW p \in PositionType,
         NEW next, next = [book EXCEPT ![x] = p]
  PROVE  /\ Ledger!RealizedIn(book) \in Int /\ Ledger!CostIn(book) \in Int
         /\ Ledger!RealizedIn(next) =
              (Ledger!RealizedIn(book) - book[x].realized_pnl) + p.realized_pnl
         /\ Ledger!CostIn(next) =
              (Ledger!CostIn(book) - Ledger!Cost(book[x].lots)) + Ledger!Cost(p.lots)
<1> DEFINE R(b) == [s \in Symbols |-> b[s].realized_pnl]
           C(b) == [s \in Symbols |-> Ledger!Cost(b[s].lots)]
<1>1. /\ next \in [Symbols -> PositionType] /\ next[x] = p
      /\ \A y \in Symbols : y # x => next[y] = book[y]
  OBVIOUS
<1>2. ASSUME NEW b \in [Symbols -> PositionType]
      PROVE  /\ Ints(R(b), Symbols) /\ Ints(C(b), Symbols)
             /\ Ledger!RealizedIn(b) = SumOver(R(b), Symbols)
             /\ Ledger!CostIn(b) = SumOver(C(b), Symbols)
  <2>1. \A s \in Symbols : b[s].realized_pnl \in Int /\ b[s].lots \in Lots
    BY DEF PositionType
  <2>2. Ints(R(b), Symbols) /\ Ints(C(b), Symbols)
    BY <2>1, LotSums DEF Ints
  <2>3. /\ \A s \in Symbols : R(b)[s] = b[s].realized_pnl
        /\ \A s \in Symbols : C(b)[s] = Ledger!Cost(b[s].lots)
    OBVIOUS
  <2> HIDE DEF R, C
  <2>4. QED
    BY <2>2, <2>3, RealizedInIs, CostInIs
<1>3. /\ \A y \in Symbols : y # x => R(next)[y] = R(book)[y] /\ C(next)[y] = C(book)[y]
      /\ R(next)[x] = p.realized_pnl /\ C(next)[x] = Ledger!Cost(p.lots)
      /\ R(book)[x] = book[x].realized_pnl /\ C(book)[x] = Ledger!Cost(book[x].lots)
  BY <1>1
<1> HIDE DEF R, C
<1>4. /\ Ints(R(book), Symbols) /\ Ints(R(next), Symbols)
      /\ Ints(C(book), Symbols) /\ Ints(C(next), Symbols)
  BY <1>1, <1>2
<1>5. SumMoves(R(book), R(next), Symbols, x)
  BY <1>3, <1>4, SumReplaces
<1>6. SumMoves(C(book), C(next), Symbols, x)
  BY <1>3, <1>4, SumReplaces
<1>7. QED
  BY <1>1, <1>2, <1>3, <1>5, <1>6 DEF SumMoves

BooksTypes ==
  /\ positions \in [Symbols -> PositionType] /\ trackers \in [Symbols -> TrackerType]
  /\ realized \in Int /\ forgotten \in Int
  /\ received \in Nat /\ paid \in Nat /\ trades \in Nat

EntriesAgree == \A s \in Symbols : SameLots(positions[s], trackers[s])

BooksInv ==
  /\ BooksTypes /\ EntriesAgree
  /\ realized = (received - paid) + Ledger!OpenCost
  /\ realized = forgotten + Ledger!TotalRealized

LEMMA LedgerConstants ==
  /\ IsFiniteSet(Symbols) /\ Prices \subseteq Nat \ {0} /\ Quantities \subseteq Nat \ {0}
  /\ MaxTrades \in Nat
  BY LedgerAssumptions DEF Ledger!SymbolsAssumption, Ledger!InputsAssumption,
     Ledger!MaxTradesAssumption, Ledger!IsFiniteSet, IsFiniteSet

\* Empty books.
LEMMA NothingOpen ==
  ASSUME NEW book, book = [s \in Symbols |-> Ledger!NoPosition]
  PROVE  Ledger!RealizedIn(book) = 0 /\ Ledger!CostIn(book) = 0
<1> DEFINE zero == [s \in Symbols |-> 0]
<1>1. Ints(zero, Symbols) /\ \A s \in Symbols : zero[s] = 0
  BY DEF Ints
<1>2. \A s \in Symbols : book[s].realized_pnl = 0 /\ Ledger!Cost(book[s].lots) = 0
  BY EmptyEntries
<1> HIDE DEF zero
<1>3. Ledger!RealizedIn(book) = SumOver(zero, Symbols)
  BY <1>1, <1>2, LedgerConstants, RealizedInIs
<1>4. Ledger!CostIn(book) = SumOver(zero, Symbols)
  BY <1>1, <1>2, LedgerConstants, CostInIs
<1>5. SumOver(zero, Symbols) = 0
  <2> DEFINE Good == {s \in SUBSET Symbols : SumOver(zero, s) = 0}
  <2>1. ASSUME NEW s \in SUBSET Symbols, \A x \in s : s \ {x} \in Good PROVE s \in Good
    <3>1. IsFiniteSet(s) /\ Ints(zero, s)
      BY <1>1, LedgerConstants, FS_Subset DEF Ints
    <3>2. CASE s = {}
      BY <3>1, <3>2, SumFacts
    <3>3. CASE s # {}
      <4>1. PICK x \in s : TRUE
        BY <3>3
      <4>2. TakenOffSum(zero, s, x)
        BY <3>1, SumFacts
      <4>3. SumOver(zero, s \ {x}) = 0 /\ zero[x] = 0
        BY <1>1, <2>1
      <4>4. QED
        BY <4>2, <4>3 DEF TakenOffSum
    <3>4. QED
      BY <3>2, <3>3
  <2>2. {} \in Good
    BY <2>1
  <2> HIDE DEF Good
  <2>3. \A s \in SUBSET Symbols : s \in Good
    BY <2>1, <2>2, LedgerConstants, SubsetInduction
  <2>4. QED
    BY <2>3 DEF Good
<1>6. QED
  BY <1>3, <1>4, <1>5

LEMMA BooksInit == Ledger!Init => BooksInv
<1> SUFFICES ASSUME Ledger!Init PROVE BooksInv
  OBVIOUS
<1>1. /\ positions = [s \in Symbols |-> Ledger!NoPosition]
      /\ trackers = [s \in Symbols |-> Ledger!NoTracker]
      /\ realized = 0 /\ received = 0 /\ paid = 0 /\ forgotten = 0 /\ trades = 0
  BY DEF Ledger!Init
<1>2. BooksTypes
  BY <1>1, EmptyEntries DEF BooksTypes
<1>3. EntriesAgree
  BY <1>1, EmptyEntries DEF EntriesAgree
<1>4. Ledger!OpenCost = 0 /\ Ledger!TotalRealized = 0
  BY <1>1, NothingOpen DEF Ledger!OpenCost, Ledger!TotalRealized
<1>5. QED
  BY <1>1, <1>2, <1>3, <1>4 DEF BooksInv

LEMMA ClearKeeps ==
  ASSUME Ledger!Clear
  PROVE  BooksInv'
<1>1. /\ positions' = [s \in Symbols |-> Ledger!NoPosition]
      /\ trackers' = [s \in Symbols |-> Ledger!NoTracker]
      /\ realized' = 0 /\ received' = 0 /\ paid' = 0 /\ forgotten' = 0 /\ trades' = 0
  BY DEF Ledger!Clear
<1>2. BooksTypes'
  BY <1>1, EmptyEntries DEF BooksTypes
<1>3. EntriesAgree'
  BY <1>1, EmptyEntries DEF EntriesAgree
<1>4. Ledger!OpenCost' = 0 /\ Ledger!TotalRealized' = 0
  BY <1>1, NothingOpen DEF Ledger!OpenCost, Ledger!TotalRealized
<1>5. QED
  BY <1>1, <1>2, <1>3, <1>4 DEF BooksInv

\* One symbol's entries are replaced in both books.
LEMMA EntriesReplaced ==
  ASSUME BooksTypes, EntriesAgree, NEW s \in Symbols,
         NEW p \in PositionType, NEW t \in TrackerType, SameLots(p, t),
         positions' = [positions EXCEPT ![s] = p], trackers' = [trackers EXCEPT ![s] = t]
  PROVE  /\ positions' \in [Symbols -> PositionType] /\ trackers' \in [Symbols -> TrackerType]
         /\ EntriesAgree'
         /\ Ledger!TotalRealized \in Int /\ Ledger!OpenCost \in Int
         /\ Ledger!TotalRealized' =
              (Ledger!TotalRealized - positions[s].realized_pnl) + p.realized_pnl
         /\ Ledger!OpenCost' =
              (Ledger!OpenCost - Ledger!Cost(positions[s].lots)) + Ledger!Cost(p.lots)
<1>1. positions \in [Symbols -> PositionType] /\ trackers \in [Symbols -> TrackerType]
  BY DEF BooksTypes
<1>2. positions' \in [Symbols -> PositionType] /\ trackers' \in [Symbols -> TrackerType]
  BY <1>1
<1>3. \A y \in Symbols : SameLots(positions'[y], trackers'[y])
  <2>1. ASSUME NEW y \in Symbols PROVE SameLots(positions'[y], trackers'[y])
    <3>1. CASE y = s
      BY <1>1, <3>1
    <3>2. CASE y # s
      <4>1. positions'[y] = positions[y] /\ trackers'[y] = trackers[y]
        BY <1>1, <3>2
      <4>2. QED
        BY <4>1 DEF EntriesAgree
    <3>3. QED
      BY <3>1, <3>2
  <2>2. QED
    BY <2>1
<1>4. EntriesAgree'
  BY <1>3 DEF EntriesAgree
<1>5. PICK book, next : book = positions /\ next = positions'
  OBVIOUS
<1>6. /\ Ledger!RealizedIn(book) \in Int /\ Ledger!CostIn(book) \in Int
      /\ Ledger!RealizedIn(next) = (Ledger!RealizedIn(book) - book[s].realized_pnl) + p.realized_pnl
      /\ Ledger!CostIn(next) =
           (Ledger!CostIn(book) - Ledger!Cost(book[s].lots)) + Ledger!Cost(p.lots)
  BY <1>1, <1>5, LedgerConstants, BookSums
<1>7. /\ Ledger!TotalRealized = Ledger!RealizedIn(book) /\ Ledger!OpenCost = Ledger!CostIn(book)
      /\ Ledger!TotalRealized' = Ledger!RealizedIn(next)
      /\ Ledger!OpenCost' = Ledger!CostIn(next)
  BY <1>5 DEF Ledger!TotalRealized, Ledger!OpenCost
<1>8. QED
  BY <1>2, <1>4, <1>5, <1>6, <1>7

\* A buy raises cost and cash paid by the same amount.
LEMMA TradeBuys ==
  ASSUME BooksInv, NEW s \in Symbols, NEW quantity \in Quantities, NEW price \in Prices,
         positions' = [positions EXCEPT ![s] = Ledger!Position(@, TRUE, quantity, price)],
         trackers' = [trackers EXCEPT ![s] = Ledger!Tracker(@, TRUE, quantity, price)],
         Ledger!Buy(s, quantity, price), trades' \in Nat
  PROVE  BooksInv'
<1> DEFINE p2 == Ledger!Position(positions[s], TRUE, quantity, price)
           t2 == Ledger!Tracker(trackers[s], TRUE, quantity, price)
<1>1. quantity \in Nat \ {0} /\ price \in Nat \ {0}
  BY LedgerConstants
<1>2. BooksTypes /\ EntriesAgree
  BY DEF BooksInv
<1>3. positions[s] \in PositionType /\ trackers[s] \in TrackerType
      /\ SameLots(positions[s], trackers[s])
  BY <1>2 DEF BooksTypes, EntriesAgree
<1>4. /\ p2 \in PositionType /\ t2 \in TrackerType /\ SameLots(p2, t2)
      /\ p2.realized_pnl = positions[s].realized_pnl
      /\ Ledger!Cost(p2.lots) = Ledger!Cost(positions[s].lots) + price * quantity
  <2>1. PICK p, t, pp, tt : p = positions[s] /\ t = trackers[s] /\ pp = p2 /\ tt = t2
    OBVIOUS
  <2>2. /\ p \in PositionType /\ t \in TrackerType /\ SameLots(p, t)
        /\ pp = Ledger!Position(p, TRUE, quantity, price)
        /\ tt = Ledger!Tracker(t, TRUE, quantity, price)
    BY <1>3, <2>1
  <2> HIDE DEF p2, t2
  <2>3. /\ pp \in PositionType /\ tt \in TrackerType /\ SameLots(pp, tt)
        /\ Bought(p, pp, quantity, price)
    BY <1>1, <2>2, BuyEntries
  <2>4. QED
    BY <2>1, <2>3 DEF Bought
<1>5. positions' = [positions EXCEPT ![s] = p2] /\ trackers' = [trackers EXCEPT ![s] = t2]
  OBVIOUS
<1> HIDE DEF p2, t2
<1>6. /\ positions' \in [Symbols -> PositionType] /\ trackers' \in [Symbols -> TrackerType]
      /\ EntriesAgree'
      /\ Ledger!TotalRealized \in Int /\ Ledger!OpenCost \in Int
      /\ Ledger!TotalRealized' =
           (Ledger!TotalRealized - positions[s].realized_pnl) + p2.realized_pnl
      /\ Ledger!OpenCost' =
           (Ledger!OpenCost - Ledger!Cost(positions[s].lots)) + Ledger!Cost(p2.lots)
  BY <1>2, <1>4, <1>5, EntriesReplaced
<1>7. /\ paid' = paid + price * quantity
      /\ realized' = realized /\ received' = received /\ forgotten' = forgotten
  BY DEF Ledger!Buy
<1>8. /\ realized \in Int /\ forgotten \in Int /\ received \in Nat /\ paid \in Nat
      /\ positions[s].realized_pnl \in Int /\ positions[s].lots \in Lots
  BY <1>2, <1>3 DEF BooksTypes, PositionType
<1>9. PICK amount \in Nat : amount = price * quantity
  BY <1>1, Products
<1>10. PICK cost \in Nat : cost = Ledger!Cost(positions[s].lots)
  BY <1>8, LotSums
<1>11. PICK cost2 : cost2 = Ledger!Cost(p2.lots)
  OBVIOUS
<1>12. PICK open, open2, total, total2, earned :
         /\ open = Ledger!OpenCost /\ open2 = Ledger!OpenCost'
         /\ total = Ledger!TotalRealized /\ total2 = Ledger!TotalRealized'
         /\ earned = positions[s].realized_pnl
  OBVIOUS
<1>13. /\ open \in Int /\ total \in Int /\ earned \in Int /\ cost2 = cost + amount
       /\ open2 = (open - cost) + cost2 /\ total2 = (total - earned) + earned
       /\ paid' = paid + amount
       /\ realized = (received - paid) + open /\ realized = forgotten + total
  BY <1>4, <1>6, <1>7, <1>8, <1>9, <1>10, <1>11, <1>12 DEF BooksInv
<1>14. /\ paid' \in Nat
       /\ realized' = (received' - paid') + open2 /\ realized' = forgotten' + total2
  BY <1>7, <1>8, <1>9, <1>10, <1>13
<1>15. BooksTypes'
  BY <1>6, <1>7, <1>8, <1>14 DEF BooksTypes
<1>16. QED
  BY <1>6, <1>12, <1>14, <1>15 DEF BooksInv

\* A sell earns what came in for the shares held less what left the cost of
\* the lots; an erased position leaves what it earned behind.
LEMMA TradeSells ==
  ASSUME BooksInv, NEW s \in Symbols, NEW quantity \in Quantities, NEW price \in Prices,
         positions' = [positions EXCEPT ![s] = Ledger!Position(@, FALSE, quantity, price)],
         trackers' = [trackers EXCEPT ![s] = Ledger!Tracker(@, FALSE, quantity, price)],
         Ledger!SellShares(s, quantity, price), trades' \in Nat
  PROVE  BooksInv'
<1> DEFINE p2 == Ledger!Position(positions[s], FALSE, quantity, price)
           t2 == Ledger!Tracker(trackers[s], FALSE, quantity, price)
<1>1. quantity \in Nat \ {0} /\ price \in Nat \ {0}
  BY LedgerConstants
<1>2. BooksTypes /\ EntriesAgree
  BY DEF BooksInv
<1>3. positions[s] \in PositionType /\ trackers[s] \in TrackerType
      /\ SameLots(positions[s], trackers[s])
  BY <1>2 DEF BooksTypes, EntriesAgree
<1>4. PICK gain : gain = Ledger!Earned(trackers[s], quantity, price)
  OBVIOUS
<1>5. /\ p2 \in PositionType /\ t2 \in TrackerType /\ SameLots(p2, t2)
      /\ gain \in Int /\ gain = Ledger!Sell(positions[s].lots, quantity, price).earned
      /\ gain = price * Ledger!Least(quantity, positions[s].quantity)
                  - Ledger!Cost(positions[s].lots) + Ledger!Cost(p2.lots)
      /\ p2.realized_pnl = IF positions[s].quantity <= quantity THEN 0
                           ELSE positions[s].realized_pnl + gain
  <2>1. PICK p, t, pp, tt : p = positions[s] /\ t = trackers[s] /\ pp = p2 /\ tt = t2
    OBVIOUS
  <2>2. /\ p \in PositionType /\ t \in TrackerType /\ SameLots(p, t)
        /\ Sells(p, t, pp, tt, gain, quantity, price)
    BY <1>3, <1>4, <2>1 DEF Sells
  <2> HIDE DEF p2, t2
  <2>3. /\ pp \in PositionType /\ tt \in TrackerType /\ SameLots(pp, tt)
        /\ SoldFrom(p, pp, gain, quantity, price)
    BY <1>1, <2>2, SellEntries
  <2>4. QED
    BY <2>1, <2>3 DEF SoldFrom
<1>6. positions' = [positions EXCEPT ![s] = p2] /\ trackers' = [trackers EXCEPT ![s] = t2]
  OBVIOUS
<1> HIDE DEF p2, t2
<1>7. /\ positions' \in [Symbols -> PositionType] /\ trackers' \in [Symbols -> TrackerType]
      /\ EntriesAgree'
      /\ Ledger!TotalRealized \in Int /\ Ledger!OpenCost \in Int
      /\ Ledger!TotalRealized' =
           (Ledger!TotalRealized - positions[s].realized_pnl) + p2.realized_pnl
      /\ Ledger!OpenCost' =
           (Ledger!OpenCost - Ledger!Cost(positions[s].lots)) + Ledger!Cost(p2.lots)
  BY <1>2, <1>5, <1>6, EntriesReplaced
<1>8. /\ realized \in Int /\ forgotten \in Int /\ received \in Nat /\ paid \in Nat
      /\ positions[s].realized_pnl \in Int /\ positions[s].lots \in Lots
      /\ positions[s].quantity \in Nat /\ p2.lots \in Lots
  BY <1>2, <1>3, <1>5 DEF BooksTypes, PositionType
<1>9. Ledger!Least(quantity, positions[s].quantity) \in Nat
  BY <1>1, <1>8 DEF Ledger!Least
<1>10. PICK amount \in Nat : amount = price * Ledger!Least(quantity, positions[s].quantity)
  BY <1>1, <1>9, Products
<1>11. PICK all : all <=> positions[s].quantity <= quantity
  OBVIOUS
<1>12. /\ realized' = realized + gain /\ received' = received + amount /\ paid' = paid
       /\ forgotten' = IF all THEN forgotten + positions[s].realized_pnl + gain ELSE forgotten
  BY <1>4, <1>5, <1>10, <1>11 DEF Ledger!SellShares
<1>13. PICK cost, cost2 \in Nat :
         cost = Ledger!Cost(positions[s].lots) /\ cost2 = Ledger!Cost(p2.lots)
  BY <1>8, LotSums
<1>14. PICK open, open2, total, total2, earned, earned2 :
         /\ open = Ledger!OpenCost /\ open2 = Ledger!OpenCost'
         /\ total = Ledger!TotalRealized /\ total2 = Ledger!TotalRealized'
         /\ earned = positions[s].realized_pnl /\ earned2 = p2.realized_pnl
  OBVIOUS
<1>15. gain = amount - cost + cost2
  BY <1>5, <1>10, <1>13
<1>16. earned2 = IF all THEN 0 ELSE earned + gain
  BY <1>5, <1>11, <1>14
<1>17. /\ open \in Int /\ total \in Int /\ earned \in Int
       /\ open2 = (open - cost) + cost2 /\ total2 = (total - earned) + earned2
       /\ realized = (received - paid) + open /\ realized = forgotten + total
       /\ forgotten' = IF all THEN forgotten + earned + gain ELSE forgotten
  BY <1>7, <1>8, <1>12, <1>13, <1>14 DEF BooksInv
<1>18. /\ received' \in Nat /\ realized' \in Int /\ forgotten' \in Int
       /\ realized' = (received' - paid') + open2 /\ realized' = forgotten' + total2
  <2>1. received' \in Nat /\ realized' \in Int /\ forgotten' \in Int
    BY <1>5, <1>8, <1>10, <1>12, <1>17
  <2>2. realized' = (received' - paid') + open2
    BY <1>8, <1>10, <1>12, <1>13, <1>15, <1>17
  <2>3. CASE all
    <3>1. forgotten' = forgotten + earned + gain /\ earned2 = 0
      BY <1>16, <1>17, <2>3
    <3>2. realized' = forgotten' + total2
      BY <1>5, <1>8, <1>12, <1>17, <3>1
    <3>3. QED
      BY <2>1, <2>2, <3>2
  <2>4. CASE ~all
    <3>1. forgotten' = forgotten /\ earned2 = earned + gain
      BY <1>16, <1>17, <2>4
    <3>2. realized' = forgotten' + total2
      BY <1>5, <1>8, <1>12, <1>17, <3>1
    <3>3. QED
      BY <2>1, <2>2, <3>2
  <2>5. QED
    BY <2>3, <2>4
<1>19. BooksTypes'
  BY <1>7, <1>8, <1>12, <1>18 DEF BooksTypes
<1>20. QED
  BY <1>7, <1>14, <1>18, <1>19 DEF BooksInv

LEMMA BooksStep ==
  ASSUME BooksInv, [Ledger!Next]_(Ledger!vars)
  PROVE  BooksInv'
<1>1. CASE UNCHANGED Ledger!vars
  BY <1>1 DEF Ledger!vars, BooksInv, BooksTypes, EntriesAgree, Ledger!OpenCost,
     Ledger!TotalRealized
<1>2. CASE Ledger!Clear
  BY <1>2, ClearKeeps
<1>3. CASE Ledger!Trade
  <2>1. PICK s \in Symbols, is_buy \in BOOLEAN, quantity \in Quantities, price \in Prices :
          /\ positions' = [positions EXCEPT ![s] = Ledger!Position(@, is_buy, quantity, price)]
          /\ trackers' = [trackers EXCEPT ![s] = Ledger!Tracker(@, is_buy, quantity, price)]
          /\ IF is_buy THEN Ledger!Buy(s, quantity, price)
                       ELSE Ledger!SellShares(s, quantity, price)
    BY <1>3 DEF Ledger!Trade
  <2>2. trades' \in Nat
    <3>1. trades \in Nat /\ trades' = trades + 1
      BY <1>3 DEF BooksInv, BooksTypes, Ledger!Trade
    <3>2. QED
      BY <3>1
  <2>3. CASE is_buy
    <3>1. is_buy = TRUE
      BY <2>3
    <3>2. QED
      BY <2>1, <2>2, <3>1, TradeBuys
  <2>4. CASE ~is_buy
    <3>1. is_buy = FALSE
      BY <2>4
    <3>2. QED
      BY <2>1, <2>2, <3>1, TradeSells
  <2>5. QED
    BY <2>3, <2>4
<1>4. QED
  BY <1>1, <1>2, <1>3 DEF Ledger!Next

LEMMA BooksImply ==
  ASSUME BooksInv
  PROVE  Ledger!TypeOK /\ Ledger!RealizedIsCashFlow /\ Ledger!BooksAgree
<1>1. Ledger!TypeOK
  BY DEF BooksInv, BooksTypes, Ledger!TypeOK, PositionType, TrackerType, Lots
<1>2. Ledger!RealizedIsCashFlow
  BY DEF BooksInv, Ledger!RealizedIsCashFlow
<1>3. Ledger!BooksAgree
  BY DEF BooksInv, EntriesAgree, SameLots, Ledger!BooksAgree
<1>4. QED
  BY <1>1, <1>2, <1>3

----------------------------------------------------------------------------
(***************************************************************************)
(* The paper account is what its orders say.                               *)
(***************************************************************************)
EntryType == [order : PaperOrders, filled : Nat, rate : Rates,
              status : {"pending", "rejected", "filled", "cancelled"}]

\* The cash and the shares of each order, as functions of its id.
Payments(book) == [id \in DOMAIN book |-> Paper!Cash(book[id].order, book[id].rate)]
Moves(book) == [id \in DOMAIN book |-> Paper!Signed(book[id])]

LEMMA PaperConstants ==
  /\ PaperOrders \subseteq [symbol : Coins, is_buy : BOOLEAN, market : BOOLEAN,
                            quantity : Nat \ {0}, price : Nat]
  /\ Rates \subseteq [slippage : 0 .. 100, commission : 0 .. 100]
  /\ Balances \subseteq Int /\ DefaultPrice \in Nat
  BY PaperAssumptions DEF Paper!OrdersAssumption, Paper!RatesAssumption, Paper!MoneyAssumption

\* A sell never costs anything: no rate is above a hundred percent.
LEMMA CashType ==
  ASSUME NEW o \in PaperOrders, NEW r \in Rates
  PROVE  Paper!Cash(o, r) \in Int /\ (~o.is_buy => Paper!Cash(o, r) \in Nat)
<1>1. /\ o.is_buy \in BOOLEAN /\ o.quantity \in Nat /\ o.price \in Nat
      /\ r.slippage \in 0 .. 100 /\ r.commission \in 0 .. 100 /\ DefaultPrice \in Nat
  BY PaperConstants
<1>2. PICK price \in Nat : price = IF o.price > 0 THEN o.price ELSE DefaultPrice
  BY <1>1
<1>3. PICK part \in Nat : part = IF o.is_buy THEN 100 + r.slippage ELSE 100 - r.slippage
  BY <1>1
<1>4. PICK fill \in Nat : fill = price * part
  BY <1>2, <1>3, Products
<1>5. Paper!FillPrice(o, r) = fill
  BY <1>2, <1>3, <1>4 DEF Paper!FillPrice
<1>6. PICK whole \in Nat : whole = fill * o.quantity
  BY <1>1, <1>4, Products
<1>7. CASE o.is_buy
  <2>1. PICK more \in Nat : more = 100 + r.commission
    BY <1>1
  <2>2. Paper!Cash(o, r) = whole * (-more)
    BY <1>5, <1>6, <1>7, <2>1 DEF Paper!Cash
  <2>3. \A a, b \in Nat : a * (-b) \in Int
    OBVIOUS
  <2>4. QED
    BY <1>7, <2>2, <2>3
<1>8. CASE ~o.is_buy
  <2>1. PICK less \in Nat : less = 100 - r.commission
    BY <1>1
  <2>2. Paper!Cash(o, r) = whole * less
    BY <1>5, <1>6, <1>8, <2>1 DEF Paper!Cash
  <2>3. QED
    BY <2>2, Products
<1>9. QED
  BY <1>7, <1>8

\* The sums of the model are sums over sets of ids.
LEMMA CashInIs ==
  ASSUME NEW book, NEW S, S = Paper!FilledIn(book), IsFiniteSet(S), NEW w, Ints(w, S),
         \A id \in S : w[id] = Paper!Cash(book[id].order, book[id].rate)
  PROVE  Paper!CashIn(book) = SumOver(w, S)
<1> DEFINE Eq(f) == f = [s \in SUBSET S |->
                           IF s = {} THEN 0
                           ELSE Paper!Cash(book[CHOOSE x \in s : TRUE].order,
                                           book[CHOOSE x \in s : TRUE].rate)
                                + f[s \ {CHOOSE x \in s : TRUE}]]
           f == CHOOSE f : Eq(f)
<1>1. \A s \in SUBSET S : s # {} => (CHOOSE x \in s : TRUE) \in S
  OBVIOUS
<1>2. \A h : Eq(h) <=> IsSum(h, w, S)
  BY <1>1 DEF IsSum
<1>3. Paper!CashIn(book) = f[S]
  BY DEF Paper!CashIn, Paper!MapThenSumSet, Paper!MapThenFoldSet
<1> HIDE DEF f, Eq
<1>4. \E h : Eq(h)
  BY <1>2, SumExists
<1>5. IsSum(f, w, S)
  BY <1>2, <1>4 DEF f
<1>6. QED
  BY <1>3, <1>5, SumIs

LEMMA SharesInIs ==
  ASSUME NEW book, NEW c, NEW S, S = Paper!OfSymbol(book, c), IsFiniteSet(S),
         NEW w, Ints(w, S), \A id \in S : w[id] = Paper!Signed(book[id])
  PROVE  Paper!SharesIn(book, c) = SumOver(w, S)
<1> DEFINE Eq(f) == f = [s \in SUBSET S |->
                           IF s = {} THEN 0
                           ELSE Paper!Signed(book[CHOOSE x \in s : TRUE])
                                + f[s \ {CHOOSE x \in s : TRUE}]]
           f == CHOOSE f : Eq(f)
<1>1. \A s \in SUBSET S : s # {} => (CHOOSE x \in s : TRUE) \in S
  OBVIOUS
<1>2. \A h : Eq(h) <=> IsSum(h, w, S)
  BY <1>1 DEF IsSum
<1>3. Paper!SharesIn(book, c) = f[S]
  BY DEF Paper!SharesIn, Paper!MapThenSumSet, Paper!MapThenFoldSet
<1> HIDE DEF f, Eq
<1>4. \E h : Eq(h)
  BY <1>2, SumExists
<1>5. IsSum(f, w, S)
  BY <1>2, <1>4 DEF f
<1>6. QED
  BY <1>3, <1>5, SumIs

\* Both sums of a sequence of orders.
LEMMA PaperSums ==
  ASSUME NEW book \in Seq(EntryType)
  PROVE  /\ IsFiniteSet(DOMAIN book) /\ IsFiniteSet(Paper!FilledIn(book))
         /\ Ints(Payments(book), DOMAIN book) /\ Ints(Moves(book), DOMAIN book)
         /\ Paper!CashIn(book) = SumOver(Payments(book), Paper!FilledIn(book))
         /\ \A c : /\ IsFiniteSet(Paper!OfSymbol(book, c))
                   /\ Paper!SharesIn(book, c) = SumOver(Moves(book), Paper!OfSymbol(book, c))
<1>1. Len(book) \in Nat /\ DOMAIN book = 1 .. Len(book)
      /\ \A id \in DOMAIN book : book[id] \in EntryType
  OBVIOUS
<1>2. IsFiniteSet(DOMAIN book)
  <2>1. Len(book) \in Int /\ 1 \in Int
    BY <1>1
  <2>2. QED
    BY <1>1, <2>1, FS_Interval
<1>3. Paper!FilledIn(book) \subseteq DOMAIN book
      /\ \A c : Paper!OfSymbol(book, c) \subseteq DOMAIN book
  BY DEF Paper!FilledIn, Paper!OfSymbol
<1>4. IsFiniteSet(Paper!FilledIn(book)) /\ \A c : IsFiniteSet(Paper!OfSymbol(book, c))
  BY <1>2, <1>3, FS_Subset
<1>5. \A id \in DOMAIN book :
        /\ Payments(book)[id] = Paper!Cash(book[id].order, book[id].rate)
        /\ Moves(book)[id] = Paper!Signed(book[id])
  BY DEF Payments, Moves
<1>6. Ints(Payments(book), DOMAIN book)
  <2>1. ASSUME NEW id \in DOMAIN book PROVE Payments(book)[id] \in Int
    <3>1. book[id].order \in PaperOrders /\ book[id].rate \in Rates
      BY <1>1 DEF EntryType
    <3>2. QED
      BY <1>5, <3>1, CashType
  <2>2. QED
    BY <2>1 DEF Ints
<1>7. Ints(Moves(book), DOMAIN book)
  <2>1. ASSUME NEW id \in DOMAIN book PROVE Moves(book)[id] \in Int
    <3>1. book[id].filled \in Nat
      BY <1>1 DEF EntryType
    <3>2. QED
      BY <1>5, <3>1 DEF Paper!Signed
  <2>2. QED
    BY <2>1 DEF Ints
<1>8. Paper!CashIn(book) = SumOver(Payments(book), Paper!FilledIn(book))
  <2>1. PICK S, w : S = Paper!FilledIn(book) /\ w = Payments(book)
    OBVIOUS
  <2>2. Ints(w, S) /\ \A id \in S : w[id] = Paper!Cash(book[id].order, book[id].rate)
    BY <1>3, <1>5, <1>6, <2>1 DEF Ints
  <2>3. QED
    BY <1>4, <2>1, <2>2, CashInIs
<1>9. ASSUME NEW c
      PROVE  Paper!SharesIn(book, c) = SumOver(Moves(book), Paper!OfSymbol(book, c))
  <2>1. PICK S, w : S = Paper!OfSymbol(book, c) /\ w = Moves(book)
    OBVIOUS
  <2>2. Ints(w, S) /\ \A id \in S : w[id] = Paper!Signed(book[id])
    BY <1>3, <1>5, <1>7, <2>1 DEF Ints
  <2>3. QED
    BY <1>4, <2>1, <2>2, SharesInIs
<1>10. QED
  BY <1>2, <1>4, <1>6, <1>7, <1>8, <1>9

\* One more id: v agrees with w on the ids before.
Grows(w, v, S, x) == SumOver(v, S \cup {x}) = v[x] + SumOver(w, S)

LEMMA SumGrows ==
  ASSUME NEW S, IsFiniteSet(S), NEW x, x \notin S, NEW w, Ints(w, S),
         NEW v, Ints(v, S \cup {x}), \A y \in S : v[y] = w[y]
  PROVE  Grows(w, v, S, x)
<1>1. IsFiniteSet(S \cup {x})
  BY FS_AddElement
<1>2. TakenOffSum(v, S \cup {x}, x)
  BY <1>1, SumFacts
<1>3. (S \cup {x}) \ {x} = S
  OBVIOUS
<1>4. SumOver(v, S) = SumOver(w, S)
  <2>1. Ints(v, S)
    BY DEF Ints
  <2>2. QED
    BY <2>1, SumCongruent
<1>5. QED
  BY <1>2, <1>3, <1>4 DEF Grows, TakenOffSum

\* The sums stay, or move by what an order filled.
SameSums(book, next) ==
  /\ Paper!CashIn(next) = Paper!CashIn(book)
  /\ \A c : Paper!SharesIn(next, c) = Paper!SharesIn(book, c)

SumsMove(book, next, e) ==
  /\ Paper!CashIn(next) = Paper!Cash(e.order, e.rate) + Paper!CashIn(book)
  /\ \A c : Paper!SharesIn(next, c) =
              IF c = e.order.symbol THEN Paper!Signed(e) + Paper!SharesIn(book, c)
                                    ELSE Paper!SharesIn(book, c)

\* An order more.
LEMMA OrderAdded ==
  ASSUME NEW book \in Seq(EntryType), NEW e \in EntryType, NEW next, next = Append(book, e)
  PROVE  /\ next \in Seq(EntryType)
         /\ e.filled = 0 => SameSums(book, next)
         /\ e.filled > 0 => SumsMove(book, next, e)
<1> DEFINE id == Len(book) + 1
<1>1. /\ next \in Seq(EntryType) /\ DOMAIN next = DOMAIN book \cup {id}
      /\ id \notin DOMAIN book /\ next[id] = e
      /\ \A y \in DOMAIN book : next[y] = book[y]
  OBVIOUS
<1> HIDE DEF id
<1>2. /\ Ints(Payments(next), DOMAIN next) /\ Ints(Moves(next), DOMAIN next)
      /\ Paper!CashIn(next) = SumOver(Payments(next), Paper!FilledIn(next))
      /\ \A c : Paper!SharesIn(next, c) = SumOver(Moves(next), Paper!OfSymbol(next, c))
  BY <1>1, PaperSums
<1>3. /\ Ints(Payments(book), DOMAIN book) /\ Ints(Moves(book), DOMAIN book)
      /\ IsFiniteSet(Paper!FilledIn(book)) /\ \A c : IsFiniteSet(Paper!OfSymbol(book, c))
      /\ Paper!CashIn(book) = SumOver(Payments(book), Paper!FilledIn(book))
      /\ \A c : Paper!SharesIn(book, c) = SumOver(Moves(book), Paper!OfSymbol(book, c))
  BY PaperSums
<1>4. /\ \A y \in DOMAIN book : /\ Payments(next)[y] = Payments(book)[y]
                                /\ Moves(next)[y] = Moves(book)[y]
      /\ Payments(next)[id] = Paper!Cash(e.order, e.rate) /\ Moves(next)[id] = Paper!Signed(e)
  BY <1>1 DEF Payments, Moves
<1>5. Paper!FilledIn(book) \subseteq DOMAIN book
      /\ \A c : Paper!OfSymbol(book, c) \subseteq DOMAIN book
  BY DEF Paper!FilledIn, Paper!OfSymbol
<1>6. ASSUME NEW S \in SUBSET DOMAIN book, IsFiniteSet(S)
      PROVE  /\ SumOver(Payments(next), S) = SumOver(Payments(book), S)
             /\ SumOver(Moves(next), S) = SumOver(Moves(book), S)
  <2>1. PICK w, v, a, b : w = Payments(book) /\ v = Payments(next)
                          /\ a = Moves(book) /\ b = Moves(next)
    OBVIOUS
  <2>2. Ints(v, S) /\ Ints(b, S) /\ \A y \in S : v[y] = w[y] /\ b[y] = a[y]
    BY <1>1, <1>2, <1>4, <2>1 DEF Ints
  <2>3. SumOver(v, S) = SumOver(w, S) /\ SumOver(b, S) = SumOver(a, S)
    BY <1>6, <2>2, SumCongruent
  <2>4. QED
    BY <2>1, <2>3
<1>7. ASSUME NEW S \in SUBSET DOMAIN book, IsFiniteSet(S)
      PROVE  /\ SumOver(Payments(next), S \cup {id}) =
                  Paper!Cash(e.order, e.rate) + SumOver(Payments(book), S)
             /\ SumOver(Moves(next), S \cup {id}) = Paper!Signed(e) + SumOver(Moves(book), S)
  <2>1. PICK w, v, a, b : w = Payments(book) /\ v = Payments(next)
                          /\ a = Moves(book) /\ b = Moves(next)
    OBVIOUS
  <2>2. /\ Ints(v, S \cup {id}) /\ Ints(b, S \cup {id}) /\ Ints(w, S) /\ Ints(a, S)
        /\ \A y \in S : v[y] = w[y] /\ b[y] = a[y]
    BY <1>1, <1>2, <1>3, <1>4, <2>1 DEF Ints
  <2>3. Grows(w, v, S, id) /\ Grows(a, b, S, id)
    BY <1>1, <1>7, <2>2, SumGrows
  <2>4. QED
    BY <1>4, <2>1, <2>3 DEF Grows
<1>8. CASE e.filled = 0
  <2>1. Paper!FilledIn(next) = Paper!FilledIn(book)
    BY <1>1, <1>8 DEF Paper!FilledIn
  <2>2. \A c : Paper!OfSymbol(next, c) = Paper!OfSymbol(book, c)
    BY <1>1, <1>5, <2>1 DEF Paper!OfSymbol
  <2>3. Paper!CashIn(next) = Paper!CashIn(book)
    BY <1>2, <1>3, <1>5, <1>6, <2>1
  <2>4. \A c : Paper!SharesIn(next, c) = Paper!SharesIn(book, c)
    BY <1>2, <1>3, <1>5, <1>6, <2>2
  <2>5. QED
    BY <1>1, <1>8, <2>3, <2>4 DEF SameSums
<1>9. CASE e.filled > 0
  <2>1. Paper!FilledIn(next) = Paper!FilledIn(book) \cup {id}
    BY <1>1, <1>9 DEF Paper!FilledIn
  <2>2. \A c : Paper!OfSymbol(next, c) =
                 IF c = e.order.symbol THEN Paper!OfSymbol(book, c) \cup {id}
                                       ELSE Paper!OfSymbol(book, c)
    BY <1>1, <1>5, <2>1 DEF Paper!OfSymbol
  <2>3. Paper!CashIn(next) = Paper!Cash(e.order, e.rate) + Paper!CashIn(book)
    BY <1>2, <1>3, <1>5, <1>7, <2>1
  <2>4. ASSUME NEW c
        PROVE  Paper!SharesIn(next, c) =
                 IF c = e.order.symbol THEN Paper!Signed(e) + Paper!SharesIn(book, c)
                                       ELSE Paper!SharesIn(book, c)
    <3>1. PICK S : S = Paper!OfSymbol(book, c) /\ S \in SUBSET DOMAIN book /\ IsFiniteSet(S)
      BY <1>3, <1>5
    <3>2. Paper!SharesIn(book, c) = SumOver(Moves(book), S)
      BY <1>3, <3>1
    <3>3. Paper!SharesIn(next, c) = SumOver(Moves(next), Paper!OfSymbol(next, c))
      BY <1>2
    <3>4. CASE c = e.order.symbol
      <4>1. Paper!OfSymbol(next, c) = S \cup {id}
        BY <2>2, <3>1, <3>4
      <4>2. SumOver(Moves(next), S \cup {id}) = Paper!Signed(e) + SumOver(Moves(book), S)
        BY <1>7, <3>1
      <4>3. QED
        BY <3>2, <3>3, <3>4, <4>1, <4>2
    <3>5. CASE c # e.order.symbol
      <4>1. Paper!OfSymbol(next, c) = S
        BY <2>2, <3>1, <3>5
      <4>2. SumOver(Moves(next), S) = SumOver(Moves(book), S)
        BY <1>6, <3>1
      <4>3. QED
        BY <3>2, <3>3, <3>5, <4>1, <4>2
    <3>6. QED
      BY <3>4, <3>5
  <2>5. QED
    BY <1>1, <1>9, <2>3, <2>4 DEF SumsMove
<1>10. QED
  <2>1. e.filled \in Nat
    BY DEF EntryType
  <2>2. e.filled = 0 \/ e.filled > 0
    BY <2>1
  <2>3. QED
    BY <1>8, <1>9, <2>1, <2>2

\* Another status.
LEMMA StatusReplaced ==
  ASSUME NEW book \in Seq(EntryType), NEW next \in Seq(EntryType), DOMAIN next = DOMAIN book,
         \A id \in DOMAIN book : /\ next[id].order = book[id].order
                                 /\ next[id].filled = book[id].filled
                                 /\ next[id].rate = book[id].rate
  PROVE  SameSums(book, next)
<1>1. Payments(next) = Payments(book)
  BY DEF Payments
<1>2. Moves(next) = Moves(book)
  BY DEF Moves, Paper!Signed
<1>3. Paper!FilledIn(next) = Paper!FilledIn(book)
  BY DEF Paper!FilledIn
<1>4. \A c : Paper!OfSymbol(next, c) = Paper!OfSymbol(book, c)
  BY <1>3 DEF Paper!OfSymbol, Paper!FilledIn
<1>5. Paper!CashIn(next) = Paper!CashIn(book)
  BY <1>1, <1>3, PaperSums
<1>6. ASSUME NEW c PROVE Paper!SharesIn(next, c) = Paper!SharesIn(book, c)
  BY <1>2, <1>4, PaperSums
<1>7. QED
  BY <1>5, <1>6 DEF SameSums

PaperTypes ==
  /\ orders \in Seq(EntryType) /\ paper_positions \in [Coins -> Nat]
  /\ balance \in Int /\ rate \in Rates /\ opening \in Balances

PaperInv ==
  /\ PaperTypes
  /\ balance >= 0 \/ balance >= opening
  /\ balance = opening + Paper!CashIn(orders)
  /\ \A s \in Coins : paper_positions[s] = Paper!SharesIn(orders, s)

\* An account without orders.
LEMMA NoOrders ==
  Paper!CashIn(<<>>) = 0 /\ \A c : Paper!SharesIn(<<>>, c) = 0
<1>1. <<>> \in Seq(EntryType)
  OBVIOUS
<1>2. Paper!FilledIn(<<>>) = {} /\ \A c : Paper!OfSymbol(<<>>, c) = {}
  BY DEF Paper!FilledIn, Paper!OfSymbol
<1>3. PICK w, a : w = Payments(<<>>) /\ a = Moves(<<>>)
  OBVIOUS
<1>4. Paper!CashIn(<<>>) = SumOver(w, {}) /\ \A c : Paper!SharesIn(<<>>, c) = SumOver(a, {})
  BY <1>1, <1>2, <1>3, PaperSums
<1>5. SumOver(w, {}) = 0 /\ SumOver(a, {}) = 0
  BY FS_EmptySet, SumFacts DEF Ints
<1>6. QED
  BY <1>4, <1>5

LEMMA PaperInit == Paper!Init => PaperInv
<1> SUFFICES ASSUME Paper!Init PROVE PaperInv
  OBVIOUS
<1>1. /\ orders = <<>> /\ paper_positions = [s \in Coins |-> 0]
      /\ opening \in Balances /\ balance = opening /\ rate \in Rates
  BY DEF Paper!Init
<1>2. opening \in Int
  BY <1>1, PaperConstants
<1>3. QED
  BY <1>1, <1>2, NoOrders DEF PaperInv, PaperTypes

\* An order that fills nothing.
LEMMA PaperUnfilled ==
  ASSUME PaperInv, NEW o \in PaperOrders, NEW status \in {"pending", "rejected"},
         orders' = Append(orders, Paper!Entry(o, 0, status)),
         UNCHANGED <<paper_positions, balance, rate, opening>>
  PROVE  PaperInv'
<1>1. PICK e : e = Paper!Entry(o, 0, status)
  OBVIOUS
<1>2. e \in EntryType /\ e.filled = 0
  BY <1>1 DEF PaperInv, PaperTypes, EntryType, Paper!Entry
<1>3. PICK book, next : book = orders /\ next = orders'
  OBVIOUS
<1>4. book \in Seq(EntryType) /\ next = Append(book, e)
  BY <1>1, <1>3 DEF PaperInv, PaperTypes
<1>5. next \in Seq(EntryType) /\ SameSums(book, next)
  BY <1>2, <1>4, OrderAdded
<1>6. Paper!CashIn(orders)' = Paper!CashIn(orders)
      /\ \A c : Paper!SharesIn(orders, c)' = Paper!SharesIn(orders, c)
  BY <1>3, <1>5 DEF SameSums
<1>7. QED
  BY <1>3, <1>5, <1>6 DEF PaperInv, PaperTypes

\* What the guards of process_market_order_locked leave of the account.
LEMMA PaperFilled ==
  ASSUME PaperInv, NEW o \in PaperOrders, Paper!FillMarket(o)
  PROVE  PaperInv'
<1>1. PICK e : e = Paper!Entry(o, o.quantity, "filled")
  OBVIOUS
<1>2. /\ o.quantity \in Nat \ {0} /\ o.symbol \in Coins /\ o.is_buy \in BOOLEAN
  BY PaperConstants
<1>3. /\ orders \in Seq(EntryType) /\ paper_positions \in [Coins -> Nat]
      /\ balance \in Int /\ rate \in Rates /\ opening \in Balances /\ opening \in Int
      /\ balance >= 0 \/ balance >= opening
  BY PaperConstants DEF PaperInv, PaperTypes
<1>4. /\ e \in EntryType /\ e.filled = o.quantity /\ e.filled > 0 /\ e.order = o /\ e.rate = rate
  BY <1>1, <1>2, <1>3 DEF EntryType, Paper!Entry
<1>5. PICK cash \in Int : cash = Paper!Cash(o, rate) /\ (~o.is_buy => cash \in Nat)
  BY <1>3, CashType
<1>6. PICK moved \in Int : moved = IF o.is_buy THEN o.quantity ELSE -o.quantity
  BY <1>2
<1>7. Paper!Signed(e) = moved
  BY <1>4, <1>6 DEF Paper!Signed
<1>8. PICK book, next : book = orders /\ next = orders'
  OBVIOUS
<1>9. book \in Seq(EntryType) /\ next = Append(book, e)
  BY <1>1, <1>3, <1>8 DEF Paper!FillMarket
<1>10. /\ next \in Seq(EntryType) /\ Paper!CashIn(next) = cash + Paper!CashIn(book)
       /\ \A c : Paper!SharesIn(next, c) =
                   IF c = o.symbol THEN moved + Paper!SharesIn(book, c)
                                   ELSE Paper!SharesIn(book, c)
  <2>1. next \in Seq(EntryType) /\ SumsMove(book, next, e)
    BY <1>4, <1>9, OrderAdded
  <2>2. QED
    BY <1>4, <1>5, <1>7, <2>1 DEF SumsMove
<1>11. /\ paper_positions' = [paper_positions EXCEPT ![o.symbol] =
                                IF o.is_buy THEN @ + o.quantity ELSE @ - o.quantity]
       /\ balance' = balance + cash /\ rate' = rate /\ opening' = opening /\ Paper!CanFill(o)
  BY <1>5 DEF Paper!FillMarket
<1>12. balance' \in Int /\ (balance' >= 0 \/ balance' >= opening')
  <2>1. CASE o.is_buy
    <3>1. balance >= -cash
      BY <1>5, <1>11, <2>1 DEF Paper!CanFill
    <3>2. QED
      BY <1>3, <1>11, <3>1
  <2>2. CASE ~o.is_buy
    BY <1>3, <1>5, <1>11, <2>2
  <2>3. QED
    BY <2>1, <2>2
<1>13. paper_positions[o.symbol] + moved \in Nat
  <2>1. CASE o.is_buy
    BY <1>2, <1>3, <1>6, <2>1
  <2>2. CASE ~o.is_buy
    <3>1. paper_positions[o.symbol] >= o.quantity
      BY <1>11, <2>2 DEF Paper!CanFill
    <3>2. QED
      BY <1>2, <1>3, <1>6, <2>2, <3>1
  <2>3. QED
    BY <2>1, <2>2
<1>14. \A c \in Coins : paper_positions'[c] = IF c = o.symbol THEN paper_positions[c] + moved
                                                             ELSE paper_positions[c]
  <2>1. paper_positions[o.symbol] \in Nat
    BY <1>2, <1>3
  <2>2. paper_positions' = [paper_positions EXCEPT ![o.symbol] = paper_positions[o.symbol] + moved]
    BY <1>2, <1>6, <1>11, <2>1
  <2>3. QED
    BY <1>3, <2>2
<1>15. paper_positions' \in [Coins -> Nat]
  <2>1. paper_positions' = [c \in Coins |-> paper_positions'[c]]
    BY <1>3, <1>11
  <2>2. \A c \in Coins : paper_positions'[c] \in Nat
    BY <1>3, <1>13, <1>14
  <2>3. QED
    BY <2>1, <2>2
<1>16. PaperTypes'
  BY <1>3, <1>8, <1>10, <1>11, <1>12, <1>15 DEF PaperTypes
<1>17. balance' = opening' + Paper!CashIn(orders)'
  <2>1. PICK sum, sum2 : sum = Paper!CashIn(book) /\ sum2 = Paper!CashIn(next)
    OBVIOUS
  <2>2. sum2 = cash + sum /\ balance = opening + sum /\ balance' = balance + cash
    BY <1>8, <1>10, <1>11, <2>1 DEF PaperInv
  <2>3. sum \in Int
    BY <1>9, <2>1, SumFacts, PaperSums DEF Ints, Paper!FilledIn
  <2>4. balance' = opening' + sum2
    BY <1>3, <1>5, <1>11, <2>2, <2>3
  <2>5. QED
    BY <1>8, <2>1, <2>4
<1>18. ASSUME NEW c \in Coins PROVE paper_positions'[c] = Paper!SharesIn(orders, c)'
  <2>1. PICK sum, sum2 : sum = Paper!SharesIn(book, c) /\ sum2 = Paper!SharesIn(next, c)
    OBVIOUS
  <2>2. paper_positions[c] = sum /\ sum \in Int
    BY <1>3, <1>8, <2>1 DEF PaperInv
  <2>3. sum2 = IF c = o.symbol THEN moved + sum ELSE sum
    BY <1>10, <2>1
  <2>4. paper_positions'[c] = sum2
    <3>1. PICK old, new : old = paper_positions[c] /\ new = paper_positions'[c]
      OBVIOUS
    <3>2. old = sum /\ new = IF c = o.symbol THEN old + moved ELSE old
      BY <1>14, <2>2, <3>1
    <3>3. new = sum2
      BY <2>2, <2>3, <3>2
    <3>4. QED
      BY <3>1, <3>3
  <2>5. QED
    BY <1>8, <2>1, <2>4
<1>19. QED
  BY <1>12, <1>16, <1>17, <1>18 DEF PaperInv

LEMMA PaperCancelled ==
  ASSUME PaperInv, Paper!CancelOrder
  PROVE  PaperInv'
<1>1. PICK id \in DOMAIN orders : orders' = [orders EXCEPT ![id].status = "cancelled"]
  BY DEF Paper!CancelOrder
<1>2. UNCHANGED <<paper_positions, balance, rate, opening>>
  BY DEF Paper!CancelOrder
<1>3. PICK book, next : book = orders /\ next = orders'
  OBVIOUS
<1>4. book \in Seq(EntryType) /\ next = [book EXCEPT ![id].status = "cancelled"]
      /\ id \in DOMAIN book
  BY <1>1, <1>3 DEF PaperInv, PaperTypes
<1>5. PICK e : e = [book[id] EXCEPT !.status = "cancelled"]
  OBVIOUS
<1>6. book[id] \in EntryType /\ next = [book EXCEPT ![id] = e]
  BY <1>4, <1>5
<1>7. /\ e \in EntryType /\ e.order = book[id].order /\ e.filled = book[id].filled
      /\ e.rate = book[id].rate
  BY <1>5, <1>6 DEF EntryType
<1>8. /\ next \in Seq(EntryType) /\ DOMAIN next = DOMAIN book /\ next[id] = e
      /\ \A y \in DOMAIN book : y # id => next[y] = book[y]
  BY <1>4, <1>6, <1>7
<1>9. SameSums(book, next)
  BY <1>4, <1>7, <1>8, StatusReplaced
<1>10. Paper!CashIn(orders)' = Paper!CashIn(orders)
       /\ \A c : Paper!SharesIn(orders, c)' = Paper!SharesIn(orders, c)
  BY <1>3, <1>9 DEF SameSums
<1>11. QED
  BY <1>2, <1>3, <1>8, <1>10 DEF PaperInv, PaperTypes

LEMMA PaperStep ==
  ASSUME PaperInv, [Paper!Next]_(Paper!vars)
  PROVE  PaperInv'
<1>1. CASE UNCHANGED Paper!vars
  <2>1. /\ orders' = orders /\ paper_positions' = paper_positions
        /\ balance' = balance /\ rate' = rate /\ opening' = opening
    BY <1>1 DEF Paper!vars
  <2>2. QED
    BY <2>1 DEF PaperInv, PaperTypes
<1>2. CASE Paper!SubmitOrder
  <2>1. PICK o \in PaperOrders : Paper!Pend(o) \/ Paper!RejectMarket(o) \/ Paper!FillMarket(o)
    BY <1>2 DEF Paper!SubmitOrder
  <2>2. CASE Paper!Pend(o)
    BY <2>2, PaperUnfilled DEF Paper!Pend
  <2>3. CASE Paper!RejectMarket(o)
    BY <2>3, PaperUnfilled DEF Paper!RejectMarket
  <2>4. CASE Paper!FillMarket(o)
    BY <2>4, PaperFilled
  <2>5. QED
    BY <2>1, <2>2, <2>3, <2>4
<1>3. CASE Paper!CancelOrder
  BY <1>3, PaperCancelled
<1>4. CASE Paper!SetRates
  <2>1. /\ orders' = orders /\ paper_positions' = paper_positions
        /\ balance' = balance /\ rate' \in Rates /\ opening' = opening
    BY <1>4 DEF Paper!SetRates
  <2>2. QED
    BY <2>1 DEF PaperInv, PaperTypes
<1>5. CASE Paper!Reset
  <2>1. /\ orders' = <<>> /\ paper_positions' = [s \in Coins |-> 0]
        /\ opening' \in Balances /\ balance' = opening' /\ rate' = rate
    BY <1>5 DEF Paper!Reset
  <2>2. opening' \in Int
    BY <2>1, PaperConstants
  <2>3. PaperTypes'
    BY <2>1, <2>2 DEF PaperInv, PaperTypes
  <2>4. QED
    BY <2>1, <2>2, <2>3, NoOrders DEF PaperInv
<1>6. QED
  BY <1>1, <1>2, <1>3, <1>4, <1>5 DEF Paper!Next

LEMMA PaperImplies ==
  ASSUME PaperInv
  PROVE  Paper!TypeOK /\ Paper!LedgerReconstructs
<1>1. Paper!TypeOK
  BY DEF PaperInv, PaperTypes, EntryType, Paper!TypeOK
<1>2. Paper!LedgerReconstructs
  BY DEF PaperInv, PaperTypes, Paper!LedgerReconstructs
<1>3. QED
  BY <1>1, <1>2

----------------------------------------------------------------------------
(***************************************************************************)
(* What is left of the types.                                              *)
(***************************************************************************)
QueueRest == c_item \in Items /\ p_size \in Queue!Slots /\ pushes \in Nat /\ pops \in Nat

LEMMA QueueRestInit == Queue!Init => QueueRest
<1> SUFFICES ASSUME Queue!Init PROVE QueueRest
  OBVIOUS
<1>1. 0 \in Queue!Slots
  BY CapacityType DEF Queue!Slots
<1>2. buffer[0] \in Items
  BY <1>1 DEF Queue!Init
<1>3. QED
  BY <1>1, <1>2 DEF Queue!Init, QueueRest

LEMMA QueueRestStep ==
  ASSUME RingTypes, QueueRest, [Queue!Next]_(Queue!vars)
  PROVE  QueueRest'
<1>1. \A n \in Nat : n + 1 \in Nat
  OBVIOUS
<1>2. CASE Queue!PushCall \/ Queue!PushLoad \/ Queue!PushWrite \/ Queue!PushStore
  BY <1>1, <1>2 DEF QueueRest, Queue!PushCall, Queue!PushLoad, Queue!PushWrite,
     Queue!PushStore, Queue!consumerVars, Queue!sizeVars
<1>3. CASE Queue!SizeLoadHead
  BY <1>3 DEF QueueRest, Queue!SizeLoadHead, Queue!consumerVars
<1>4. CASE Queue!SizeLoadTail
  <2>1. Queue!Distance(p_head, tail) \in Queue!Slots
    BY DistanceFacts DEF RingTypes, Queue!Slots
  <2>2. QED
    BY <1>4, <2>1 DEF QueueRest, Queue!SizeLoadTail, Queue!consumerVars
<1>5. CASE Queue!PopLoad \/ Queue!PopStore
  BY <1>1, <1>5 DEF QueueRest, Queue!PopLoad, Queue!PopStore, Queue!producerVars, Queue!sizeVars
<1>6. CASE Queue!PopRead
  <2>1. buffer[head] \in Items
    BY DEF RingTypes
  <2>2. QED
    BY <1>6, <2>1 DEF QueueRest, Queue!PopRead, Queue!producerVars, Queue!sizeVars
<1>7. CASE UNCHANGED Queue!vars
  BY <1>7 DEF QueueRest, Queue!vars, Queue!producerVars, Queue!consumerVars, Queue!sizeVars
<1>8. QED
  BY <1>2, <1>3, <1>4, <1>5, <1>6, <1>7 DEF Queue!Next

MarketRest == subscribers \in Nat /\ tick \in Seq(Market!TickType)

LEMMA MarketRestStep ==
  ASSUME CacheTypes, MarketRest, [Market!Next]_(Market!vars)
  PROVE  MarketRest'
<1>1. CASE Market!OnTick
  <2>1. PICK s \in Symbols : tick' = <<[symbol |-> s, at |-> uses + 1]>>
    BY <1>1 DEF Market!OnTick
  <2>2. uses + 1 \in Nat
    BY DEF CacheTypes
  <2>3. [symbol |-> s, at |-> uses + 1] \in Market!TickType
    BY <2>2 DEF Market!TickType
  <2>4. QED
    BY <1>1, <2>1, <2>3 DEF MarketRest, Market!OnTick
<1>2. CASE Market!NotifySubscribers \/ Market!Subscribe
  <2>1. <<>> \in Seq(Market!TickType) /\ 1 \in Nat
    OBVIOUS
  <2>2. QED
    BY <1>2, <2>1 DEF MarketRest, Market!NotifySubscribers, Market!Subscribe
<1>3. CASE Market!StoreTick \/ Market!ClearCache \/ Market!ClearRest
  BY <1>3 DEF MarketRest, Market!StoreTick, Market!ClearCache, Market!ClearRest
<1>4. ASSUME NEW s \in Symbols,
             Market!GetLastTick(s) \/ Market!GetLastPrice(s) \/ Market!GetHistory(s, 1)
      PROVE  MarketRest'
  BY <1>4 DEF MarketRest, Market!GetLastTick, Market!GetLastPrice, Market!GetHistory
<1>5. CASE UNCHANGED Market!vars
  BY <1>5 DEF MarketRest, Market!vars
<1>6. QED
  BY <1>1, <1>2, <1>3, <1>4, <1>5 DEF Market!Next

HoursRest == day \in 0 .. 6 /\ promised \in -1 .. 2880 /\ early \in BOOLEAN

LEMMA HoursRestStep ==
  ASSUME HoursInv, HoursRest, [Hours!Next]_(Hours!vars)
  PROVE  HoursRest'
<1>1. minute \in 0 .. 1439 /\ day \in 0 .. 6 /\ promised \in -1 .. 2880 /\ early \in BOOLEAN
  BY DEF HoursInv, HoursTypes, HoursRest
<1>2. CASE Hours!Ask
  <2>1. /\ day' = day /\ ~Hours!IsMarketOpen /\ promised' = (1440 - minute) + 570
    BY <1>2, Times DEF Hours!Ask, Hours!SecondsUntilOpen
  <2>2. early' \in BOOLEAN
    BY <1>2 DEF Hours!Ask
  <2>3. promised' \in -1 .. 2880
    BY <1>1, <2>1
  <2>4. QED
    BY <1>1, <2>1, <2>2, <2>3 DEF HoursRest
<1>3. CASE Hours!Clock
  <2>1. /\ day' = (IF minute + Step < 1440 THEN day ELSE (day + 1) % 7) /\ early' = early
        /\ promised' = IF promised >= Step THEN promised - Step ELSE -1
    BY <1>3, Times DEF Hours!Clock
  <2>2. (day + 1) % 7 \in 0 .. 6
    BY <1>1
  <2>3. day' \in 0 .. 6
    BY <1>1, <2>1, <2>2
  <2>4. promised' \in -1 .. 2880
    <3>1. Step \in 1 .. 30
      BY StepType
    <3>2. CASE promised >= Step
      BY <1>1, <2>1, <3>1, <3>2
    <3>3. CASE ~(promised >= Step)
      <4>1. promised' = -1
        BY <2>1, <3>3
      <4>2. QED
        BY <4>1
    <3>4. QED
      BY <3>2, <3>3
  <2>5. QED
    BY <1>1, <2>1, <2>3, <2>4 DEF HoursRest
<1>4. CASE UNCHANGED Hours!vars
  BY <1>4 DEF HoursRest, Hours!vars
<1>5. QED
  BY <1>2, <1>3, <1>4 DEF Hours!Next

----------------------------------------------------------------------------
(***************************************************************************)
(* The parser's types.                                                     *)
(***************************************************************************)
ConfigInv ==
  /\ file \in Seq(Config!LineType) /\ i \in 0 .. Len(file)
  /\ DOMAIN section_at_indent \subseteq Nat
  /\ pending_list_key = <<>> \/ Len(pending_list_key) = 1
  /\ DOMAIN lists = ListPaths
  /\ phase \in {"parse", "defaults", "create", "done"}

LEMMA ConfigInit == Config!Init => ConfigInv
<1> SUFFICES ASSUME Config!Init PROVE ConfigInv
  OBVIOUS
<1>1. file \in Seq(Config!LineType)
  BY ConfigAssumptions DEF Config!FilesAssumption, Config!Init
<1>2. Len(file) \in Nat
  BY <1>1
<1>3. /\ i = 0 /\ section_at_indent = <<>> /\ pending_list_key = <<>>
      /\ lists = [p \in ListPaths |-> <<>>] /\ phase = "parse"
  BY DEF Config!Init
<1>4. QED
  BY <1>1, <1>2, <1>3 DEF ConfigInv

\* A line is read: it has an indent, and the sections that stay had one.
LEMMA LineRead ==
  ASSUME ConfigInv, NEW kind, Config!Read(kind)
  PROVE  /\ file' = file /\ phase' = phase /\ i' \in 0 .. Len(file)
         /\ Config!Line.indent \in Nat
         /\ DOMAIN Config!OpenSections(Config!Line.indent) \subseteq Nat
<1>1. /\ file \in Seq(Config!LineType) /\ i \in 0 .. Len(file)
      /\ DOMAIN section_at_indent \subseteq Nat
  BY DEF ConfigInv
<1>2. file' = file /\ phase' = phase /\ i' = i + 1 /\ i < Len(file)
  BY DEF Config!Read
<1>3. i + 1 \in 1 .. Len(file)
  BY <1>1, <1>2
<1>4. file[i + 1] \in Config!LineType
  BY <1>1, <1>3
<1>5. Config!Line.indent \in Nat
  BY <1>4 DEF Config!Line, Config!LineType
<1>6. DOMAIN Config!OpenSections(Config!Line.indent) \subseteq DOMAIN section_at_indent
  BY DEF Config!OpenSections, Config!Restrict
<1>7. QED
  BY <1>1, <1>2, <1>3, <1>5, <1>6

LEMMA ConfigStep ==
  ASSUME ConfigInv, [Config!Next]_(Config!vars)
  PROVE  ConfigInv'
<1>1. /\ i \in 0 .. Len(file) /\ DOMAIN section_at_indent \subseteq Nat
      /\ DOMAIN lists = ListPaths
  BY DEF ConfigInv
<1>2. CASE Config!ReadItem
  <2>1. DOMAIN lists' = ListPaths
    BY <1>1, <1>2 DEF Config!ReadItem
  <2>2. QED
    BY <1>2, <2>1, LineRead DEF ConfigInv, Config!ReadItem
<1>3. CASE Config!ReadListKey
  <2>1. \A x : Len(<<x>>) = 1
    OBVIOUS
  <2>2. QED
    BY <1>3, <2>1, LineRead DEF ConfigInv, Config!ReadListKey
<1>4. CASE Config!ReadSection
  <2>1. Config!Read("empty")
    BY <1>4 DEF Config!ReadSection
  <2>2. DOMAIN section_at_indent' \subseteq Nat
    <3>1. PICK open, ind, key :
            /\ open = Config!OpenSections(Config!Line.indent) /\ ind = Config!Line.indent
            /\ key = Config!Line.text
      OBVIOUS
    <3>2. DOMAIN open \subseteq Nat /\ ind \in Nat
      BY <2>1, <3>1, LineRead
    <3>3. section_at_indent' = Config!Entered(open, ind, key)
      BY <1>4, <3>1 DEF Config!ReadSection
    <3>4. QED
      BY <3>2, <3>3 DEF Config!Entered
  <2>3. QED
    BY <1>4, <2>1, <2>2, LineRead DEF ConfigInv, Config!ReadSection
<1>5. CASE Config!ReadInline
  <2>1. DOMAIN lists' = ListPaths
    BY <1>1, <1>5 DEF Config!ReadInline
  <2>2. QED
    BY <1>5, <2>1, LineRead DEF ConfigInv, Config!ReadInline
<1>6. CASE Config!ReadScalar
  BY <1>6, LineRead DEF ConfigInv, Config!ReadScalar
<1>7. CASE Config!ParseEnds \/ Config!CreateStrategies
  BY <1>7 DEF ConfigInv, Config!ParseEnds, Config!CreateStrategies, Config!parserVars
<1>8. CASE Config!ApplyDefaults
  BY <1>8 DEF ConfigInv, Config!ApplyDefaults
<1>9. CASE UNCHANGED Config!vars
  BY <1>9 DEF ConfigInv, Config!vars, Config!parserVars
<1>10. QED
  BY <1>2, <1>3, <1>4, <1>5, <1>6, <1>7, <1>8, <1>9 DEF Config!Next

----------------------------------------------------------------------------
(***************************************************************************)
(* Numbers in order.  The parser sorts indents, the outline sorts lines.   *)
(***************************************************************************)
Rising(q) == \A m, n \in DOMAIN q : m < n => q[m] < q[n]

Below(S, n) == \A x \in S : x < n

Extended(q, c, n) == [k \in 1 .. c + 1 |-> IF k = c + 1 THEN n ELSE q[k]]

LEMMA BelowIsFinite ==
  ASSUME NEW S \in SUBSET Nat, NEW n \in Nat, Below(S, n)
  PROVE  /\ IsFiniteSet(S) /\ Cardinality(S) \in Nat
         /\ IsFiniteSet(S \cup {n}) /\ Cardinality(S \cup {n}) = Cardinality(S) + 1
<1>1. \A x \in S : x <= n
  BY DEF Below
<1>2. IsFiniteSet(S)
  BY <1>1, FS_BoundedSetOfNaturals
<1>3. n \notin S
  BY DEF Below
<1>4. QED
  BY <1>2, <1>3, FS_CardinalityType, FS_AddElement

LEMMA ExtendedRises ==
  ASSUME NEW S \in SUBSET Nat, NEW n \in Nat, Below(S, n), NEW c \in Nat,
         NEW q \in [1 .. c -> S], Rising(q)
  PROVE  Extended(q, c, n) \in [1 .. c + 1 -> S \cup {n}] /\ Rising(Extended(q, c, n))
<1>1. \A k \in 1 .. c + 1 : k # c + 1 => k \in 1 .. c
  OBVIOUS
<1>2. Extended(q, c, n) \in [1 .. c + 1 -> S \cup {n}]
  BY <1>1 DEF Extended
<1>3. ASSUME NEW k \in 1 .. c + 1, NEW m \in 1 .. c + 1, k < m
      PROVE  Extended(q, c, n)[k] < Extended(q, c, n)[m]
  <2>1. k \in 1 .. c /\ Extended(q, c, n)[k] = q[k] /\ q[k] \in S
    BY <1>3 DEF Extended
  <2>2. CASE m = c + 1
    BY <2>1, <2>2 DEF Extended, Below
  <2>3. CASE m # c + 1
    <3>1. m \in 1 .. c /\ Extended(q, c, n)[m] = q[m]
      BY <1>1, <2>3 DEF Extended
    <3>2. QED
      BY <1>3, <2>1, <3>1 DEF Rising
  <2>4. QED
    BY <2>2, <2>3
<1>4. DOMAIN Extended(q, c, n) = 1 .. c + 1
  BY <1>2
<1>5. QED
  BY <1>2, <1>3, <1>4 DEF Rising

\* There is one order, and only one.
LEMMA RisingExists ==
  ASSUME NEW S \in SUBSET Nat, NEW n \in Nat, Below(S, n)
  PROVE  \E q \in [1 .. Cardinality(S) -> S] : Rising(q)
<1> DEFINE Good == {b \in Nat : \A T \in SUBSET Nat :
                      Below(T, b) => \E q \in [1 .. Cardinality(T) -> T] : Rising(q)}
<1>1. 0 \in Good
  <2>1. ASSUME NEW T \in SUBSET Nat, Below(T, 0)
        PROVE  \E q \in [1 .. Cardinality(T) -> T] : Rising(q)
    <3>1. T = {}
      BY <2>1 DEF Below
    <3>2. Cardinality(T) = 0
      BY <3>1, FS_EmptySet
    <3>3. <<>> \in [1 .. Cardinality(T) -> T] /\ Rising(<<>>)
      BY <3>2 DEF Rising
    <3>4. QED
      BY <3>3
  <2>2. QED
    BY <2>1
<1>2. ASSUME NEW b \in Nat, b \in Good PROVE b + 1 \in Good
  <2>1. ASSUME NEW T \in SUBSET Nat, Below(T, b + 1)
        PROVE  \E q \in [1 .. Cardinality(T) -> T] : Rising(q)
    <3> DEFINE R == T \ {b}
    <3>1. R \in SUBSET Nat /\ Below(R, b)
      BY <2>1 DEF Below
    <3>2. PICK q \in [1 .. Cardinality(R) -> R] : Rising(q)
      BY <1>2, <3>1
    <3>3. CASE b \notin T
      <4>1. R = T
        BY <3>3
      <4>2. QED
        BY <3>2, <4>1
    <3>4. CASE b \in T
      <4>1. R \cup {b} = T
        BY <3>4
      <4> HIDE DEF R
      <4>2. Cardinality(R) \in Nat /\ Cardinality(T) = Cardinality(R) + 1
        BY <3>1, <4>1, BelowIsFinite
      <4>3. /\ Extended(q, Cardinality(R), b) \in [1 .. Cardinality(R) + 1 -> R \cup {b}]
            /\ Rising(Extended(q, Cardinality(R), b))
        BY <3>1, <3>2, <4>2, ExtendedRises
      <4>4. QED
        BY <4>1, <4>2, <4>3
    <3>5. QED
      BY <3>3, <3>4
  <2>2. QED
    BY <2>1
<1> HIDE DEF Good
<1>3. n \in Good
  BY <1>1, <1>2, NaturalInduction
<1>4. QED
  BY <1>3 DEF Good

LEMMA RisingUnique ==
  ASSUME NEW S \in SUBSET Nat, NEW n \in Nat, Below(S, n),
         NEW q \in [1 .. Cardinality(S) -> S], Rising(q),
         NEW r \in [1 .. Cardinality(S) -> S], Rising(r)
  PROVE  q = r
<1>1. PICK c \in Nat : c = Cardinality(S) /\ IsFiniteSet(S)
  BY BelowIsFinite
<1>2. ASSUME NEW f \in [1 .. c -> S], Rising(f)
      PROVE  /\ \A x \in S : \E k \in 1 .. c : f[k] = x
             /\ \A k, m \in 1 .. c : f[k] < f[m] => k < m
  <2>1. ASSUME NEW k \in 1 .. c, NEW m \in 1 .. c, ~(k < m)
        PROVE  ~(f[k] < f[m])
    <3>1. k = m \/ m < k
      BY <2>1
    <3>2. f[k] \in Nat /\ f[m] \in Nat /\ (k = m \/ f[m] < f[k])
      BY <1>2, <3>1 DEF Rising
    <3>3. QED
      BY <3>2
  <2>2. \A k, m \in 1 .. c : f[k] = f[m] => k = m
    <3>1. ASSUME NEW k \in 1 .. c, NEW m \in 1 .. c, k # m PROVE f[k] # f[m]
      <4>1. k < m \/ m < k
        BY <3>1
      <4>2. f[k] \in Nat /\ f[m] \in Nat /\ (f[k] < f[m] \/ f[m] < f[k])
        BY <1>2, <4>1 DEF Rising
      <4>3. QED
        BY <4>2
    <3>2. QED
      BY <3>1
  <2>3. f \in Injection(1 .. c, S)
    BY <2>2 DEF Injection, IsInjective
  <2>4. Cardinality(1 .. c) = c
    BY FS_Interval
  <2>5. f \in Surjection(1 .. c, S)
    BY <1>1, <2>3, <2>4, FS_Injection
  <2>6. QED
    BY <2>1, <2>5 DEF Surjection
<1>3. SUFFICES ASSUME {k \in 1 .. c : q[k] # r[k]} # {} PROVE FALSE
  BY <1>1
<1>4. PICK k \in 1 .. c : q[k] # r[k] /\ \A m \in 1 .. c : q[m] # r[m] => k <= m
  <2>1. {m \in 1 .. c : q[m] # r[m]} \in SUBSET Nat
    OBVIOUS
  <2>2. QED
    BY <1>3, <2>1, LeastNatural
<1>5. q[k] \in Nat /\ r[k] \in Nat /\ q[k] \in S /\ r[k] \in S
  BY <1>1
<1>6. CASE q[k] < r[k]
  <2>1. PICK m \in 1 .. c : r[m] = q[k]
    BY <1>1, <1>2, <1>5
  <2>2. m < k
    BY <1>1, <1>2, <1>6, <2>1
  <2>3. q[m] = r[m]
    BY <1>4, <2>2
  <2>4. q[m] < q[k]
    BY <1>1, <2>2 DEF Rising
  <2>5. QED
    BY <1>5, <2>1, <2>3, <2>4
<1>7. CASE r[k] < q[k]
  <2>1. PICK m \in 1 .. c : q[m] = r[k]
    BY <1>1, <1>2, <1>5
  <2>2. m < k
    BY <1>1, <1>2, <1>7, <2>1
  <2>3. q[m] = r[m]
    BY <1>4, <2>2
  <2>4. r[m] < r[k]
    BY <1>1, <2>2 DEF Rising
  <2>5. QED
    BY <1>5, <2>1, <2>3, <2>4
<1>8. QED
  BY <1>4, <1>5, <1>6, <1>7

LEMMA InOrderIs ==
  ASSUME NEW S \in SUBSET Nat, NEW n \in Nat, Below(S, n)
  PROVE  /\ Config!InOrder(S) \in [1 .. Cardinality(S) -> S] /\ Rising(Config!InOrder(S))
         /\ \A q \in [1 .. Cardinality(S) -> S] : Rising(q) => q = Config!InOrder(S)
<1>1. Config!InOrder(S) = CHOOSE q \in [1 .. Cardinality(S) -> S] : Rising(q)
  BY DEF Config!InOrder, Config!Cardinality, Cardinality, Rising
<1>2. Config!InOrder(S) \in [1 .. Cardinality(S) -> S] /\ Rising(Config!InOrder(S))
  BY <1>1, RisingExists
<1>3. QED
  BY <1>2, RisingUnique

\* A number larger than all comes last.
LEMMA InOrderGrows ==
  ASSUME NEW S \in SUBSET Nat, NEW n \in Nat, Below(S, n)
  PROVE  /\ Cardinality(S) \in Nat
         /\ Config!InOrder(S) \in [1 .. Cardinality(S) -> S]
         /\ Config!InOrder(S \cup {n}) = Extended(Config!InOrder(S), Cardinality(S), n)
<1>1. Cardinality(S) \in Nat /\ Cardinality(S \cup {n}) = Cardinality(S) + 1
  BY BelowIsFinite
<1>2. Config!InOrder(S) \in [1 .. Cardinality(S) -> S] /\ Rising(Config!InOrder(S))
  BY InOrderIs
<1>3. S \cup {n} \in SUBSET Nat /\ Below(S \cup {n}, n + 1) /\ n + 1 \in Nat
  BY DEF Below
<1>4. /\ Extended(Config!InOrder(S), Cardinality(S), n) \in [1 .. Cardinality(S) + 1 -> S \cup {n}]
      /\ Rising(Extended(Config!InOrder(S), Cardinality(S), n))
  BY <1>1, <1>2, ExtendedRises
<1>5. QED
  BY <1>1, <1>2, <1>3, <1>4, InOrderIs

LEMMA NothingInOrder == DOMAIN Config!InOrder({}) = {}
<1>1. Below({}, 0) /\ Cardinality({}) = 0
  BY FS_EmptySet DEF Below
<1>2. Config!InOrder({}) \in [1 .. 0 -> {}]
  BY <1>1, InOrderIs
<1>3. QED
  BY <1>2

\* What belongs to the numbers in S, in their order.
Along(S, what) == [m \in DOMAIN Config!InOrder(S) |-> what[Config!InOrder(S)[m]]]

SameOn(S, v, w) == \A x \in S : v[x] = w[x]

OneMore(S, n, w, v) == Along(S \cup {n}, v) = Append(Along(S, w), v[n])

LEMMA AlongGrows ==
  ASSUME NEW S \in SUBSET Nat, NEW n \in Nat, Below(S, n), NEW w, NEW v, SameOn(S, v, w)
  PROVE  OneMore(S, n, w, v)
<1>1. PICK c, q :
        /\ c = Cardinality(S) /\ q = Config!InOrder(S) /\ c \in Nat /\ q \in [1 .. c -> S]
        /\ Config!InOrder(S \cup {n}) = Extended(q, c, n)
  BY InOrderGrows
<1>2. Along(S, w) = [m \in 1 .. c |-> w[q[m]]]
  BY <1>1 DEF Along
<1>3. Along(S \cup {n}, v) = [k \in 1 .. c + 1 |-> v[Extended(q, c, n)[k]]]
  BY <1>1 DEF Along, Extended
<1>4. Append([m \in 1 .. c |-> w[q[m]]], v[n])
        = [k \in 1 .. c + 1 |-> IF k <= c THEN w[q[k]] ELSE v[n]]
  BY <1>1
<1>5. ASSUME NEW k \in 1 .. c + 1
      PROVE  v[Extended(q, c, n)[k]] = IF k <= c THEN w[q[k]] ELSE v[n]
  <2>1. CASE k <= c
    <3>1. k \in 1 .. c /\ k # c + 1
      BY <1>1, <2>1
    <3>2. Extended(q, c, n)[k] = q[k] /\ q[k] \in S
      BY <1>1, <3>1 DEF Extended
    <3>3. v[q[k]] = w[q[k]]
      BY <3>2 DEF SameOn
    <3>4. QED
      BY <2>1, <3>2, <3>3
  <2>2. CASE ~(k <= c)
    <3>1. k = c + 1
      BY <1>1, <2>2
    <3>2. Extended(q, c, n)[k] = n
      BY <3>1 DEF Extended
    <3>3. QED
      BY <2>2, <3>2
  <2>3. QED
    BY <2>1, <2>2
<1>6. QED
  BY <1>2, <1>3, <1>4, <1>5 DEF OneMore

LEMMA AlongNothing == \A w : Along({}, w) = <<>>
  BY NothingInOrder DEF Along

----------------------------------------------------------------------------
(***************************************************************************)
(* The outline of a file.                                                  *)
(***************************************************************************)
LEMMA LineFacts ==
  ASSUME NEW f \in Seq(Config!LineType)
  PROVE  /\ Len(f) \in Nat /\ DOMAIN f = 1 .. Len(f)
         /\ \A j \in DOMAIN f : f[j].indent \in Nat
<1>1. Len(f) \in Nat /\ DOMAIN f = 1 .. Len(f) /\ \A j \in DOMAIN f : f[j] \in Config!LineType
  OBVIOUS
<1>2. \A x \in Config!LineType : x.indent \in Nat
  BY DEF Config!LineType
<1>3. QED
  BY <1>1, <1>2

LEMMA LastIs ==
  ASSUME NEW S \in SUBSET Nat, NEW m \in S, \A x \in S : x <= m
  PROVE  Config!Max(S) = m
<1>1. \A x \in S : (\A y \in S : x >= y) <=> x = m
  OBVIOUS
<1>2. QED
  BY <1>1 DEF Config!Max

LEMMA LastOf ==
  ASSUME NEW n \in Nat, NEW S \in SUBSET (1 .. n), S # {}
  PROVE  Config!Max(S) \in S /\ \A x \in S : x <= Config!Max(S)
<1>1. Config!Max(S) = Ledger!Max(S)
  BY DEF Config!Max, Ledger!Max
<1>2. QED
  BY <1>1, MaxIsMember

\* Parents: the last key before line j that is less indented, or none.
NestedUnder(f, j, p) ==
  /\ p \in 1 .. j - 1 /\ Config!IsKey(f, p) /\ f[p].indent < f[j].indent
  /\ \A k \in 1 .. j - 1 : Config!IsKey(f, k) /\ f[k].indent < f[j].indent => k <= p

OuterMost(f, j) == \A k \in 1 .. j - 1 : Config!IsKey(f, k) => ~(f[k].indent < f[j].indent)

LEMMA ParentIs ==
  ASSUME NEW f \in Seq(Config!LineType), NEW j \in DOMAIN f
  PROVE  \/ Config!Parents(f, j) = {} /\ OuterMost(f, j)
         \/ \E p : Config!Parents(f, j) = {p} /\ NestedUnder(f, j, p)
<1> DEFINE less == {k \in 1 .. j - 1 : Config!IsKey(f, k) /\ f[k].indent < f[j].indent}
<1>1. Config!Parents(f, j) = IF less = {} THEN {} ELSE {Config!Max(less)}
  BY DEF Config!Parents
<1>2. CASE less = {}
  BY <1>1, <1>2 DEF OuterMost
<1>3. CASE less # {}
  <2>1. j - 1 \in Nat
    BY LineFacts
  <2>2. Config!Max(less) \in less /\ \A x \in less : x <= Config!Max(less)
    BY <1>3, <2>1, LastOf
  <2>3. NestedUnder(f, j, Config!Max(less))
    BY <2>2 DEF NestedUnder
  <2>4. QED
    BY <1>1, <1>3, <2>3
<1>4. QED
  BY <1>2, <1>3

\* The path of a key is that of the key it is nested under, and the key.
Longer(f, g, j) ==
  Append(IF Config!Parents(f, j) = {} THEN <<>> ELSE g[CHOOSE k \in Config!Parents(f, j) : TRUE],
         f[j].text)

LEMMA LongerNeedsParents ==
  ASSUME NEW f \in Seq(Config!LineType), NEW j \in DOMAIN f, NEW g, NEW h,
         \A k \in 1 .. j - 1 : g[k] = h[k]
  PROVE  Longer(f, g, j) = Longer(f, h, j)
<1>1. CASE Config!Parents(f, j) = {}
  BY <1>1 DEF Longer
<1>2. CASE Config!Parents(f, j) # {}
  <2>1. PICK p : Config!Parents(f, j) = {p} /\ NestedUnder(f, j, p)
    BY <1>2, ParentIs
  <2>2. (CHOOSE k \in Config!Parents(f, j) : TRUE) = p
    BY <2>1
  <2>3. g[p] = h[p]
    BY <2>1 DEF NestedUnder
  <2>4. QED
    BY <2>2, <2>3 DEF Longer
<1>3. QED
  BY <1>1, <1>2

\* The recursion of Path goes to earlier lines, so there is a function for it.
LEMMA PathsExist ==
  ASSUME NEW f \in Seq(Config!LineType)
  PROVE  \E g : g = [n \in DOMAIN f |-> Longer(f, g, n)]
<1> DEFINE Good == {m \in Nat : m <= Len(f) => \E g : g = [n \in 1 .. m |-> Longer(f, g, n)]}
<1>1. 0 \in Good
  <2>1. <<>> = [n \in 1 .. 0 |-> Longer(f, <<>>, n)]
    OBVIOUS
  <2>2. QED
    BY <2>1
<1>2. ASSUME NEW m \in Nat, m \in Good PROVE m + 1 \in Good
  <2> SUFFICES ASSUME m + 1 <= Len(f)
               PROVE  \E g : g = [n \in 1 .. m + 1 |-> Longer(f, g, n)]
    OBVIOUS
  <2>1. m <= Len(f)
    BY LineFacts
  <2>2. PICK g : g = [n \in 1 .. m |-> Longer(f, g, n)]
    BY <1>2, <2>1
  <2> DEFINE h == [n \in 1 .. m + 1 |-> Longer(f, g, n)]
  <2>3. \A n \in 1 .. m : h[n] = g[n]
    <3>1. \A n \in 1 .. m : n \in 1 .. m + 1
      OBVIOUS
    <3>2. \A n \in 1 .. m : g[n] = Longer(f, g, n)
      BY <2>2
    <3>3. QED
      BY <3>1, <3>2
  <2>4. ASSUME NEW n \in 1 .. m + 1 PROVE h[n] = Longer(f, h, n)
    <3> HIDE DEF h
    <3>1. n \in DOMAIN f /\ \A k \in 1 .. n - 1 : k \in 1 .. m
      BY LineFacts
    <3>2. \A k \in 1 .. n - 1 : g[k] = h[k]
      BY <2>3, <3>1
    <3>3. Longer(f, g, n) = Longer(f, h, n)
      BY <3>1, <3>2, LongerNeedsParents
    <3>4. QED
      BY <3>3 DEF h
  <2>5. h = [n \in 1 .. m + 1 |-> h[n]]
    OBVIOUS
  <2> HIDE DEF h
  <2>6. h = [n \in 1 .. m + 1 |-> Longer(f, h, n)]
    BY <2>4, <2>5
  <2>7. QED
    BY <2>6
<1>3. Len(f) \in Good
  <2> HIDE DEF Good
  <2>1. QED
    BY <1>1, <1>2, LineFacts, NaturalInduction
<1>4. QED
  BY <1>3, LineFacts

LEMMA PathIs ==
  ASSUME NEW f \in Seq(Config!LineType), NEW j \in DOMAIN f
  PROVE  /\ Config!Parents(f, j) = {} => Config!Path(f, j) = Append(<<>>, f[j].text)
         /\ \A p : Config!Parents(f, j) = {p} =>
                     Config!Path(f, j) = Append(Config!Path(f, p), f[j].text)
<1> DEFINE g == CHOOSE g : g = [n \in DOMAIN f |-> Longer(f, g, n)]
<1>1. \A k : Config!Path(f, k) = g[k]
  BY DEF Config!Path, Longer
<1> HIDE DEF g
<1>2. g = [n \in DOMAIN f |-> Longer(f, g, n)]
  BY PathsExist DEF g
<1>3. g[j] = Longer(f, g, j)
  BY <1>2
<1>4. QED
  BY <1>1, <1>3 DEF Longer

\* The head of the list an item is in.
Heads(f, h, j) ==
  /\ h \in 1 .. j - 1 /\ Config!HeadsList(f, h)
  /\ \A n \in h + 1 .. j : ~Config!IsKey(f, n) /\ f[h].indent < f[n].indent

LEMMA ItemHasHead ==
  ASSUME NEW f \in Seq(Config!LineType), Config!WellFormed(f),
         NEW j \in DOMAIN f, ~Config!IsKey(f, j)
  PROVE  \E h : Heads(f, h, j)
<1> DEFINE Good == {m \in Nat : m \in DOMAIN f /\ ~Config!IsKey(f, m) => \E h : Heads(f, h, m)}
<1>1. 0 \in Good
  BY LineFacts
<1>2. ASSUME NEW m \in Nat, m \in Good PROVE m + 1 \in Good
  <2> SUFFICES ASSUME m + 1 \in DOMAIN f, ~Config!IsKey(f, m + 1)
               PROVE  \E h : Heads(f, h, m + 1)
    OBVIOUS
  <2>1. (m + 1) - 1 = m
    OBVIOUS
  <2>2. /\ m + 1 > 1
        /\ IF Config!IsKey(f, m)
             THEN Config!HeadsList(f, m) /\ f[m + 1].indent > f[m].indent
             ELSE f[m + 1].indent = f[m].indent
    BY <2>1 DEF Config!WellFormed
  <2>3. m \in DOMAIN f
    BY <2>2, LineFacts
  <2>4. f[m].indent \in Nat /\ f[m + 1].indent \in Nat
    BY <2>3, LineFacts
  <2>5. CASE Config!IsKey(f, m)
    <3>1. \A n \in m + 1 .. m + 1 : n = m + 1
      OBVIOUS
    <3>2. m \in 1 .. (m + 1) - 1
      BY <2>2
    <3>3. Heads(f, m, m + 1)
      BY <2>2, <2>4, <2>5, <3>1, <3>2 DEF Heads
    <3>4. QED
      BY <3>3
  <2>6. CASE ~Config!IsKey(f, m)
    <3>1. PICK h : Heads(f, h, m)
      BY <1>2, <2>3, <2>6
    <3>2. h \in 1 .. m - 1 /\ f[h].indent < f[m].indent
      BY <2>3, <3>1, LineFacts DEF Heads
    <3>3. \A n \in h + 1 .. m + 1 : n \in h + 1 .. m \/ n = m + 1
      BY <3>2
    <3>4. h \in 1 .. (m + 1) - 1 /\ f[h].indent < f[m + 1].indent
      BY <2>2, <2>6, <3>2
    <3>5. Heads(f, h, m + 1)
      BY <3>1, <3>3, <3>4 DEF Heads
    <3>6. QED
      BY <3>5
  <2>7. QED
    BY <2>5, <2>6
<1> HIDE DEF Good
<1>3. j \in Good
  BY <1>1, <1>2, LineFacts, NaturalInduction
<1>4. QED
  BY <1>3 DEF Good

----------------------------------------------------------------------------
\* The sections that are open around line j, and after it.
Section(f, k) == f[k].kind = "empty" /\ ~Config!HeadsList(f, k)

Around(f, j) ==
  {k \in 1 .. j - 1 : Section(f, k) /\ \A n \in k + 1 .. j : f[k].indent < f[n].indent}

OpenAfter(f, j) ==
  {k \in 1 .. j : Section(f, k) /\ \A n \in k + 1 .. j : f[k].indent < f[n].indent}

\* Their keys by their indents, as section_at_indent has them.
Indents(f, K) == {f[k].indent : k \in K}
Named(f, K) == [x \in Indents(f, K) |-> f[CHOOSE k \in K : f[k].indent = x].text]

Deepening(f, K) == \A k, m \in K : k < m => f[k].indent < f[m].indent

LEMMA OpenDeepens ==
  ASSUME NEW f \in Seq(Config!LineType), NEW j \in Nat, j <= Len(f)
  PROVE  /\ OpenAfter(f, j) \subseteq DOMAIN f /\ Deepening(f, OpenAfter(f, j))
         /\ Around(f, j) \subseteq DOMAIN f /\ Deepening(f, Around(f, j))
         /\ OpenAfter(f, 0) = {}
<1>1. \A k \in 1 .. j : k \in DOMAIN f
  BY LineFacts
<1>2. \A k \in 1 .. j, m \in 1 .. j : k < m => m \in k + 1 .. j
  OBVIOUS
<1>3. \A k \in 1 .. j - 1 : k \in 1 .. j
  OBVIOUS
<1>4. QED
  BY <1>1, <1>2, <1>3 DEF OpenAfter, Around, Deepening

\* Open sections are deeper and deeper, so no two have one indent.
LEMMA NamedAt ==
  ASSUME NEW f \in Seq(Config!LineType), NEW K \in SUBSET (DOMAIN f), Deepening(f, K)
  PROVE  \A k \in K : Named(f, K)[f[k].indent] = f[k].text
<1>1. ASSUME NEW k \in K, NEW m \in K, f[k].indent = f[m].indent PROVE k = m
  <2>1. k \in Nat /\ m \in Nat /\ f[k].indent \in Nat /\ f[m].indent \in Nat
    BY LineFacts
  <2>2. ~(f[k].indent < f[m].indent) /\ ~(f[m].indent < f[k].indent)
    BY <1>1, <2>1
  <2>3. ~(k < m) /\ ~(m < k)
    BY <2>2 DEF Deepening
  <2>4. QED
    BY <2>1, <2>3
<1>2. ASSUME NEW k \in K PROVE Named(f, K)[f[k].indent] = f[k].text
  <2>1. f[k].indent \in Indents(f, K)
    BY DEF Indents
  <2>2. (CHOOSE m \in K : f[m].indent = f[k].indent) = k
    BY <1>1
  <2>3. QED
    BY <2>1, <2>2 DEF Named
<1>3. QED
  BY <1>2

\* Named is the only map with these keys at these indents.
LEMMA NamedOnly ==
  ASSUME NEW f \in Seq(Config!LineType), NEW K \in SUBSET (DOMAIN f), Deepening(f, K),
         NEW map, map = [x \in Indents(f, K) |-> map[x]],
         \A k \in K : map[f[k].indent] = f[k].text
  PROVE  map = Named(f, K)
<1>1. \A x \in Indents(f, K) : map[x] = Named(f, K)[x]
  BY NamedAt DEF Indents
<1>2. Named(f, K) = [x \in Indents(f, K) |-> Named(f, K)[x]]
  BY DEF Named
<1>3. QED
  BY <1>1, <1>2

\* Line j leaves the sections that are not less indented.
Kept(map, x) == Config!Restrict(map, {n \in DOMAIN map : n < x})

LEMMA KeepsAround ==
  ASSUME NEW f \in Seq(Config!LineType), NEW j \in DOMAIN f
  PROVE  Kept(Named(f, OpenAfter(f, j - 1)), f[j].indent) = Named(f, Around(f, j))
<1> DEFINE old == OpenAfter(f, j - 1)
           new == Around(f, j)
           x == f[j].indent
           map == Named(f, old)
           kept == {n \in DOMAIN map : n < x}
<1>1. j - 1 \in Nat /\ j \in Nat /\ j - 1 <= Len(f) /\ j <= Len(f)
  BY LineFacts
<1>2. /\ old \in SUBSET (DOMAIN f) /\ Deepening(f, old)
      /\ new \in SUBSET (DOMAIN f) /\ Deepening(f, new)
  BY <1>1, OpenDeepens
<1>3. new = {k \in old : f[k].indent < x}
  <2>1. \A k \in 1 .. j - 1 : \A n \in k + 1 .. j : n \in k + 1 .. j - 1 \/ n = j
    BY <1>1
  <2>2. \A k \in 1 .. j - 1 : \A n \in k + 1 .. j - 1 : n \in k + 1 .. j
    BY <1>1
  <2>3. \A k \in 1 .. j - 1 : j \in k + 1 .. j
    BY <1>1
  <2>4. QED
    BY <2>1, <2>2, <2>3 DEF OpenAfter, Around
<1>4. DOMAIN map = Indents(f, old)
  BY DEF Named
<1>5. kept = Indents(f, new)
  BY <1>3, <1>4 DEF Indents
<1>6. Kept(map, x) = [n \in kept |-> map[n]]
  BY DEF Kept, Config!Restrict
<1>7. \A k \in new : Kept(map, x)[f[k].indent] = f[k].text
  <2>1. \A k \in new : f[k].indent \in kept /\ k \in old
    BY <1>3, <1>5 DEF Indents
  <2>2. \A k \in old : map[f[k].indent] = f[k].text
    BY <1>2, NamedAt
  <2>3. QED
    BY <1>6, <2>1, <2>2
<1>8. Kept(map, x) = [n \in Indents(f, new) |-> Kept(map, x)[n]]
  BY <1>5, <1>6
<1> HIDE DEF old, new, x, map, kept
<1>9. Kept(map, x) = Named(f, new)
  BY <1>2, <1>7, <1>8, NamedOnly
<1>10. QED
  BY <1>9 DEF old, new, x, map

\* Line j opens a section if it is one.
LEMMA OpensIfSection ==
  ASSUME NEW f \in Seq(Config!LineType), NEW j \in DOMAIN f
  PROVE  OpenAfter(f, j) = IF Section(f, j) THEN Around(f, j) \cup {j} ELSE Around(f, j)
<1>1. j \in Nat /\ j >= 1
  BY LineFacts
<1>2. \A k : k \in 1 .. j <=> k \in 1 .. j - 1 \/ k = j
  BY <1>1
<1>3. ~(\E n \in j + 1 .. j : TRUE)
  BY <1>1
<1>4. QED
  BY <1>2, <1>3 DEF OpenAfter, Around

LEMMA EntersSection ==
  ASSUME NEW f \in Seq(Config!LineType), NEW j \in DOMAIN f, Section(f, j)
  PROVE  Config!Entered(Named(f, Around(f, j)), f[j].indent, f[j].text) = Named(f, OpenAfter(f, j))
<1> DEFINE old == Around(f, j)
           new == OpenAfter(f, j)
           x == f[j].indent
           map == Config!Entered(Named(f, old), x, f[j].text)
<1>1. j \in Nat /\ j <= Len(f)
  BY LineFacts
<1>2. /\ old \in SUBSET (DOMAIN f) /\ Deepening(f, old)
      /\ new \in SUBSET (DOMAIN f) /\ Deepening(f, new)
  BY <1>1, OpenDeepens
<1>3. new = old \cup {j}
  BY OpensIfSection
<1>4. DOMAIN Named(f, old) = Indents(f, old)
  BY DEF Named
<1>5. map = [n \in Indents(f, old) \cup {x} |-> IF n = x THEN f[j].text ELSE Named(f, old)[n]]
  BY <1>4 DEF Config!Entered
<1>6. Indents(f, old) \cup {x} = Indents(f, new)
  BY <1>3 DEF Indents
<1>7. \A k \in new : map[f[k].indent] = f[k].text
  <2>1. map[x] = f[j].text
    BY <1>5
  <2>2. ASSUME NEW k \in old PROVE map[f[k].indent] = f[k].text
    <3>1. f[k].indent \in Indents(f, old)
      BY DEF Indents
    <3>2. f[k].indent # x
      <4>1. j \in k + 1 .. j
        BY <1>1 DEF Around
      <4>2. f[k].indent < x
        BY <4>1 DEF Around
      <4>3. k \in DOMAIN f
        BY <1>2
      <4>4. QED
        BY <4>2, <4>3, LineFacts
    <3>3. Named(f, old)[f[k].indent] = f[k].text
      BY <1>2, NamedAt
    <3>4. QED
      BY <1>5, <3>1, <3>2, <3>3
  <2>3. QED
    BY <1>3, <2>1, <2>2
<1>8. map = [n \in Indents(f, new) |-> map[n]]
  BY <1>5, <1>6
<1> HIDE DEF old, new, x, map
<1>9. map = Named(f, new)
  BY <1>2, <1>7, <1>8, NamedOnly
<1>10. QED
  BY <1>9 DEF old, new, x, map

\* In a well formed file what is open around a key is what is open around the
\* key it is nested under, and that one.
LEMMA AroundKey ==
  ASSUME NEW f \in Seq(Config!LineType), Config!WellFormed(f),
         NEW j \in DOMAIN f, Config!IsKey(f, j)
  PROVE  /\ Config!Parents(f, j) = {} => Around(f, j) = {}
         /\ \A p : Config!Parents(f, j) = {p} =>
                     /\ p \in DOMAIN f /\ p < j /\ Section(f, p) /\ Config!IsKey(f, p)
                     /\ Around(f, j) = OpenAfter(f, p)
<1>1. j \in Nat /\ j >= 1 /\ j <= Len(f) /\ \A k \in 1 .. j : k \in DOMAIN f /\ f[k].indent \in Nat
  BY LineFacts
<1>2. ASSUME NEW k \in Around(f, j)
      PROVE  k \in 1 .. j - 1 /\ Config!IsKey(f, k) /\ f[k].indent < f[j].indent
  <2>1. k \in 1 .. j - 1 /\ j \in k + 1 .. j
    BY <1>1 DEF Around
  <2>2. QED
    BY <2>1 DEF Around, Section, Config!IsKey
<1>3. ASSUME Config!Parents(f, j) = {} PROVE Around(f, j) = {}
  <2>1. OuterMost(f, j)
    BY <1>3, ParentIs
  <2>2. QED
    BY <1>2, <2>1 DEF OuterMost
<1>4. ASSUME NEW p, Config!Parents(f, j) = {p}
      PROVE  /\ p \in DOMAIN f /\ p < j /\ Section(f, p) /\ Config!IsKey(f, p)
             /\ Around(f, j) = OpenAfter(f, p)
  <2>1. NestedUnder(f, j, p)
    BY <1>4, ParentIs
  <2>2. p \in 1 .. j - 1 /\ p \in DOMAIN f /\ p < j /\ f[p].indent < f[j].indent
    BY <1>1, <2>1 DEF NestedUnder
  <2>3. Section(f, p) /\ Config!IsKey(f, p)
    BY <1>4, <2>1 DEF NestedUnder, Section, Config!WellFormed
  <2>4. ASSUME NEW n \in p + 1 .. j PROVE f[p].indent < f[n].indent
    <3>1. ASSUME NEW k \in p + 1 .. j, Config!IsKey(f, k) PROVE f[p].indent < f[k].indent
      <4>1. CASE k = j
        BY <2>2, <4>1
      <4>2. CASE k # j
        <5>1. k \in 1 .. j - 1 /\ ~(k <= p) /\ k \in 1 .. j
          BY <2>2, <4>2
        <5>2. ~(f[k].indent < f[j].indent)
          BY <2>1, <3>1, <5>1 DEF NestedUnder
        <5>3. f[k].indent \in Nat /\ f[j].indent \in Nat /\ f[p].indent \in Nat
          BY <1>1, <2>2, <5>1
        <5>4. QED
          BY <2>2, <5>2, <5>3
      <4>3. QED
        BY <4>1, <4>2
    <3>2. CASE Config!IsKey(f, n)
      BY <3>1, <3>2
    <3>3. CASE ~Config!IsKey(f, n)
      <4>1. n \in 1 .. j /\ n \in DOMAIN f /\ p < n
        BY <1>1, <2>2
      <4>2. PICK h : Heads(f, h, n)
        BY <3>3, <4>1, ItemHasHead
      <4>3. h \in 1 .. n - 1 /\ Config!HeadsList(f, h) /\ f[h].indent < f[n].indent
        <5>1. h \in 1 .. n - 1 /\ n \in h + 1 .. n
          BY <4>1, <4>2 DEF Heads
        <5>2. QED
          BY <4>2, <5>1 DEF Heads
      <4>4. h # p
        BY <2>3, <4>3 DEF Section
      <4>5. ~(h < p)
        <5>1. h < p => p \in h + 1 .. n
          BY <2>2, <4>1, <4>3
        <5>2. QED
          BY <2>3, <4>2, <5>1 DEF Heads
      <4>6. h \in p + 1 .. j /\ h \in 1 .. j
        BY <2>2, <4>1, <4>3, <4>4, <4>5
      <4>7. Config!IsKey(f, h)
        BY <4>3 DEF Config!HeadsList, Config!IsKey
      <4>8. f[p].indent < f[h].indent
        BY <3>1, <4>6, <4>7
      <4>9. f[p].indent \in Nat /\ f[h].indent \in Nat /\ f[n].indent \in Nat
        BY <1>1, <2>2, <4>1, <4>6
      <4>10. QED
        BY <4>3, <4>8, <4>9
    <3>4. QED
      BY <3>2, <3>3
  <2>5. ASSUME NEW k \in Around(f, j) PROVE k \in OpenAfter(f, p)
    <3>1. k \in 1 .. j - 1 /\ k <= p
      BY <1>2, <2>1 DEF NestedUnder
    <3>2. k \in 1 .. p /\ \A n \in k + 1 .. p : n \in k + 1 .. j
      BY <2>2, <3>1
    <3>3. QED
      BY <3>2 DEF Around, OpenAfter
  <2>6. ASSUME NEW k \in OpenAfter(f, p) PROVE k \in Around(f, j)
    <3>1. k \in 1 .. p /\ k \in 1 .. j - 1 /\ k \in 1 .. j
      BY <2>2 DEF OpenAfter
    <3>2. ASSUME NEW n \in k + 1 .. j PROVE f[k].indent < f[n].indent
      <4>1. CASE n <= p
        <5>1. n \in k + 1 .. p
          BY <2>2, <3>1, <4>1
        <5>2. QED
          BY <5>1 DEF OpenAfter
      <4>2. CASE ~(n <= p)
        <5>1. n \in p + 1 .. j /\ n \in 1 .. j
          BY <2>2, <3>1, <4>2
        <5>2. f[p].indent < f[n].indent
          BY <2>4, <5>1
        <5>3. f[k].indent \in Nat /\ f[p].indent \in Nat /\ f[n].indent \in Nat
          BY <1>1, <2>2, <3>1, <5>1
        <5>4. k = p \/ f[k].indent < f[p].indent
          <6>1. k = p \/ p \in k + 1 .. p
            BY <2>2, <3>1
          <6>2. QED
            BY <6>1 DEF OpenAfter
        <5>5. QED
          BY <5>2, <5>3, <5>4
      <4>3. QED
        BY <4>1, <4>2
    <3>3. QED
      BY <3>1, <3>2 DEF OpenAfter, Around
  <2>7. QED
    BY <2>2, <2>3, <2>5, <2>6
<1>5. QED
  BY <1>3, <1>4

\* A key deeper than all others comes last.
LEMMA AlongEntered ==
  ASSUME NEW outer, NEW x \in Nat, DOMAIN outer \in SUBSET Nat, Below(DOMAIN outer, x),
         NEW text, NEW open, open = Config!Entered(outer, x, text)
  PROVE  Along(DOMAIN open, open) = Append(Along(DOMAIN outer, outer), text)
<1>1. open = [n \in DOMAIN outer \cup {x} |-> IF n = x THEN text ELSE outer[n]]
  BY DEF Config!Entered
<1>2. DOMAIN open = DOMAIN outer \cup {x} /\ open[x] = text
  BY <1>1
<1>3. SameOn(DOMAIN outer, open, outer)
  BY <1>1 DEF Below, SameOn
<1>4. OneMore(DOMAIN outer, x, outer, open)
  BY <1>3, AlongGrows
<1>5. QED
  BY <1>2, <1>4 DEF OneMore

\* current_prefix and the key: the path.
LEMMA FullKeyIsPath ==
  ASSUME NEW f \in Seq(Config!LineType), Config!WellFormed(f),
         NEW j \in DOMAIN f, Config!IsKey(f, j)
  PROVE  Config!FullKey(Named(f, Around(f, j)), f[j].text) = Config!Path(f, j)
<1> DEFINE Says(k) == Config!FullKey(Named(f, Around(f, k)), f[k].text) = Config!Path(f, k)
           Good == {n \in Nat : \A k \in DOMAIN f : k <= n /\ Config!IsKey(f, k) => Says(k)}
<1>1. 0 \in Good
  BY LineFacts
<1>2. ASSUME NEW n \in Nat, n \in Good PROVE n + 1 \in Good
  <2>1. ASSUME NEW k \in DOMAIN f, k <= n + 1, Config!IsKey(f, k) PROVE Says(k)
    <3> DEFINE open == Named(f, Around(f, k))
    <3>1. Config!FullKey(open, f[k].text) = Append(Along(DOMAIN open, open), f[k].text)
      BY DEF Config!FullKey, Along
    <3>2. DOMAIN open = Indents(f, Around(f, k))
      BY DEF Named
    <3> HIDE DEF open
    <3>3. CASE Config!Parents(f, k) = {}
      <4>1. DOMAIN open = {}
        BY <2>1, <3>2, <3>3, AroundKey DEF Indents
      <4>2. Along(DOMAIN open, open) = <<>>
        BY <4>1, AlongNothing
      <4>3. QED
        BY <3>1, <3>3, <4>2, PathIs DEF open
    <3>4. ASSUME NEW p, Config!Parents(f, k) = {p} PROVE Says(k)
      <4>1. /\ p \in DOMAIN f /\ p < k /\ Section(f, p) /\ Config!IsKey(f, p)
            /\ Around(f, k) = OpenAfter(f, p)
        BY <2>1, <3>4, AroundKey
      <4>2. Says(p)
        <5>1. p <= n
          BY <2>1, <4>1, LineFacts
        <5>2. QED
          BY <1>2, <4>1, <5>1
      <4> DEFINE outer == Named(f, Around(f, p))
      <4>3. open = Config!Entered(outer, f[p].indent, f[p].text)
        BY <4>1, EntersSection DEF open
      <4>4. DOMAIN outer = Indents(f, Around(f, p))
        BY DEF Named
      <4>5. Config!FullKey(outer, f[p].text) = Append(Along(DOMAIN outer, outer), f[p].text)
        BY DEF Config!FullKey, Along
      <4>6. f[p].indent \in Nat /\ DOMAIN outer \in SUBSET Nat /\ Below(DOMAIN outer, f[p].indent)
        <5>1. f[p].indent \in Nat /\ p \in Nat /\ p <= Len(f)
          BY <4>1, LineFacts
        <5>2. ASSUME NEW m \in Around(f, p) PROVE f[m].indent \in Nat /\ f[m].indent < f[p].indent
          <6>1. m \in DOMAIN f
            BY <5>1, OpenDeepens
          <6>2. p \in m + 1 .. p
            BY <5>1 DEF Around
          <6>3. QED
            BY <6>1, <6>2, LineFacts DEF Around
        <5>3. QED
          BY <4>4, <5>1, <5>2 DEF Indents, Below
      <4> HIDE DEF outer
      <4>7. Along(DOMAIN open, open) = Append(Along(DOMAIN outer, outer), f[p].text)
        BY <4>3, <4>6, AlongEntered
      <4>8. Config!Path(f, p) = Append(Along(DOMAIN outer, outer), f[p].text)
        BY <4>2, <4>5 DEF outer
      <4>9. Config!Path(f, k) = Append(Config!Path(f, p), f[k].text)
        BY <3>4, PathIs
      <4>10. QED
        BY <3>1, <4>7, <4>8, <4>9 DEF open
    <3>5. QED
      BY <3>3, <3>4, ParentIs
  <2>2. QED
    BY <2>1
<1> HIDE DEF Good
<1>3. j \in Nat
  BY LineFacts
<1>4. j \in Good /\ j <= j
  BY <1>1, <1>2, <1>3, NaturalInduction
<1>5. QED
  BY <1>4 DEF Good

----------------------------------------------------------------------------
(***************************************************************************)
(* The parser has read what the lines so far say.                          *)
(***************************************************************************)
Scalars(f, n) == {k \in 1 .. n : f[k].kind = "scalar"}
PathsOf(f, n) == {Config!Path(f, k) : k \in Scalars(f, n)}
LinesFor(f, n, p) == {k \in Scalars(f, n) : Config!Path(f, k) = p}

SettingsRead(f, n, s) ==
  /\ DOMAIN s = PathsOf(f, n)
  /\ \A p \in PathsOf(f, n) : s[p] = f[Config!Max(LinesFor(f, n, p))].value

ListsRead(f, n, l) == \A p \in ListPaths : l[p] = Config!ItemsUnder(f, n, p)

\* The last list can still get items.
PendingIs(f, h, pending) ==
  pending = <<[path |-> Config!Path(f, h), indent |-> f[h].indent]>>

PendingRead(f, n, pending) ==
  \A h \in 1 .. n : Config!HeadsList(f, h) /\ (\A m \in h + 1 .. n : ~Config!IsKey(f, m))
                      => PendingIs(f, h, pending)

LEMMA ScalarsGrow ==
  ASSUME NEW f \in Seq(Config!LineType), NEW n \in Nat, n < Len(f)
  PROVE  /\ n + 1 \in DOMAIN f
         /\ Scalars(f, n) \subseteq 1 .. n
         /\ Scalars(f, n + 1) = IF f[n + 1].kind = "scalar" THEN Scalars(f, n) \cup {n + 1}
                                ELSE Scalars(f, n)
<1>1. n + 1 \in DOMAIN f
  BY LineFacts
<1>2. \A k : k \in 1 .. n + 1 <=> k \in 1 .. n \/ k = n + 1
  OBVIOUS
<1>3. QED
  BY <1>1, <1>2 DEF Scalars

LEMMA OtherSetting ==
  ASSUME NEW f \in Seq(Config!LineType), NEW n \in Nat, n < Len(f), NEW s,
         SettingsRead(f, n, s), f[n + 1].kind # "scalar"
  PROVE  SettingsRead(f, n + 1, s)
<1>1. Scalars(f, n + 1) = Scalars(f, n)
  BY ScalarsGrow
<1>2. PathsOf(f, n + 1) = PathsOf(f, n) /\ \A p : LinesFor(f, n + 1, p) = LinesFor(f, n, p)
  BY <1>1 DEF PathsOf, LinesFor
<1>3. QED
  BY <1>2 DEF SettingsRead

LEMMA SettingEntered ==
  ASSUME NEW f \in Seq(Config!LineType), NEW n \in Nat, n < Len(f), NEW s,
         SettingsRead(f, n, s), f[n + 1].kind = "scalar"
  PROVE  SettingsRead(f, n + 1, Config!Entered(s, Config!Path(f, n + 1), f[n + 1].value))
<1> DEFINE new == Config!Path(f, n + 1)
           t == Config!Entered(s, new, f[n + 1].value)
<1>1. Scalars(f, n + 1) = Scalars(f, n) \cup {n + 1} /\ Scalars(f, n) \subseteq 1 .. n
  BY ScalarsGrow
<1>2. PathsOf(f, n + 1) = PathsOf(f, n) \cup {new}
  BY <1>1 DEF PathsOf
<1>3. t = [p \in PathsOf(f, n) \cup {new} |-> IF p = new THEN f[n + 1].value ELSE s[p]]
  BY DEF Config!Entered, SettingsRead
<1>4. Config!Max(LinesFor(f, n + 1, new)) = n + 1
  <2>1. LinesFor(f, n + 1, new) = LinesFor(f, n, new) \cup {n + 1}
    BY <1>1 DEF LinesFor
  <2>2. LinesFor(f, n, new) \subseteq 1 .. n
    BY <1>1 DEF LinesFor
  <2>3. /\ LinesFor(f, n + 1, new) \in SUBSET Nat /\ n + 1 \in LinesFor(f, n + 1, new)
        /\ \A x \in LinesFor(f, n + 1, new) : x <= n + 1
    BY <2>1, <2>2
  <2>4. QED
    BY <2>3, LastIs
<1>5. \A p \in PathsOf(f, n) : p # new => LinesFor(f, n + 1, p) = LinesFor(f, n, p)
  BY <1>1 DEF LinesFor
<1>6. ASSUME NEW p \in PathsOf(f, n + 1)
      PROVE  t[p] = f[Config!Max(LinesFor(f, n + 1, p))].value
  <2>1. CASE p = new
    BY <1>3, <1>4, <2>1
  <2>2. CASE p # new
    <3>1. p \in PathsOf(f, n) /\ t[p] = s[p]
      BY <1>2, <1>3, <2>2
    <3>2. QED
      BY <1>5, <2>2, <3>1 DEF SettingsRead
  <2>3. QED
    BY <2>1, <2>2
<1>7. DOMAIN t = PathsOf(f, n + 1)
  BY <1>2, <1>3
<1> HIDE DEF t
<1>8. SettingsRead(f, n + 1, t)
  BY <1>6, <1>7 DEF SettingsRead
<1>9. QED
  BY <1>8 DEF t

----------------------------------------------------------------------------
\* The items of a list.
\* Those that Gives says, and of them those ItemsUnder keeps.
Given(f, n, p) == {j \in 1 .. n : Config!Gives(f, j, p)}
Used(f, n, p) == {j \in Given(f, n, p) : \A k \in Given(f, n, p) : f[k].kind = "inline" => j >= k}
Values(f) == [j \in DOMAIN f |-> f[j].value]

LEMMA SameValues == \A S, w : SameOn(S, w, w)
  BY DEF SameOn

LEMMA ItemsAre ==
  ASSUME NEW f \in Seq(Config!LineType), NEW n \in Nat, n <= Len(f), NEW p
  PROVE  /\ Used(f, n, p) \in SUBSET Nat /\ Below(Used(f, n, p), n + 1)
         /\ Config!ItemsUnder(f, n, p) = Along(Used(f, n, p), Values(f))
<1>1. Used(f, n, p) \subseteq 1 .. n
  BY DEF Used, Given
<1>2. \A j \in 1 .. n : j \in DOMAIN f
  BY LineFacts
<1>3. Used(f, n, p) \in SUBSET Nat /\ Below(Used(f, n, p), n + 1)
  BY <1>1 DEF Below
<1> DEFINE order == Config!InOrder(Used(f, n, p))
<1>4. order \in [1 .. Cardinality(Used(f, n, p)) -> Used(f, n, p)]
  BY <1>3, InOrderIs
<1>5. Config!ItemsUnder(f, n, p) = [m \in DOMAIN order |-> f[order[m]].value]
  BY DEF Config!ItemsUnder, Used, Given
<1> HIDE DEF order
<1>6. \A m \in DOMAIN order : f[order[m]].value = Values(f)[order[m]]
  BY <1>1, <1>2, <1>4 DEF Values
<1>7. Along(Used(f, n, p), Values(f)) = [m \in DOMAIN order |-> Values(f)[order[m]]]
  BY DEF Along, order
<1>8. QED
  BY <1>3, <1>5, <1>6, <1>7

LEMMA UsedGrows ==
  ASSUME NEW f \in Seq(Config!LineType), NEW n \in Nat, n < Len(f), NEW p
  PROVE  Used(f, n + 1, p) =
           IF ~Config!Gives(f, n + 1, p) THEN Used(f, n, p)
           ELSE IF f[n + 1].kind = "inline" THEN {n + 1}
           ELSE Used(f, n, p) \cup {n + 1}
<1>1. \A k : k \in 1 .. n + 1 <=> k \in 1 .. n \/ k = n + 1
  OBVIOUS
<1>2. Given(f, n + 1, p) = IF Config!Gives(f, n + 1, p) THEN Given(f, n, p) \cup {n + 1}
                           ELSE Given(f, n, p)
  BY <1>1 DEF Given
<1>3. Given(f, n, p) \subseteq 1 .. n
  BY DEF Given
<1>4. CASE ~Config!Gives(f, n + 1, p)
  BY <1>2, <1>4 DEF Used
<1>5. CASE Config!Gives(f, n + 1, p)
  <2>1. Given(f, n + 1, p) = Given(f, n, p) \cup {n + 1}
    BY <1>2, <1>5
  <2>2. n + 1 \in Used(f, n + 1, p)
    BY <1>3, <2>1 DEF Used
  <2>3. \A j \in Given(f, n, p) : ~(j >= n + 1)
    BY <1>3
  <2>4. CASE f[n + 1].kind = "inline"
    BY <1>5, <2>1, <2>2, <2>3, <2>4 DEF Used
  <2>5. CASE f[n + 1].kind # "inline"
    BY <1>5, <2>1, <2>2, <2>5 DEF Used
  <2>6. QED
    BY <2>4, <2>5
<1>6. QED
  BY <1>4, <1>5

LEMMA ItemsGrow ==
  ASSUME NEW f \in Seq(Config!LineType), NEW n \in Nat, n < Len(f), NEW p
  PROVE  Config!ItemsUnder(f, n + 1, p) =
           IF ~Config!Gives(f, n + 1, p) THEN Config!ItemsUnder(f, n, p)
           ELSE IF f[n + 1].kind = "inline" THEN <<f[n + 1].value>>
           ELSE Append(Config!ItemsUnder(f, n, p), f[n + 1].value)
<1>1. n + 1 \in Nat /\ n + 1 <= Len(f) /\ n <= Len(f) /\ n + 1 \in DOMAIN f
  BY LineFacts
<1>2. /\ Used(f, n, p) \in SUBSET Nat /\ Below(Used(f, n, p), n + 1)
      /\ Config!ItemsUnder(f, n, p) = Along(Used(f, n, p), Values(f))
      /\ Config!ItemsUnder(f, n + 1, p) = Along(Used(f, n + 1, p), Values(f))
  BY <1>1, ItemsAre
<1>3. Values(f)[n + 1] = f[n + 1].value
  BY <1>1 DEF Values
<1>4. Along(Used(f, n, p) \cup {n + 1}, Values(f))
        = Append(Along(Used(f, n, p), Values(f)), f[n + 1].value)
  <2>1. OneMore(Used(f, n, p), n + 1, Values(f), Values(f))
    BY <1>1, <1>2, SameValues, AlongGrows
  <2>2. QED
    BY <1>3, <2>1 DEF OneMore
<1>5. Along({n + 1}, Values(f)) = <<f[n + 1].value>>
  <2>1. {} \in SUBSET Nat /\ Below({}, n + 1)
    BY DEF Below
  <2>2. OneMore({}, n + 1, Values(f), Values(f))
    BY <1>1, <2>1, SameValues, AlongGrows
  <2>3. Along({}, Values(f)) = <<>>
    BY AlongNothing
  <2>4. Append(<<>>, f[n + 1].value) = <<f[n + 1].value>>
    OBVIOUS
  <2>5. QED
    BY <1>3, <2>2, <2>3, <2>4 DEF OneMore
<1>6. QED
  BY <1>2, <1>4, <1>5, UsedGrows

LEMMA GivesKey ==
  ASSUME NEW f \in Seq(Config!LineType), NEW j \in DOMAIN f, Config!IsKey(f, j), NEW p
  PROVE  Config!Gives(f, j, p) <=> f[j].kind = "inline" /\ Config!Path(f, j) = p
<1>1. j \in Nat /\ \A k \in 1 .. j - 1 : j \in k + 1 .. j
  BY LineFacts
<1>2. QED
  BY <1>1 DEF Config!Gives

LEMMA GivesItem ==
  ASSUME NEW f \in Seq(Config!LineType), NEW j \in DOMAIN f, ~Config!IsKey(f, j),
         NEW h, Heads(f, h, j), NEW p
  PROVE  Config!Gives(f, j, p) <=> Config!Path(f, h) = p
<1>1. j \in Nat
  BY LineFacts
<1>2. h \in 1 .. j - 1 /\ Config!HeadsList(f, h) /\ \A n \in h + 1 .. j : ~Config!IsKey(f, n)
  BY DEF Heads
<1>3. f[j].kind # "inline"
  BY DEF Config!IsKey
<1>4. ASSUME NEW k \in 1 .. j - 1, Config!HeadsList(f, k), \A n \in k + 1 .. j : ~Config!IsKey(f, n)
      PROVE  k = h
  <2>1. Config!IsKey(f, k) /\ Config!IsKey(f, h)
    BY <1>2, <1>4 DEF Config!HeadsList, Config!IsKey
  <2>2. ~(h < k)
    <3>1. h < k => k \in h + 1 .. j
      BY <1>1, <1>2
    <3>2. QED
      BY <1>2, <2>1, <3>1
  <2>3. ~(k < h)
    <3>1. k < h => h \in k + 1 .. j
      BY <1>1, <1>2
    <3>2. QED
      BY <1>4, <2>1, <3>1
  <2>4. QED
    BY <1>2, <2>2, <2>3
<1>5. QED
  BY <1>2, <1>3, <1>4 DEF Config!Gives

----------------------------------------------------------------------------
\* A key: the lists change if it is a bracketed one.
LEMMA ListsAtKey ==
  ASSUME NEW f \in Seq(Config!LineType), NEW n \in Nat, n < Len(f), Config!IsKey(f, n + 1),
         NEW l, DOMAIN l = ListPaths, ListsRead(f, n, l)
  PROVE  /\ f[n + 1].kind # "inline" => ListsRead(f, n + 1, l)
         /\ f[n + 1].kind = "inline" =>
              ListsRead(f, n + 1, IF Config!Path(f, n + 1) \in ListPaths
                                    THEN [l EXCEPT ![Config!Path(f, n + 1)] = <<f[n + 1].value>>]
                                    ELSE l)
<1>1. n + 1 \in DOMAIN f
  BY LineFacts
<1>2. \A p : Config!Gives(f, n + 1, p) <=> f[n + 1].kind = "inline" /\ Config!Path(f, n + 1) = p
  BY <1>1, GivesKey
<1>3. \A p : Config!ItemsUnder(f, n + 1, p) =
               IF f[n + 1].kind = "inline" /\ Config!Path(f, n + 1) = p THEN <<f[n + 1].value>>
               ELSE Config!ItemsUnder(f, n, p)
  BY <1>2, ItemsGrow
<1>4. QED
  BY <1>3 DEF ListsRead

\* An item: the list it is in gets it.
LEMMA ListsAtItem ==
  ASSUME NEW f \in Seq(Config!LineType), Config!WellFormed(f), NEW n \in Nat, n < Len(f),
         ~Config!IsKey(f, n + 1), NEW l, DOMAIN l = ListPaths, ListsRead(f, n, l),
         NEW pending, PendingRead(f, n, pending)
  PROVE  ListsRead(f, n + 1,
           IF pending # <<>> /\ f[n + 1].indent > pending[1].indent
              /\ pending[1].path \in ListPaths
             THEN [l EXCEPT ![pending[1].path] = Append(@, f[n + 1].value)] ELSE l)
<1>1. n + 1 \in DOMAIN f /\ (n + 1) - 1 = n
  BY LineFacts
<1>2. PICK h : Heads(f, h, n + 1)
  BY <1>1, ItemHasHead
<1>3. h \in 1 .. n /\ Config!HeadsList(f, h) /\ n + 1 \in h + 1 .. n + 1
  BY <1>1, <1>2 DEF Heads
<1>4. PendingIs(f, h, pending)
  <2>1. \A m \in h + 1 .. n : m \in h + 1 .. n + 1
    BY <1>3
  <2>2. QED
    BY <1>2, <1>3, <2>1 DEF Heads, PendingRead
<1>5. f[h].indent < f[n + 1].indent
  BY <1>2, <1>3 DEF Heads
<1>6. h \in DOMAIN f /\ f[h].indent \in Nat /\ f[n + 1].indent \in Nat
  BY <1>1, <1>3, LineFacts
<1> DEFINE q == Config!Path(f, h)
<1>7. pending # <<>> /\ pending[1].path = q /\ f[n + 1].indent > pending[1].indent
  <2>1. \A x : <<x>> # <<>> /\ <<x>>[1] = x
    OBVIOUS
  <2>2. QED
    BY <1>4, <1>5, <1>6, <2>1 DEF PendingIs
<1>8. \A p : Config!Gives(f, n + 1, p) <=> q = p
  BY <1>1, <1>2, GivesItem
<1>9. f[n + 1].kind # "inline"
  BY DEF Config!IsKey
<1> HIDE DEF q
<1>10. \A p : Config!ItemsUnder(f, n + 1, p) =
                IF q = p THEN Append(Config!ItemsUnder(f, n, p), f[n + 1].value)
                ELSE Config!ItemsUnder(f, n, p)
  BY <1>8, <1>9, ItemsGrow
<1>11. CASE q \in ListPaths
  <2> DEFINE m == [l EXCEPT ![q] = Append(@, f[n + 1].value)]
  <2>1. \A p \in ListPaths : m[p] = IF p = q THEN Append(l[p], f[n + 1].value) ELSE l[p]
    BY <1>11
  <2> HIDE DEF m
  <2>2. ListsRead(f, n + 1, m)
    BY <1>10, <2>1 DEF ListsRead
  <2>3. QED
    BY <1>7, <1>11, <2>2 DEF m
<1>12. CASE q \notin ListPaths
  BY <1>7, <1>10, <1>12 DEF ListsRead
<1>13. QED
  BY <1>11, <1>12

\* What is pending after a line.
LEMMA PendingAfter ==
  ASSUME NEW f \in Seq(Config!LineType), NEW n \in Nat, n < Len(f), NEW pending
  PROVE  /\ ~Config!IsKey(f, n + 1) /\ PendingRead(f, n, pending)
              => PendingRead(f, n + 1, pending)
         /\ Config!HeadsList(f, n + 1) /\ PendingIs(f, n + 1, pending)
              => PendingRead(f, n + 1, pending)
         /\ Config!IsKey(f, n + 1) /\ ~Config!HeadsList(f, n + 1)
              => PendingRead(f, n + 1, pending)
<1>1. \A h : h \in 1 .. n + 1 <=> h \in 1 .. n \/ h = n + 1
  OBVIOUS
<1>2. \A h \in 1 .. n : n + 1 \in h + 1 .. n + 1 /\ \A m \in h + 1 .. n : m \in h + 1 .. n + 1
  OBVIOUS
<1>3. ASSUME Config!IsKey(f, n + 1),
             Config!HeadsList(f, n + 1) => PendingIs(f, n + 1, pending)
      PROVE  PendingRead(f, n + 1, pending)
  BY <1>1, <1>2, <1>3 DEF PendingRead
<1>4. ASSUME ~Config!IsKey(f, n + 1), PendingRead(f, n, pending)
      PROVE  PendingRead(f, n + 1, pending)
  <2>1. ~Config!HeadsList(f, n + 1)
    BY <1>4 DEF Config!IsKey, Config!HeadsList
  <2>2. QED
    BY <1>1, <1>2, <1>4, <2>1 DEF PendingRead
<1>5. Config!HeadsList(f, n + 1) => Config!IsKey(f, n + 1)
  BY DEF Config!IsKey, Config!HeadsList
<1>6. QED
  BY <1>3, <1>4, <1>5

----------------------------------------------------------------------------
\* What has been read after n lines.
Reading(f, n, open, pending, s, l) ==
  /\ open = Named(f, OpenAfter(f, n)) /\ PendingRead(f, n, pending)
  /\ SettingsRead(f, n, s) /\ ListsRead(f, n, l)

LEMMA NothingRead ==
  ASSUME NEW f \in Seq(Config!LineType)
  PROVE  Reading(f, 0, <<>>, <<>>, <<>>, [p \in ListPaths |-> <<>>])
<1>1. OpenAfter(f, 0) = {}
  BY LineFacts, OpenDeepens
<1>2. Indents(f, {}) = {}
  BY DEF Indents
<1>3. <<>> = Named(f, {})
  BY <1>2 DEF Named
<1>4. PendingRead(f, 0, <<>>)
  BY DEF PendingRead
<1>5. Scalars(f, 0) = {}
  BY DEF Scalars
<1>6. SettingsRead(f, 0, <<>>)
  BY <1>5 DEF SettingsRead, PathsOf
<1>7. \A p : Config!ItemsUnder(f, 0, p) = <<>>
  <2>1. \A p : Used(f, 0, p) = {}
    BY DEF Used, Given
  <2>2. \A p : Config!ItemsUnder(f, 0, p) = Along({}, Values(f))
    BY <2>1, ItemsAre, LineFacts
  <2>3. QED
    BY <2>2, AlongNothing
<1>8. ListsRead(f, 0, [p \in ListPaths |-> <<>>])
  BY <1>7 DEF ListsRead
<1>9. QED
  BY <1>1, <1>3, <1>4, <1>6, <1>8 DEF Reading

\* Reading one line, with the sections it leaves open.
LEMMA LineIsRead ==
  ASSUME ConfigInv, Config!WellFormed(file), NEW kind, Config!Read(kind),
         Reading(file, i, section_at_indent, pending_list_key, settings, lists)
  PROVE  /\ file \in Seq(Config!LineType) /\ i \in Nat /\ i < Len(file)
         /\ i + 1 \in DOMAIN file /\ file[i + 1].kind = kind
         /\ Config!OpenSections(Config!Line.indent) = Named(file, Around(file, i + 1))
         /\ Config!IsKey(file, i + 1) =>
              Config!FullKey(Config!OpenSections(Config!Line.indent), Config!Line.text)
                = Config!Path(file, i + 1)
         /\ ~Section(file, i + 1) => OpenAfter(file, i + 1) = Around(file, i + 1)
<1>1. file \in Seq(Config!LineType) /\ i \in Nat
  BY LineFacts DEF ConfigInv
<1>2. i < Len(file) /\ file[i + 1].kind = kind
  BY DEF Config!Read, Config!Line
<1>3. i + 1 \in DOMAIN file /\ (i + 1) - 1 = i
  BY <1>1, <1>2, LineFacts
<1>4. Config!OpenSections(Config!Line.indent) = Kept(section_at_indent, file[i + 1].indent)
  BY DEF Config!OpenSections, Config!Line, Kept
<1>5. Config!OpenSections(Config!Line.indent) = Named(file, Around(file, i + 1))
  BY <1>1, <1>3, <1>4, KeepsAround DEF Reading
<1>6. Config!Line.text = file[i + 1].text
  BY DEF Config!Line
<1>7. QED
  BY <1>1, <1>2, <1>3, <1>5, <1>6, FullKeyIsPath, OpensIfSection

----------------------------------------------------------------------------
ReadingNow == Reading(file, i, section_at_indent, pending_list_key, settings, lists)

LEMMA ItemRead ==
  ASSUME ConfigInv, Config!WellFormed(file), ReadingNow, Config!ReadItem
  PROVE  ReadingNow'
<1>1. Config!Read("item") /\ file' = file /\ i' = i + 1
  BY DEF Config!ReadItem, Config!Read
<1>2. /\ file \in Seq(Config!LineType) /\ i \in Nat /\ i < Len(file)
      /\ i + 1 \in DOMAIN file /\ file[i + 1].kind = "item"
      /\ Config!OpenSections(Config!Line.indent) = Named(file, Around(file, i + 1))
      /\ ~Section(file, i + 1) => OpenAfter(file, i + 1) = Around(file, i + 1)
  BY <1>1, LineIsRead DEF ReadingNow
<1>3. ~Config!IsKey(file, i + 1) /\ ~Section(file, i + 1)
  BY <1>2 DEF Config!IsKey, Section
<1>4. section_at_indent' = Named(file, OpenAfter(file, i + 1))
  BY <1>2, <1>3 DEF Config!ReadItem
<1>5. PendingRead(file, i, pending_list_key) /\ SettingsRead(file, i, settings)
      /\ ListsRead(file, i, lists) /\ DOMAIN lists = ListPaths
  BY DEF ReadingNow, Reading, ConfigInv
<1>6. PendingRead(file, i + 1, pending_list_key)
  BY <1>2, <1>3, <1>5, PendingAfter
<1>7. SettingsRead(file, i + 1, settings)
  BY <1>2, <1>5, OtherSetting
<1>8. ListsRead(file, i + 1, lists')
  <2>1. lists' = IF pending_list_key # <<>> /\ file[i + 1].indent > pending_list_key[1].indent
                    /\ pending_list_key[1].path \in ListPaths
                   THEN [lists EXCEPT ![pending_list_key[1].path] = Append(@, file[i + 1].value)]
                   ELSE lists
    BY DEF Config!ReadItem, Config!Line
  <2>2. QED
    BY <1>2, <1>3, <1>5, <2>1, ListsAtItem
<1>9. pending_list_key' = pending_list_key /\ settings' = settings
  BY DEF Config!ReadItem
<1>10. QED
  BY <1>1, <1>4, <1>6, <1>7, <1>8, <1>9 DEF ReadingNow, Reading

\* What the lines with a key have in common.
LEMMA KeyRead ==
  ASSUME ConfigInv, Config!WellFormed(file), ReadingNow, NEW kind, kind # "item",
         Config!Read(kind)
  PROVE  /\ file' = file /\ i' = i + 1
         /\ file \in Seq(Config!LineType) /\ i \in Nat /\ i < Len(file)
         /\ i + 1 \in DOMAIN file /\ file[i + 1].kind = kind /\ Config!IsKey(file, i + 1)
         /\ Config!OpenSections(Config!Line.indent) = Named(file, Around(file, i + 1))
         /\ Config!FullKey(Config!OpenSections(Config!Line.indent), Config!Line.text)
              = Config!Path(file, i + 1)
         /\ ~Section(file, i + 1) => OpenAfter(file, i + 1) = Around(file, i + 1)
         /\ kind # "scalar" => SettingsRead(file, i + 1, settings)
         /\ kind # "inline" => ListsRead(file, i + 1, lists)
<1>1. file' = file /\ i' = i + 1
  BY DEF Config!Read
<1>2. /\ file \in Seq(Config!LineType) /\ i \in Nat /\ i < Len(file)
      /\ i + 1 \in DOMAIN file /\ file[i + 1].kind = kind
      /\ Config!OpenSections(Config!Line.indent) = Named(file, Around(file, i + 1))
      /\ Config!IsKey(file, i + 1) =>
           Config!FullKey(Config!OpenSections(Config!Line.indent), Config!Line.text)
             = Config!Path(file, i + 1)
      /\ ~Section(file, i + 1) => OpenAfter(file, i + 1) = Around(file, i + 1)
  BY LineIsRead DEF ReadingNow
<1>3. Config!IsKey(file, i + 1)
  BY <1>2 DEF Config!IsKey
<1>4. SettingsRead(file, i, settings) /\ ListsRead(file, i, lists) /\ DOMAIN lists = ListPaths
  BY DEF ReadingNow, Reading, ConfigInv
<1>5. kind # "scalar" => SettingsRead(file, i + 1, settings)
  BY <1>2, <1>4, OtherSetting
<1>6. kind # "inline" => ListsRead(file, i + 1, lists)
  BY <1>2, <1>3, <1>4, ListsAtKey
<1>7. QED
  BY <1>1, <1>2, <1>3, <1>5, <1>6

LEMMA ListKeyRead ==
  ASSUME ConfigInv, Config!WellFormed(file), ReadingNow, Config!ReadListKey
  PROVE  ReadingNow'
<1>1. Config!Read("empty")
  BY DEF Config!ReadListKey
<1>2. /\ file' = file /\ i' = i + 1
      /\ file \in Seq(Config!LineType) /\ i \in Nat /\ i < Len(file)
      /\ file[i + 1].kind = "empty"
      /\ Config!OpenSections(Config!Line.indent) = Named(file, Around(file, i + 1))
      /\ Config!FullKey(Config!OpenSections(Config!Line.indent), Config!Line.text)
           = Config!Path(file, i + 1)
      /\ ~Section(file, i + 1) => OpenAfter(file, i + 1) = Around(file, i + 1)
      /\ SettingsRead(file, i + 1, settings) /\ ListsRead(file, i + 1, lists)
  BY <1>1, KeyRead
<1>3. Config!HeadsList(file, i + 1) /\ ~Section(file, i + 1)
  <2>1. (i + 1) + 1 = i + 2
    BY <1>2
  <2>2. QED
    BY <1>2, <2>1 DEF Config!ReadListKey, Config!HeadsList, Section
<1>4. section_at_indent' = Named(file, OpenAfter(file, i + 1))
  BY <1>2, <1>3 DEF Config!ReadListKey
<1>5. PendingIs(file, i + 1, pending_list_key')
  BY <1>2 DEF Config!ReadListKey, Config!Line, PendingIs
<1>6. PendingRead(file, i + 1, pending_list_key')
  BY <1>2, <1>3, <1>5, PendingAfter
<1>7. settings' = settings /\ lists' = lists
  BY DEF Config!ReadListKey
<1>8. QED
  BY <1>2, <1>4, <1>6, <1>7 DEF ReadingNow, Reading

LEMMA SectionRead ==
  ASSUME ConfigInv, Config!WellFormed(file), ReadingNow, Config!ReadSection
  PROVE  ReadingNow'
<1>1. Config!Read("empty")
  BY DEF Config!ReadSection
<1>2. /\ file' = file /\ i' = i + 1
      /\ file \in Seq(Config!LineType) /\ i \in Nat /\ i < Len(file)
      /\ i + 1 \in DOMAIN file /\ file[i + 1].kind = "empty" /\ Config!IsKey(file, i + 1)
      /\ Config!OpenSections(Config!Line.indent) = Named(file, Around(file, i + 1))
      /\ SettingsRead(file, i + 1, settings) /\ ListsRead(file, i + 1, lists)
  BY <1>1, KeyRead
<1>3. ~Config!HeadsList(file, i + 1) /\ Section(file, i + 1)
  <2>1. (i + 1) + 1 = i + 2
    BY <1>2
  <2>2. QED
    BY <1>2, <2>1 DEF Config!ReadSection, Config!HeadsList, Section
<1>4. section_at_indent' = Named(file, OpenAfter(file, i + 1))
  <2>1. section_at_indent' = Config!Entered(Named(file, Around(file, i + 1)),
                                            file[i + 1].indent, file[i + 1].text)
    BY <1>2 DEF Config!ReadSection, Config!Line
  <2>2. QED
    BY <1>2, <1>3, <2>1, EntersSection
<1>5. PendingRead(file, i + 1, pending_list_key')
  BY <1>2, <1>3, PendingAfter
<1>6. settings' = settings /\ lists' = lists
  BY DEF Config!ReadSection
<1>7. QED
  BY <1>2, <1>4, <1>5, <1>6 DEF ReadingNow, Reading

LEMMA InlineRead ==
  ASSUME ConfigInv, Config!WellFormed(file), ReadingNow, Config!ReadInline
  PROVE  ReadingNow'
<1>1. Config!Read("inline")
  BY DEF Config!ReadInline
<1>2. /\ file' = file /\ i' = i + 1
      /\ file \in Seq(Config!LineType) /\ i \in Nat /\ i < Len(file)
      /\ file[i + 1].kind = "inline" /\ Config!IsKey(file, i + 1)
      /\ Config!OpenSections(Config!Line.indent) = Named(file, Around(file, i + 1))
      /\ Config!FullKey(Config!OpenSections(Config!Line.indent), Config!Line.text)
           = Config!Path(file, i + 1)
      /\ ~Section(file, i + 1) => OpenAfter(file, i + 1) = Around(file, i + 1)
      /\ SettingsRead(file, i + 1, settings)
  BY <1>1, KeyRead
<1>3. ~Config!HeadsList(file, i + 1) /\ ~Section(file, i + 1)
  BY <1>2 DEF Config!HeadsList, Section
<1>4. section_at_indent' = Named(file, OpenAfter(file, i + 1))
  BY <1>2, <1>3 DEF Config!ReadInline
<1>5. PendingRead(file, i + 1, pending_list_key)
  BY <1>2, <1>3, PendingAfter
<1>6. ListsRead(file, i + 1, lists')
  <2>1. ListsRead(file, i, lists) /\ DOMAIN lists = ListPaths
    BY DEF ReadingNow, Reading, ConfigInv
  <2>2. lists' = IF Config!Path(file, i + 1) \in ListPaths
                   THEN [lists EXCEPT ![Config!Path(file, i + 1)] = <<file[i + 1].value>>]
                   ELSE lists
    BY <1>2 DEF Config!ReadInline, Config!Line
  <2>3. QED
    BY <1>2, <2>1, <2>2, ListsAtKey
<1>7. settings' = settings /\ pending_list_key' = pending_list_key
  BY DEF Config!ReadInline
<1>8. QED
  BY <1>2, <1>4, <1>5, <1>6, <1>7 DEF ReadingNow, Reading

LEMMA ScalarRead ==
  ASSUME ConfigInv, Config!WellFormed(file), ReadingNow, Config!ReadScalar
  PROVE  ReadingNow'
<1>1. Config!Read("scalar")
  BY DEF Config!ReadScalar
<1>2. /\ file' = file /\ i' = i + 1
      /\ file \in Seq(Config!LineType) /\ i \in Nat /\ i < Len(file)
      /\ file[i + 1].kind = "scalar" /\ Config!IsKey(file, i + 1)
      /\ Config!OpenSections(Config!Line.indent) = Named(file, Around(file, i + 1))
      /\ Config!FullKey(Config!OpenSections(Config!Line.indent), Config!Line.text)
           = Config!Path(file, i + 1)
      /\ ~Section(file, i + 1) => OpenAfter(file, i + 1) = Around(file, i + 1)
      /\ ListsRead(file, i + 1, lists)
  BY <1>1, KeyRead
<1>3. ~Config!HeadsList(file, i + 1) /\ ~Section(file, i + 1)
  BY <1>2 DEF Config!HeadsList, Section
<1>4. section_at_indent' = Named(file, OpenAfter(file, i + 1))
  BY <1>2, <1>3 DEF Config!ReadScalar
<1>5. PendingRead(file, i + 1, pending_list_key')
  BY <1>2, <1>3, PendingAfter
<1>6. SettingsRead(file, i + 1, settings')
  <2>1. SettingsRead(file, i, settings)
    BY DEF ReadingNow, Reading
  <2>2. settings' = Config!Entered(settings, Config!Path(file, i + 1), file[i + 1].value)
    BY <1>2 DEF Config!ReadScalar, Config!Line
  <2>3. QED
    BY <1>2, <2>1, <2>2, SettingEntered
<1>7. lists' = lists
  BY DEF Config!ReadScalar
<1>8. QED
  BY <1>2, <1>4, <1>5, <1>6, <1>7 DEF ReadingNow, Reading

----------------------------------------------------------------------------
\* What is missing gets its default.
Finished(f, s, l) ==
  /\ DOMAIN s = PathsOf(f, Len(f)) \cup DOMAIN Defaults
  /\ \A p \in PathsOf(f, Len(f)) : s[p] = f[Config!Max(LinesFor(f, Len(f), p))].value
  /\ \A p \in ListPaths :
       l[p] = IF Config!ItemsUnder(f, Len(f), p) = <<>> THEN DefaultLists[p]
              ELSE Config!ItemsUnder(f, Len(f), p)

MadeFrom(l) == Config!SelectSeq(l[ActivePath], LAMBDA name : name \in Known)

OutlineInv ==
  Config!WellFormed(file) =>
    /\ phase = "parse" => ReadingNow
    /\ phase = "defaults" =>
         SettingsRead(file, Len(file), settings) /\ ListsRead(file, Len(file), lists)
    /\ phase \in {"create", "done"} => Finished(file, settings, lists)
    /\ phase = "done" => strategies = MadeFrom(lists)

LEMMA DefaultsFinish ==
  ASSUME ConfigInv, phase = "defaults", Config!ApplyDefaults,
         SettingsRead(file, Len(file), settings), ListsRead(file, Len(file), lists)
  PROVE  Finished(file, settings', lists')
<1>1. DOMAIN settings = PathsOf(file, Len(file))
  BY DEF SettingsRead
<1>2. settings' = [p \in DOMAIN settings \cup DOMAIN Defaults |->
                     IF p \in DOMAIN settings THEN settings[p] ELSE Defaults[p]]
  BY DEF Config!ApplyDefaults, Config!Completed
<1>3. lists' = [p \in ListPaths |-> IF lists[p] = <<>> THEN DefaultLists[p] ELSE lists[p]]
  BY DEF Config!ApplyDefaults
<1>4. DOMAIN settings' = PathsOf(file, Len(file)) \cup DOMAIN Defaults
  BY <1>1, <1>2
<1>5. \A p \in PathsOf(file, Len(file)) :
        settings'[p] = file[Config!Max(LinesFor(file, Len(file), p))].value
  BY <1>1, <1>2 DEF SettingsRead
<1>6. \A p \in ListPaths :
        lists'[p] = IF Config!ItemsUnder(file, Len(file), p) = <<>> THEN DefaultLists[p]
                    ELSE Config!ItemsUnder(file, Len(file), p)
  BY <1>3 DEF ListsRead
<1>7. QED
  BY <1>4, <1>5, <1>6 DEF Finished

LEMMA OutlineInit == Config!Init => OutlineInv
<1> SUFFICES ASSUME Config!Init PROVE ReadingNow /\ phase = "parse"
  BY DEF OutlineInv
<1>1. file \in Seq(Config!LineType)
  BY ConfigInit DEF ConfigInv
<1>2. QED
  BY <1>1, NothingRead DEF Config!Init, ReadingNow

LEMMA OutlineStep ==
  ASSUME ConfigInv, OutlineInv, [Config!Next]_(Config!vars)
  PROVE  OutlineInv'
<1>1. file' = file
  BY DEF Config!Next, Config!vars, Config!ReadItem, Config!ReadListKey, Config!ReadSection,
     Config!ReadInline, Config!ReadScalar, Config!Read, Config!ParseEnds, Config!ApplyDefaults,
     Config!CreateStrategies
<1> SUFFICES ASSUME Config!WellFormed(file)
             PROVE  OutlineInv'
  BY <1>1 DEF OutlineInv
<1>2. CASE \/ Config!ReadItem \/ Config!ReadListKey \/ Config!ReadSection
           \/ Config!ReadInline \/ Config!ReadScalar
  <2>1. phase = "parse" /\ phase' = "parse"
    BY <1>2 DEF Config!ReadItem, Config!ReadListKey, Config!ReadSection, Config!ReadInline,
       Config!ReadScalar, Config!Read
  <2>2. ReadingNow'
    BY <1>2, <2>1, ItemRead, ListKeyRead, SectionRead, InlineRead, ScalarRead DEF OutlineInv
  <2>3. QED
    BY <2>1, <2>2 DEF OutlineInv
<1>3. CASE Config!ParseEnds
  <2>1. phase = "parse" /\ i = Len(file) /\ phase' = "defaults"
        /\ settings' = settings /\ lists' = lists
    BY <1>3 DEF Config!ParseEnds, Config!parserVars
  <2>2. SettingsRead(file, Len(file), settings) /\ ListsRead(file, Len(file), lists)
    BY <2>1 DEF OutlineInv, ReadingNow, Reading
  <2>3. QED
    BY <1>1, <2>1, <2>2 DEF OutlineInv
<1>4. CASE Config!ApplyDefaults
  <2>1. phase = "defaults" /\ phase' = "create"
    BY <1>4 DEF Config!ApplyDefaults
  <2>2. Finished(file, settings', lists')
    BY <1>4, <2>1, DefaultsFinish DEF OutlineInv
  <2>3. QED
    BY <1>1, <2>1, <2>2 DEF OutlineInv
<1>5. CASE Config!CreateStrategies
  <2>1. phase = "create" /\ phase' = "done" /\ settings' = settings /\ lists' = lists
    BY <1>5 DEF Config!CreateStrategies, Config!parserVars
  <2>2. strategies' = MadeFrom(lists)
    BY <1>5 DEF Config!CreateStrategies, MadeFrom
  <2>3. QED
    BY <1>1, <2>1, <2>2 DEF OutlineInv
<1>6. CASE UNCHANGED Config!vars
  BY <1>6 DEF OutlineInv, ReadingNow, Config!vars, Config!parserVars
<1>7. QED
  BY <1>2, <1>3, <1>4, <1>5, <1>6 DEF Config!Next

LEMMA OutlineImplies ==
  ASSUME ConfigInv, OutlineInv
  PROVE  Config!ParserFollowsOutline
<1> SUFFICES ASSUME phase = "done", Config!WellFormed(file)
             PROVE  Config!ParserFollowsOutline
  BY DEF Config!ParserFollowsOutline
<1>1. Finished(file, settings, lists) /\ strategies = MadeFrom(lists)
  BY DEF OutlineInv
<1>2. DOMAIN file = 1 .. Len(file)
  BY LineFacts DEF ConfigInv
<1>3. {j \in DOMAIN file : file[j].kind = "scalar"} = Scalars(file, Len(file))
  BY <1>2 DEF Scalars
<1> DEFINE scalars == {j \in DOMAIN file : file[j].kind = "scalar"}
           paths == {Config!Path(file, j) : j \in scalars}
<1>4. paths = PathsOf(file, Len(file))
  BY <1>3 DEF PathsOf
<1>5. \A p : {j \in scalars : Config!Path(file, j) = p} = LinesFor(file, Len(file), p)
  BY <1>3 DEF LinesFor
<1> HIDE DEF scalars
<1>6. DOMAIN settings = paths \cup DOMAIN Defaults
  BY <1>1, <1>4 DEF Finished
<1>7. \A p \in paths :
        settings[p] = file[Config!Max({j \in scalars : Config!Path(file, j) = p})].value
  BY <1>1, <1>4, <1>5 DEF Finished
<1>8. \A p \in ListPaths :
        lists[p] = IF Config!ItemsUnder(file, Len(file), p) = <<>> THEN DefaultLists[p]
                   ELSE Config!ItemsUnder(file, Len(file), p)
  BY <1>1 DEF Finished
<1>9. QED
  BY <1>1, <1>6, <1>7, <1>8 DEF Config!ParserFollowsOutline, MadeFrom, scalars

----------------------------------------------------------------------------
(***************************************************************************)
(* The parts together.                                                     *)
(***************************************************************************)
\* positions.hpp, pnl_tracker.hpp and paper_engine.hpp: for any symbols, lots
\* and prices, what the tracker earned is the cash that came in less that
\* spent on shares no longer held, both books hold the same lots and their
\* cost, and open and erased positions earned what the tracker says; a paper
\* account never goes into debt or short and is what its orders filled.
THEOREM AccountsHold == Spec => []AccountsAgree
<1>1. Init => BooksInv /\ PaperInv
  BY BooksInit, PaperInit DEF Init
<1>2. BooksInv /\ PaperInv /\ [Next]_vars => (BooksInv /\ PaperInv)'
  BY Parts, BooksStep, PaperStep
<1>3. BooksInv /\ PaperInv => AccountsAgree
  BY BooksImply, PaperImplies DEF AccountsAgree
<1>4. QED
  BY <1>1, <1>2, <1>3, PTL DEF Spec

\* config.hpp and main.cpp: for any file in which every key is nested under a
\* section and every item under the head of its list, with any number of
\* lines, depths and lists, the settings and lists read are those of the
\* file's outline, and the strategies made are those of the active list.
THEOREM OutlineFollowed == Spec => []ParserFollowsOutline
<1>1. Init => ConfigInv /\ OutlineInv
  BY ConfigInit, OutlineInit DEF Init
<1>2. ConfigInv /\ OutlineInv /\ [Next]_vars => ConfigInv' /\ OutlineInv'
  BY Parts, ConfigStep, OutlineStep
<1>3. ConfigInv /\ OutlineInv => ParserFollowsOutline
  BY OutlineImplies DEF ParserFollowsOutline
<1>4. QED
  BY <1>1, <1>2, <1>3, PTL DEF Spec

\* Every part of the library keeps its types: the ring's indices wrap, no
\* amount of a book or an account goes below zero, the parser's stack of
\* sections is indexed by indents.
THEOREM TypeCorrect == Spec => []TypeOK
<1> DEFINE Ring == RingTypes /\ QueueRest
           Cache == CacheTypes /\ CacheInv /\ ReadTypes /\ ReadInv /\ MarketRest
           Clock == HoursInv /\ HoursRest
           Inv == Ring /\ Cache /\ Clock /\ BooksInv /\ PaperInv /\ ConfigInv
<1>1. Init => Inv
  <2> SUFFICES ASSUME Init PROVE Inv
    OBVIOUS
  <2>1. Ring
    BY RingInit, QueueRestInit DEF Init
  <2>2. MarketRest
    BY DEF Init, Market!Init, MarketRest
  <2>3. Cache
    BY <2>2, CacheInit, ReadInit DEF Init
  <2>4. minute = 0 /\ promised = -1 /\ day \in 0 .. 6 /\ early = FALSE
    BY DEF Init, Hours!Init
  <2>5. Clock
    <3>1. minute \in 0 .. 1439 /\ promised \in Int /\ promised < 0 /\ promised \in -1 .. 2880
      BY <2>4
    <3>2. QED
      BY <2>4, <3>1 DEF HoursInv, HoursTypes, Nobody, HoursRest
  <2>6. BooksInv /\ PaperInv /\ ConfigInv
    BY BooksInit, PaperInit, ConfigInit DEF Init
  <2>7. QED
    BY <2>1, <2>3, <2>5, <2>6
<1>2. Inv /\ [Next]_vars => Inv'
  <2> SUFFICES ASSUME Inv, [Next]_vars PROVE Inv'
    OBVIOUS
  <2>1. Ring'
    BY Parts, RingTypesStep, QueueRestStep
  <2>2. Cache'
    BY Parts, CacheStep, ReadStep, MarketRestStep
  <2>3. Clock'
    BY Parts, HoursStep, HoursRestStep
  <2>4. BooksInv' /\ PaperInv' /\ ConfigInv'
    BY Parts, BooksStep, PaperStep, ConfigStep
  <2>5. QED
    BY <2>1, <2>2, <2>3, <2>4
<1>3. Inv => TypeOK
  <2> SUFFICES ASSUME Inv PROVE TypeOK
    OBVIOUS
  <2>1. Queue!TypeOK
    BY DEF RingTypes, QueueRest, Queue!TypeOK
  <2>2. Market!TypeOK
    BY DEF CacheTypes, ReadTypes, MarketRest, Market!TypeOK
  <2>3. Hours!TypeOK
    BY Times DEF HoursInv, HoursTypes, HoursRest, Hours!TypeOK
  <2>4. Config!TypeOK
    BY DEF ConfigInv, Config!TypeOK
  <2>5. QED
    BY <2>1, <2>2, <2>3, <2>4, BooksImply, PaperImplies DEF TypeOK
<1>4. QED
  BY <1>1, <1>2, <1>3, PTL DEF Spec
=============================================================================
