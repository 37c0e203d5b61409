---------------------------- MODULE BoundedFifo ----------------------------
(***************************************************************************)
(* What a queue between one producer and one consumer promises: items come *)
(* out once each in the order in which they went in, a push is refused     *)
(* only when the queue is full, a pop only when it is empty.               *)
(***************************************************************************)
EXTENDS Naturals, Sequences

CONSTANTS Items, Size

VARIABLES
  queue,
  push_answer, pop_answer,  \* the answer to the last call: <<>> if refused
  pushes, pops              \* calls answered, so that every answer is a step

vars == <<queue, push_answer, pop_answer, pushes, pops>>

Init ==
  /\ queue = <<>>
  /\ push_answer = <<>> /\ pop_answer = <<>>
  /\ pushes = 0 /\ pops = 0

Push(item) ==
  /\ IF Len(queue) < Size
       THEN queue' = Append(queue, item) /\ push_answer' = <<item>>
       ELSE push_answer' = <<>> /\ UNCHANGED queue
  /\ pushes' = pushes + 1
  /\ UNCHANGED <<pop_answer, pops>>

Pop ==
  /\ IF queue # <<>>
       THEN queue' = Tail(queue) /\ pop_answer' = <<Head(queue)>>
       ELSE pop_answer' = <<>> /\ UNCHANGED queue
  /\ pops' = pops + 1
  /\ UNCHANGED <<push_answer, pushes>>

Next == Pop \/ \E item \in Items : Push(item)

Spec == Init /\ [][Next]_vars
=============================================================================
