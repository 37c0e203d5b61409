---------------------------- MODULE OrderGateway ----------------------------
(***************************************************************************)
(* What the order path promises, with no threads, locks or wakeups: orders *)
(* that pass the gate reach the exchange once each and in the order they   *)
(* were queued; while the gateway is open a queued order is eventually     *)
(* sent; when it is closed at most the one order already on its way is     *)
(* still sent, and the rest stay pending for good.                         *)
(***************************************************************************)
EXTENDS Sequences

CONSTANT Orders

VARIABLES
  pending,  \* orders queued and not given to the exchange
  sent,     \* orders given to the exchange
  phase     \* "open", "closing" (one order on its way) or "closed"

vars == <<pending, sent, phase>>

Init == pending = <<>> /\ sent = <<>> /\ phase = "open"

Queue ==
  /\ \E o \in Orders : pending' = Append(pending, o)
  /\ UNCHANGED <<sent, phase>>

Transmit ==
  /\ pending # <<>>
  /\ sent' = Append(sent, Head(pending))
  /\ pending' = Tail(pending)

Send == phase = "open" /\ Transmit /\ UNCHANGED phase

SendLast == phase = "closing" /\ Transmit /\ phase' = "closed"

Close ==
  /\ phase = "open"
  /\ phase' \in {"closing", "closed"}
  /\ UNCHANGED <<pending, sent>>

Next == Queue \/ Send \/ SendLast \/ Close

Spec == Init /\ [][Next]_vars

FairSpec == Spec /\ WF_vars(Send) /\ WF_vars(SendLast)
=============================================================================
