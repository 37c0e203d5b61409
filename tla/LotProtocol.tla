---------------------------- MODULE LotProtocol ----------------------------
(***************************************************************************)
(* What every strategy promises about the orders it emits: one lot at a    *)
(* time.  A buy goes out only when nothing is held or on its way, a sell   *)
(* only for the one lot that is held or on order, and never two of either  *)
(* at once, whatever is filled or rejected in between.  Everything is      *)
(* counted, so that a second lot or a second sell is a step of its own and *)
(* not one that leaves the protocol's state alone.                         *)
(***************************************************************************)
EXTENDS Naturals

VARIABLES
  ordered,   \* buys on their way
  held,      \* lots held
  sells      \* sells on their way

vars == <<ordered, held, sells>>

Init == ordered = 0 /\ held = 0 /\ sells = 0

EmitBuy ==
  ordered = 0 /\ held = 0 /\ sells = 0 /\ ordered' = 1 /\ UNCHANGED <<held, sells>>
EmitSell ==
  ordered + held = 1 /\ sells = 0 /\ sells' = 1 /\ UNCHANGED <<ordered, held>>
BuyFilled == ordered = 1 /\ ordered' = 0 /\ held' = held + 1 /\ UNCHANGED sells
BuyRejected == ordered = 1 /\ ordered' = 0 /\ UNCHANGED <<held, sells>>
SellFilled == held = 1 /\ sells = 1 /\ held' = 0 /\ sells' = 0 /\ UNCHANGED ordered
SellRejected == sells = 1 /\ sells' = 0 /\ UNCHANGED <<ordered, held>>

Next ==
  EmitBuy \/ EmitSell \/ BuyFilled \/ BuyRejected \/ SellFilled \/ SellRejected

Spec == Init /\ [][Next]_vars
=============================================================================
