----------------------------- MODULE LotMachine -----------------------------
(***************************************************************************)
(* What the strategies of src/src/strategies share: the flags in_position  *)
(* and pending_exit, the callbacks that clear them, Strategy::positions    *)
(* (src/src/strategies/strategy.hpp), and the world their orders go to.    *)
(* A strategy EXTENDS this module and says when it enters and exits.       *)
(*                                                                         *)
(* Orders are resolved in the order in which they were emitted.  The world *)
(* sells nothing it does not hold: the RiskManager's short-sell guard      *)
(* rejects it.  Both callbacks are called, as the classes are written for. *)
(***************************************************************************)
EXTENDS Integers, Sequences, FiniteSets, FiniteSetsExt

CONSTANTS
  Symbols,
  MaxEntries,     \* bound: positions opened
  MaxRejections   \* bound: orders rejected that could have been filled

BoundsAssumption == MaxEntries \in Nat /\ MaxRejections \in Nat

VARIABLES
  in_position, pending_exit,
  positions,            \* Strategy::positions: quantity by symbol
  \* What follows is not in the program.
  outstanding,          \* orders emitted and not resolved, oldest first
  holding,              \* what is held for the strategy, by symbol
  lot,                  \* the last buy: "none", "ordered", "held"
  entries, rejections

worldVars == <<holding, lot, rejections>>
lotVars == <<in_position, pending_exit, positions, outstanding, worldVars, entries>>

OrderType == [symbol : Symbols, is_buy : BOOLEAN, quantity : Nat]

LotTypeOK ==
  /\ in_position \in BOOLEAN /\ pending_exit \in BOOLEAN
  /\ positions \in [Symbols -> Int]
  /\ outstanding \in Seq(OrderType)
  /\ holding \in [Symbols -> Nat] /\ lot \in {"none", "ordered", "held"}
  /\ entries \in 0 .. MaxEntries /\ rejections \in 0 .. MaxRejections

LotInit ==
  /\ in_position = FALSE /\ pending_exit = FALSE
  /\ positions = [s \in Symbols |-> 0]
  /\ outstanding = <<>>
  /\ holding = [s \in Symbols |-> 0] /\ lot = "none"
  /\ entries = 0 /\ rejections = 0

Emit(s, is_buy, quantity) ==
  outstanding' = Append(outstanding, [symbol |-> s, is_buy |-> is_buy, quantity |-> quantity])

\* A tick that emits nothing.
Quiet == UNCHANGED lotVars

\* The entry branch of generate_signal.
Enter(s, quantity) ==
  /\ ~in_position /\ ~pending_exit
  /\ entries < MaxEntries /\ entries' = entries + 1
  /\ Emit(s, TRUE, quantity)
  /\ in_position' = TRUE /\ lot' = "ordered"
  /\ UNCHANGED <<pending_exit, positions, holding, rejections>>

\* The exit branch.
Exit(s, quantity) ==
  /\ in_position /\ ~pending_exit
  /\ Emit(s, FALSE, quantity)
  /\ pending_exit' = TRUE
  /\ UNCHANGED <<in_position, positions, worldVars, entries>>

----------------------------------------------------------------------------
\* update_position: the quantity is added to the symbol's entry.
UpdatePosition(o) ==
  positions' = [positions EXCEPT ![o.symbol] =
                  IF o.is_buy THEN @ + o.quantity ELSE @ - o.quantity]

\* Faulty variant: the position is over once the sell is emitted or filled.
SellFillClearsExitOnly(o) ==
  /\ pending_exit' = (o.is_buy /\ pending_exit)
  /\ UNCHANGED in_position

\* on_order_filled clears the flags for a sell only.
SellFillClears(o) ==
  /\ in_position' = (o.is_buy /\ in_position)
  /\ pending_exit' = (o.is_buy /\ pending_exit)

\* on_order_rejected: a rejected buy never entered, a rejected sell may be
\* tried again.
RejectClears(o) ==
  /\ in_position' = (~o.is_buy /\ in_position)
  /\ pending_exit' = (o.is_buy /\ pending_exit)

Oldest == Head(outstanding)

Fillable == Oldest.is_buy \/ holding[Oldest.symbol] >= Oldest.quantity

\* The oldest order is filled; the strategy's on_order_filled is the caller's.
Filled ==
  /\ outstanding # <<>> /\ Fillable
  /\ outstanding' = Tail(outstanding)
  /\ holding' = [holding EXCEPT ![Oldest.symbol] =
                   IF Oldest.is_buy THEN @ + Oldest.quantity ELSE @ - Oldest.quantity]
  /\ lot' = IF Oldest.is_buy THEN "held" ELSE "none"
  /\ UpdatePosition(Oldest)
  /\ UNCHANGED <<rejections, entries>>

Rejected ==
  /\ outstanding # <<>>
  /\ IF Fillable THEN rejections < MaxRejections /\ rejections' = rejections + 1
                 ELSE UNCHANGED rejections
  /\ outstanding' = Tail(outstanding)
  /\ lot' = IF Oldest.is_buy THEN "none" ELSE lot
  /\ UNCHANGED <<positions, holding, entries>>

----------------------------------------------------------------------------
\* The orders on their way, by side.
Buys == {n \in DOMAIN outstanding : outstanding[n].is_buy}
Sells == DOMAIN outstanding \ Buys

Protocol == INSTANCE LotProtocol WITH
              ordered <- Cardinality(Buys), sells <- Cardinality(Sells),
              held <- IF lot = "held" THEN 1 ELSE 0

\* The orders of a strategy follow the protocol, whatever is filled and
\* rejected, and also when an exit is due before its entry is resolved.
FollowsProtocol == Protocol!Spec

\* With nothing outstanding the strategy believes itself in position exactly
\* when its lot is held, and Strategy::positions is what is held.
BeliefIsTrue ==
  outstanding = <<>> => /\ in_position <=> lot = "held"
                        /\ ~pending_exit
                        /\ positions = holding
=============================================================================
