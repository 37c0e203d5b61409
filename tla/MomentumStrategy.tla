-------------------------- MODULE MomentumStrategy --------------------------
(***************************************************************************)
(* The position state machine of src/src/strategies/momentum_strategy.hpp  *)
(* for one symbol: generate_signal on every tick, and the two callbacks    *)
(* that tell it what became of its orders.  The machine of                 *)
(* weighted_strategy.hpp differs only in what makes it enter and exit.     *)
(*                                                                         *)
(* The indicators (SMA, RSI, momentum, volatility) are arbitrary: a tick   *)
(* chooses whether they call for an entry and whether RSI is extreme.  A   *)
(* lot is one share, commissions are left out of pnl, and percentages are  *)
(* exact: stops are kept in hundredths.  Orders are resolved in the order  *)
(* in which they were emitted, as the single processor thread of the       *)
(* OrderManager sends them; the exchange sells nothing it does not hold.   *)
(*                                                                         *)
(* CallbacksWired says whether somebody calls on_order_filled and          *)
(* on_order_rejected.  The class is written for TRUE; main.cpp gives the   *)
(* OrderManager no strategy to call, which is FALSE.                       *)
(***************************************************************************)
EXTENDS Integers, Sequences, FiniteSets

CONSTANTS
  Prices,          \* tick prices
  TakeProfitPct,   \* m_take_profit_pct, in percent
  StopPct,         \* m_trailing_stop_pct, in percent
  MaxHold,         \* m_max_hold_seconds, in clock steps
  Window,          \* WINDOW_50: prices needed before trading
  CallbacksWired,
  MaxEntries,      \* bound: positions opened
  MaxRejections    \* bound: orders the exchange rejects

ASSUME PricesAssumption == Prices \subseteq Nat \ {0}
ASSUME PctAssumption == TakeProfitPct \in Nat /\ StopPct \in 0 .. 100
ASSUME CountsAssumption ==
  /\ MaxHold \in Nat /\ Window \in Nat \ {0}
  /\ MaxEntries \in Nat /\ MaxRejections \in Nat
ASSUME WiredAssumption == CallbacksWired \in BOOLEAN

VARIABLES
  seen,           \* prices.size(), which stops at Window
  in_position, pending_exit,
  entry_price, highest_price,
  trailing_stop,  \* in hundredths of the price unit
  age,            \* now - entry_time, up to MaxHold + 1
  pnl,            \* Strategy::pnl without commissions
  position,       \* quantity in Strategy::positions
  \* What follows is not in the class.
  outstanding,    \* orders emitted and not resolved, oldest first
  holding,        \* what the exchange holds for this strategy
  entries, rejections

dataVars == <<in_position, pending_exit, entry_price, highest_price, trailing_stop>>
worldVars == <<holding, rejections>>
vars == <<seen, dataVars, age, pnl, position, outstanding, worldVars, entries>>

OrderType == [is_buy : BOOLEAN]

TypeOK ==
  /\ seen \in 0 .. Window
  /\ in_position \in BOOLEAN /\ pending_exit \in BOOLEAN
  /\ entry_price \in Nat /\ highest_price \in Nat /\ trailing_stop \in Nat
  /\ age \in 0 .. MaxHold + 1
  /\ pnl \in Int
  /\ position \in Int /\ holding \in Int
  /\ outstanding \in Seq(OrderType)
  /\ entries \in Nat /\ rejections \in Nat

Init ==
  /\ seen = 0
  /\ in_position = FALSE /\ pending_exit = FALSE
  /\ entry_price = 0 /\ highest_price = 0 /\ trailing_stop = 0
  /\ age = 0
  /\ pnl = 0 /\ position = 0
  /\ outstanding = <<>>
  /\ holding = 0 /\ entries = 0 /\ rejections = 0

----------------------------------------------------------------------------
StopFor(high) == high * (100 - StopPct)

\* Faulty variant: the stop follows every price.
NewHighAlways(price) == TRUE

NewHigh(price) == price > highest_price

SeenAfterTick == IF seen < Window THEN seen + 1 ELSE seen

Warm == SeenAfterTick = Window

\* The order in which the conditions are tried matters only for the reason
\* logged.  stop is the trailing stop after this tick's update.
ShouldExit(price, stop, rsi_extreme) ==
  \/ (price - entry_price) * 100 >= TakeProfitPct * entry_price
  \/ price * 100 <= stop
  \/ rsi_extreme /\ price # entry_price
  \/ age > MaxHold

\* generate_signal before the window is full.
TickCold ==
  /\ ~Warm
  /\ seen' = SeenAfterTick
  /\ UNCHANGED <<dataVars, age, pnl, position, outstanding, worldVars, entries>>

\* generate_signal while in position: ratchet the stop, then perhaps exit.
TickInPosition ==
  /\ Warm /\ in_position
  /\ \E price \in Prices, rsi_extreme \in BOOLEAN :
       LET stop == IF NewHigh(price) THEN StopFor(price) ELSE trailing_stop
           gain == price - entry_price
       IN /\ highest_price' = IF NewHigh(price) THEN price ELSE highest_price
          /\ trailing_stop' = stop
          /\ IF ShouldExit(price, stop, rsi_extreme) /\ ~pending_exit
               THEN /\ outstanding' = Append(outstanding, [is_buy |-> FALSE])
                    /\ pending_exit' = TRUE
                    /\ pnl' = pnl + gain
               ELSE UNCHANGED <<outstanding, pending_exit, pnl>>
  /\ seen' = SeenAfterTick
  /\ UNCHANGED <<in_position, entry_price, age, position, worldVars, entries>>

\* generate_signal while flat, and the indicators call for an entry.
TickEntry ==
  /\ Warm /\ ~in_position /\ ~pending_exit
  /\ entries < MaxEntries
  /\ \E price \in Prices :
       /\ entry_price' = price
       /\ highest_price' = price
       /\ trailing_stop' = StopFor(price)
  /\ in_position' = TRUE
  /\ outstanding' = Append(outstanding, [is_buy |-> TRUE])
  /\ age' = 0
  /\ seen' = SeenAfterTick
  /\ entries' = entries + 1
  /\ UNCHANGED <<pending_exit, pnl, position, worldVars>>

\* generate_signal while flat, and nothing to do.
TickFlat ==
  /\ Warm /\ ~in_position
  /\ seen' = SeenAfterTick
  /\ UNCHANGED <<dataVars, age, pnl, position, outstanding, worldVars, entries>>

\* Time passes for the position held.
Clock ==
  /\ in_position /\ age <= MaxHold
  /\ age' = age + 1
  /\ UNCHANGED <<seen, dataVars, pnl, position, outstanding, worldVars, entries>>

----------------------------------------------------------------------------
\* Faulty variant: the state machine is not told of the sell.
OnOrderFilledPositionOnly(order) ==
  /\ position' = IF order.is_buy THEN position + 1 ELSE position - 1
  /\ UNCHANGED dataVars

\* on_order_filled: position bookkeeping for both sides, the state machine
\* for a sell only.
OnOrderFilled(order) ==
  /\ position' = IF order.is_buy THEN position + 1 ELSE position - 1
  /\ in_position' = (order.is_buy /\ in_position)
  /\ pending_exit' = (order.is_buy /\ pending_exit)
  /\ UNCHANGED <<entry_price, highest_price, trailing_stop>>

\* Faulty variants: a rejected sell ends the position; a rejected buy clears
\* the pending exit as well; a rejected sell stays pending.
OnOrderRejectedFlat(order) ==
  /\ in_position' = FALSE
  /\ pending_exit' = (order.is_buy /\ pending_exit)
  /\ UNCHANGED <<entry_price, highest_price, trailing_stop, position>>

OnOrderRejectedForgets(order) ==
  /\ in_position' = (~order.is_buy /\ in_position)
  /\ pending_exit' = FALSE
  /\ UNCHANGED <<entry_price, highest_price, trailing_stop, position>>

OnOrderRejectedKeeps(order) ==
  /\ in_position' = (~order.is_buy /\ in_position)
  /\ UNCHANGED <<pending_exit, entry_price, highest_price, trailing_stop, position>>

\* on_order_rejected: a rejected buy never entered; a rejected sell may be
\* tried again.
OnOrderRejected(order) ==
  /\ in_position' = (~order.is_buy /\ in_position)
  /\ pending_exit' = (order.is_buy /\ pending_exit)
  /\ UNCHANGED <<entry_price, highest_price, trailing_stop, position>>

\* The exchange fills the oldest order.
Fill ==
  LET order == Head(outstanding)
  IN /\ outstanding # <<>>
     /\ order.is_buy \/ holding > 0
     /\ holding' = IF order.is_buy THEN holding + 1 ELSE holding - 1
     /\ outstanding' = Tail(outstanding)
     /\ IF CallbacksWired THEN OnOrderFilled(order) ELSE UNCHANGED <<dataVars, position>>
     /\ UNCHANGED <<seen, age, pnl, rejections, entries>>

\* The RiskManager or the exchange rejects it.  A sell of what is not held is
\* always rejected and does not count against the bound.
Reject ==
  LET order == Head(outstanding)
      unavoidable == ~order.is_buy /\ holding = 0
  IN /\ outstanding # <<>>
     /\ unavoidable \/ rejections < MaxRejections
     /\ rejections' = IF unavoidable THEN rejections ELSE rejections + 1
     /\ outstanding' = Tail(outstanding)
     /\ IF CallbacksWired THEN OnOrderRejected(order) ELSE UNCHANGED <<dataVars, position>>
     /\ UNCHANGED <<seen, age, pnl, holding, entries>>

Tick == TickCold \/ TickInPosition \/ TickEntry \/ TickFlat

Next == Tick \/ Clock \/ Fill \/ Reject

Spec == Init /\ [][Next]_vars

\* Ticks keep coming, time passes and every order is resolved.
FairSpec ==
  Spec /\ WF_vars(Tick) /\ WF_vars(Clock) /\ WF_vars(Fill \/ Reject)

----------------------------------------------------------------------------
\* The orders on their way, by side.
Buys == {n \in DOMAIN outstanding : outstanding[n].is_buy}
Sells == DOMAIN outstanding \ Buys

Protocol == INSTANCE LotProtocol
              WITH ordered <- Cardinality(Buys), held <- holding, sells <- Cardinality(Sells)

\* generate_signal and the callbacks keep the one-lot protocol: whatever is
\* rejected and retried, the strategy never has two lots held or on order,
\* and never two sells on their way for the one it has.
FollowsProtocol == Protocol!Spec

\* When no order is outstanding, the strategy believes it is in position
\* exactly when the exchange holds a lot, and its own bookkeeping agrees.
BeliefMatchesHolding ==
  outstanding = <<>> => /\ in_position <=> holding = 1
                        /\ position = holding

\* While a position is held its stop only rises.
StopOnlyRises == [][in_position /\ in_position' => trailing_stop' >= trailing_stop]_vars

\* Every position is given up in the end: by a fill or because it was never
\* entered, however the price moves and whatever was rejected before.
PositionIsClosed == in_position ~> ~in_position

(***************************************************************************)
(* What the source says of the class and the program does not keep.        *)
(***************************************************************************)
\* A rejected sell clears pending_exit "so the next tick will try to exit
\* again": an exit is resolved, one way or the other.
ExitIsResolved == pending_exit ~> ~pending_exit
=============================================================================
