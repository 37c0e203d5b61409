---------------------------- MODULE RiskManager ----------------------------
(***************************************************************************)
(* The pre-trade gate of src/src/live/risk.hpp: one object, every method   *)
(* under one mutex, so a method call is one step.  Money and quantities    *)
(* are doubles in the code and integers here.                              *)
(*                                                                         *)
(* The C++ map drops a symbol whose quantity falls to zero, so a symbol    *)
(* that is absent and a symbol at zero are the same state: positions is a  *)
(* total function.                                                         *)
(***************************************************************************)
EXTENDS Integers

CONSTANTS
  Symbols,     \* the traded symbols
  Orders,      \* the orders the callers may present
  Limits       \* the limits the object is constructed with

\* What a caller reads from an Order: the rest of the struct does not reach
\* the gate.  A market order may carry price 0.
Order == [symbol : Symbols, quantity : Nat \ {0}, price : Nat, is_buy : BOOLEAN]

LimitRecord == [max_position_size : Nat, max_portfolio_exposure : Nat,
                max_daily_loss : Nat, max_order_size : Nat,
                min_balance : Nat, max_daily_trades : Nat]

ASSUME OrdersAssumption == Orders \subseteq Order
ASSUME LimitsAssumption == Limits \in LimitRecord

VARIABLES
  limits,              \* the limits in force
  positions,           \* quantity booked per symbol
  total_exposure,      \* running notional of buys minus sells, floored at 0
  daily_realized_pnl,  \* fed by update_daily_pnl
  today_trades         \* fills booked since reset_daily

riskVars == <<limits, positions, total_exposure, daily_realized_pnl, today_trades>>

RiskTypeOK ==
  /\ limits \in LimitRecord
  /\ positions \in [Symbols -> Nat]
  /\ total_exposure \in Nat
  /\ daily_realized_pnl \in Int
  /\ today_trades \in Nat

RiskInit ==
  /\ limits = Limits
  /\ positions = [s \in Symbols |-> 0]
  /\ total_exposure = 0
  /\ daily_realized_pnl = 0
  /\ today_trades = 0

----------------------------------------------------------------------------
\* The price the order path checks and books with: 1.0 stands in for the
\* missing price of a market order.
PriceUsed(o) == IF o.price > 0 THEN o.price ELSE 1

Notional(o, price) == o.quantity * price

FloorAtZero(n) == IF n > 0 THEN n ELSE 0

\* Faulty variant: the portfolio exposure is not looked at.
BuyFitsAnyExposure(o, balance, price) ==
  /\ balance - Notional(o, price) >= limits.min_balance
  /\ (positions[o.symbol] + o.quantity) * price <= limits.max_position_size

BuyFits(o, balance, price) ==
  /\ balance - Notional(o, price) >= limits.min_balance
  /\ (positions[o.symbol] + o.quantity) * price <= limits.max_position_size
  /\ total_exposure + Notional(o, price) <= limits.max_portfolio_exposure

\* Faulty variant: one trade too many per day.
CanSubmitOrderOffByOne(o, balance, price) ==
  /\ price > 0
  /\ today_trades <= limits.max_daily_trades
  /\ daily_realized_pnl >= -limits.max_daily_loss
  /\ Notional(o, price) <= limits.max_order_size
  /\ IF o.is_buy THEN BuyFits(o, balance, price)
                 ELSE positions[o.symbol] >= o.quantity

CanSubmitOrder(o, balance, price) ==
  /\ price > 0
  /\ today_trades < limits.max_daily_trades
  /\ daily_realized_pnl >= -limits.max_daily_loss
  /\ Notional(o, price) <= limits.max_order_size
  /\ IF o.is_buy THEN BuyFits(o, balance, price)
                 ELSE positions[o.symbol] >= o.quantity

OnOrderFilled(o, price) ==
  /\ positions' = [positions EXCEPT ![o.symbol] =
                     IF o.is_buy THEN @ + o.quantity
                                 ELSE FloorAtZero(@ - o.quantity)]
  /\ total_exposure' = IF o.is_buy
                         THEN total_exposure + Notional(o, price)
                         ELSE FloorAtZero(total_exposure - Notional(o, price))
  /\ today_trades' = today_trades + 1
  /\ UNCHANGED <<limits, daily_realized_pnl>>

UpdateDailyPnl(realized_pnl) ==
  /\ daily_realized_pnl' = daily_realized_pnl + realized_pnl
  /\ UNCHANGED <<limits, positions, total_exposure, today_trades>>

ResetDaily ==
  /\ daily_realized_pnl' = 0
  /\ today_trades' = 0
  /\ UNCHANGED <<limits, positions, total_exposure>>

SetLimits(new_limits) ==
  /\ limits' = new_limits
  /\ UNCHANGED <<positions, total_exposure, daily_realized_pnl, today_trades>>
============================================================================
