---------------------------- MODULE RiskClients ----------------------------
(***************************************************************************)
(* Threads that use one RiskManager the way its callers do: ask            *)
(* can_submit_order, send the order, and book it with on_order_filled when *)
(* the exchange takes it.  The two calls are separate critical sections,   *)
(* so another thread's fill, the end-of-day reset or a change of limits    *)
(* may fall between them: what a thread books is what an earlier state     *)
(* allowed.                                                                *)
(***************************************************************************)
EXTENDS RiskManager, FiniteSets

CONSTANTS
  Clients,        \* the threads
  NoOrder,        \* "this client has nothing approved"
  Balances,       \* the cash balances the exchange may report
  PnlChanges,     \* the realised results update_daily_pnl may be given
  LimitChoices,   \* the limit records set_limits may be given
  ExposureCap,    \* no limit record allows more portfolio exposure,
  OrderCap,       \*   a larger single order,
  TradesCap,      \*   or more trades in a day
  MaxPnl          \* bound: the P&L explored stays within -MaxPnl .. MaxPnl

ASSUME ClientsAssumption == IsFiniteSet(Clients) /\ Clients # {}
ASSUME NoOrderAssumption == NoOrder \notin Orders
ASSUME BalancesAssumption == Balances \subseteq Int
ASSUME PnlAssumption == PnlChanges \subseteq Int
ASSUME CapsAssumption ==
  /\ ExposureCap \in Nat /\ OrderCap \in Nat /\ TradesCap \in Nat
  /\ Limits \in LimitChoices
  /\ \A l \in LimitChoices :
       /\ l \in LimitRecord
       /\ l.max_portfolio_exposure <= ExposureCap
       /\ l.max_order_size <= OrderCap
       /\ l.max_daily_trades <= TradesCap

VARIABLE approved   \* what each client may send: an order or NoOrder

vars == <<riskVars, approved>>

Init == RiskInit /\ approved = [c \in Clients |-> NoOrder]

\* can_submit_order answered true; a refusal changes nothing.
Approve(c) ==
  \E o \in Orders, balance \in Balances :
    /\ approved[c] = NoOrder
    /\ CanSubmitOrder(o, balance, PriceUsed(o))
    /\ approved' = [approved EXCEPT ![c] = o]
    /\ UNCHANGED riskVars

\* The exchange took the order and the client books it.
Fill(c) ==
  /\ approved[c] # NoOrder
  /\ OnOrderFilled(approved[c], PriceUsed(approved[c]))
  /\ approved' = [approved EXCEPT ![c] = NoOrder]

\* The exchange refused the order: nothing is booked.
Drop(c) ==
  /\ approved[c] # NoOrder
  /\ approved' = [approved EXCEPT ![c] = NoOrder]
  /\ UNCHANGED riskVars

RecordPnl ==
  \E p \in PnlChanges :
    /\ daily_realized_pnl + p \in -MaxPnl .. MaxPnl
    /\ UpdateDailyPnl(p)
    /\ UNCHANGED approved

StartDay == ResetDaily /\ UNCHANGED approved

ChangeLimits == \E l \in LimitChoices : SetLimits(l) /\ UNCHANGED approved

Next ==
  \/ \E c \in Clients : Approve(c) \/ Fill(c) \/ Drop(c)
  \/ RecordPnl
  \/ StartDay
  \/ ChangeLimits

Spec == Init /\ [][Next]_vars

----------------------------------------------------------------------------
TypeOK ==
  /\ RiskTypeOK
  /\ limits \in LimitChoices
  /\ approved \in [Clients -> Orders \cup {NoOrder}]

\* The portfolio-exposure limit may be overshot only by what the other
\* threads had in flight when the last order was approved: one order of the
\* maximum size each, however the limits and the day changed meanwhile.
ExposureOvershootBounded ==
  total_exposure <= ExposureCap + (Cardinality(Clients) - 1) * OrderCap

\* Likewise the daily trade count: a check that is stale when it is used
\* costs at most one trade per other thread.
TradesOvershootBounded ==
  today_trades <= TradesCap + Cardinality(Clients) - 1
============================================================================
