--------------------------- MODULE MCOrderManager ---------------------------
(***************************************************************************)
(* Small instances of OrderManager.  Two symbols; a priced buy, the market *)
(* sell that closes it (booked at price 1), a second buy that overdraws    *)
(* the exposure limit together with the first, and a signal of two orders. *)
(***************************************************************************)
EXTENDS OrderManager

CONSTANTS A, B

MCSymbols == {A, B}

MCOrder(s, q, p, b) == [symbol |-> s, quantity |-> q, price |-> p, is_buy |-> b]

BuyA == MCOrder(A, 1, 2, TRUE)
SellA == MCOrder(A, 1, 0, FALSE)
BuyB == MCOrder(B, 2, 1, TRUE)

MCOrders == {BuyA, SellA, BuyB}

MCSignals == {<<BuyA>>, <<SellA>>, <<BuyB, SellA>>}

MCLimits ==
  [max_position_size |-> 4, max_portfolio_exposure |-> 3, max_daily_loss |-> 1,
   max_order_size |-> 2, min_balance |-> 1, max_daily_trades |-> 2]

MCBalances == {1, 9}
=============================================================================
