--------------------------- MODULE MCRiskClients ---------------------------
(***************************************************************************)
(* A small instance of RiskClients: two symbols, market and priced orders, *)
(* buys that cost more than the matching sells return, and a second limit  *)
(* record that an operator may switch to.                                  *)
(***************************************************************************)
EXTENDS RiskClients

CONSTANTS A, B

MCSymbols == {A, B}

MCOrder(s, q, p, b) == [symbol |-> s, quantity |-> q, price |-> p, is_buy |-> b]

MCOrders == {MCOrder(A, 1, 2, TRUE), MCOrder(A, 1, 0, FALSE),
             MCOrder(B, 2, 1, TRUE), MCOrder(B, 1, 2, FALSE)}

MCLimit(position, exposure, order, trades) ==
  [max_position_size |-> position, max_portfolio_exposure |-> exposure,
   max_daily_loss |-> 1, max_order_size |-> order,
   min_balance |-> 1, max_daily_trades |-> trades]

MCLimits == MCLimit(4, 4, 2, 3)

MCLimitChoices == {MCLimits, MCLimit(3, 3, 2, 2)}

MCBalances == {2, 9}

MCPnlChanges == {-2, 1}
============================================================================
