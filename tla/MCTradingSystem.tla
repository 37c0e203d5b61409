-------------------------- MODULE MCTradingSystem --------------------------
(***************************************************************************)
(* Two strategies of different size, two symbols, prices 1 and 2, and      *)
(* cash for one lot above min_balance: a second lot approved on the same   *)
(* balance passes it, and what is left then is still positive.             *)
(***************************************************************************)
EXTENDS TradingSystem

CONSTANTS A, B, Momentum, Weighted

MCSymbols == {A, B}
MCSymbolList == <<A, B>>
MCSize(st) == IF st = Momentum THEN 1 ELSE 2
MCOrders == [symbol : Symbols, quantity : {1, 2}, price : Low .. High, is_buy : BOOLEAN]

MCLimits ==
  [max_position_size |-> 6, max_portfolio_exposure |-> 9, max_daily_loss |-> 1,
   max_order_size |-> 6, min_balance |-> 8, max_daily_trades |-> 7]
=============================================================================
