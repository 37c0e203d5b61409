---------------------------- MODULE PaperEngine ----------------------------
(***************************************************************************)
(* PaperEngine of src/src/paper_trading/paper_engine.hpp: orders filled    *)
(* against a balance and positions of its own.  A market order is decided  *)
(* inside submit_order; an order of another type stays pending for ever.   *)
(* Every method is one critical section, except that set_slippage and      *)
(* set_commission store a rate without the mutex.                          *)
(*                                                                         *)
(* Quantities and prices are whole, rates are whole percents and money is  *)
(* counted in ten-thousandths, so that no amount is rounded.               *)
(***************************************************************************)
EXTENDS Integers, Sequences, FiniteSetsExt

CONSTANTS
  Symbols, Orders,   \* records [symbol, is_buy, market, quantity, price]
  Balances,          \* what the account may be opened or reset with
  DefaultPrice,
  Rates,             \* records [slippage, commission]
  MaxOrders          \* bound: ids handed out

OrdersAssumption ==
  Orders \subseteq [symbol : Symbols, is_buy : BOOLEAN, market : BOOLEAN,
                    quantity : Nat \ {0}, price : Nat]
RatesAssumption == Rates \subseteq [slippage : 0 .. 100, commission : 0 .. 100]
MoneyAssumption == Balances \subseteq Int /\ DefaultPrice \in Nat /\ MaxOrders \in Nat

VARIABLES
  orders,     \* by id: records [order, filled, status, rate]; next_order_id is the next
  positions, balance,
  rate,       \* slippage_rate and commission_rate
  opening     \* what balance was last set to
\* opening and the rate kept with an order are not in the program.

vars == <<orders, positions, balance, rate, opening>>

TypeOK ==
  /\ orders \in Seq([order : Orders, filled : Nat, rate : Rates,
                     status : {"pending", "rejected", "filled", "cancelled"}])
  /\ positions \in [Symbols -> Int] /\ balance \in Int /\ rate \in Rates
  /\ opening \in Balances

Init ==
  /\ orders = <<>>
  /\ positions = [s \in Symbols |-> 0]
  /\ opening \in Balances /\ balance = opening
  /\ rate \in Rates

----------------------------------------------------------------------------
\* In hundredths.
FillPrice(o, r) ==
  LET price == IF o.price > 0 THEN o.price ELSE DefaultPrice
  IN price * (IF o.is_buy THEN 100 + r.slippage ELSE 100 - r.slippage)

\* What the fill adds to the balance, in ten-thousandths.
Cash(o, r) ==
  FillPrice(o, r) * o.quantity * (IF o.is_buy THEN -(100 + r.commission) ELSE 100 - r.commission)

\* Faulty variant: the commission is not looked at before a buy.
CanFillNoCommission(o) ==
  IF o.is_buy THEN balance >= FillPrice(o, rate) * o.quantity * 100
              ELSE positions[o.symbol] >= o.quantity

\* The guards of process_market_order_locked.
CanFill(o) ==
  IF o.is_buy THEN balance >= -Cash(o, rate) ELSE positions[o.symbol] >= o.quantity

Entry(o, filled, status) == [order |-> o, filled |-> filled, status |-> status, rate |-> rate]

Pend(o) ==
  /\ ~o.market
  /\ orders' = Append(orders, Entry(o, 0, "pending"))
  /\ UNCHANGED <<positions, balance, rate, opening>>

RejectMarket(o) ==
  /\ o.market /\ ~CanFill(o)
  /\ orders' = Append(orders, Entry(o, 0, "rejected"))
  /\ UNCHANGED <<positions, balance, rate, opening>>

FillMarket(o) ==
  /\ o.market /\ CanFill(o)
  /\ orders' = Append(orders, Entry(o, o.quantity, "filled"))
  /\ positions' = [positions EXCEPT ![o.symbol] =
                     IF o.is_buy THEN @ + o.quantity ELSE @ - o.quantity]
  /\ balance' = balance + Cash(o, rate)
  /\ UNCHANGED <<rate, opening>>

SubmitOrder ==
  /\ Len(orders) < MaxOrders
  /\ \E o \in Orders : Pend(o) \/ RejectMarket(o) \/ FillMarket(o)

\* Faulty variant: a cancelled order forgets what was filled.
CancelOrderUnfills ==
  \E id \in DOMAIN orders :
    /\ orders' = [orders EXCEPT ![id].status = "cancelled", ![id].filled = 0]
    /\ UNCHANGED <<positions, balance, rate, opening>>

\* cancel_order overwrites the status whatever it was.
CancelOrder ==
  \E id \in DOMAIN orders :
    /\ orders' = [orders EXCEPT ![id].status = "cancelled"]
    /\ UNCHANGED <<positions, balance, rate, opening>>

SetRates ==
  /\ rate' \in Rates
  /\ UNCHANGED <<orders, positions, balance, opening>>

\* reset(new_balance)
Reset ==
  /\ orders' = <<>>
  /\ positions' = [s \in Symbols |-> 0]
  /\ opening' \in Balances /\ balance' = opening'
  /\ UNCHANGED rate

Next == SubmitOrder \/ CancelOrder \/ SetRates \/ Reset

Spec == Init /\ [][Next]_vars

----------------------------------------------------------------------------
\* What the fills of some orders moved.
FilledIn(book) == {id \in DOMAIN book : book[id].filled > 0}
OfSymbol(book, s) == {id \in FilledIn(book) : book[id].order.symbol = s}
Signed(entry) == IF entry.order.is_buy THEN entry.filled ELSE -entry.filled

CashIn(book) ==
  MapThenSumSet(LAMBDA id : Cash(book[id].order, book[id].rate), FilledIn(book))
SharesIn(book, s) == MapThenSumSet(LAMBDA id : Signed(book[id]), OfSymbol(book, s))

\* The account never goes into debt, unless it was opened with one, nor short,
\* and balance and positions are what the filled quantities of the orders say,
\* at the rates each order met, although cancel_order may overwrite the status
\* of an order that filled.
LedgerReconstructs ==
  /\ balance >= 0 \/ balance >= opening
  /\ balance = opening + CashIn(orders)
  /\ \A s \in Symbols : positions[s] >= 0 /\ positions[s] = SharesIn(orders, s)
=============================================================================
