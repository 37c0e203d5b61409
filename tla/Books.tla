------------------------------- MODULE Books -------------------------------
(***************************************************************************)
(* The two books that TradingCore keeps of the same fills: PositionManager *)
(* (src/src/live/positions.hpp) and PnLTracker                             *)
(* (src/src/live/pnl_tracker.hpp).  Both match sells with buys first in,   *)
(* first out.  They differ in what they keep: a position that is closed is *)
(* erased with what it earned, the tracker adds up over all positions; the *)
(* manager recomputes its average cost from the lots left after a sell,    *)
(* the tracker keeps the average it had.                                   *)
(*                                                                         *)
(* Quantities and prices are whole; an average is kept as cost over        *)
(* quantity.  Each call is one critical section.  The caller gives every   *)
(* fill to both books; a sell may exceed what is held.                     *)
(***************************************************************************)
EXTENDS Integers, Sequences, SequencesExt

CONSTANTS
  Symbols, Prices, Quantities,
  MaxTrades   \* bound: fills

SymbolsAssumption == IsFiniteSet(Symbols)
InputsAssumption == Prices \subseteq Nat \ {0} /\ Quantities \subseteq Nat \ {0}
MaxTradesAssumption == MaxTrades \in Nat

VARIABLES
  positions,     \* PositionManager: by symbol; quantity 0 when erased
  trackers,      \* PnLTracker: the same
  realized,      \* PnLTracker::total_realized_pnl
  \* What follows is not in the program.
  received, paid,  \* cash of the fills that moved shares we held
  forgotten,       \* what the erased positions had earned
  trades

vars == <<positions, trackers, realized, received, paid, forgotten, trades>>

LotType == [price : Nat, quantity : Nat]

\* avg_price is cost / quantity for the manager, cost / over for the tracker.
NoPosition == [quantity |-> 0, cost |-> 0, realized_pnl |-> 0, lots |-> <<>>]
NoTracker == [quantity |-> 0, cost |-> 0, over |-> 1, lots |-> <<>>]

TypeOK ==
  /\ \A s \in Symbols :
       /\ positions[s].quantity \in Nat /\ positions[s].cost \in Nat
       /\ positions[s].realized_pnl \in Int /\ positions[s].lots \in Seq(LotType)
       /\ trackers[s].quantity \in Nat /\ trackers[s].cost \in Nat
       /\ trackers[s].over \in Nat \ {0} /\ trackers[s].lots \in Seq(LotType)
  /\ realized \in Int /\ forgotten \in Int
  /\ received \in Nat /\ paid \in Nat /\ trades \in Nat

Init ==
  /\ positions = [s \in Symbols |-> NoPosition]
  /\ trackers = [s \in Symbols |-> NoTracker]
  /\ realized = 0 /\ received = 0 /\ paid = 0 /\ forgotten = 0 /\ trades = 0

Least(a, b) == IF a < b THEN a ELSE b

Cost(lots) == MapThenSumSet(LAMBDA n : lots[n].price * lots[n].quantity, DOMAIN lots)

Shares(lots) == MapThenSumSet(LAMBDA n : lots[n].quantity, DOMAIN lots)

\* Faulty variant: a lot is gone as soon as anything of it is sold.
LeftDrops(lot, take) == IF take > 0 THEN <<>> ELSE <<lot>>

\* What stays of a lot after `take` of it is sold.
Left(lot, take) ==
  IF take = lot.quantity THEN <<>> ELSE <<[lot EXCEPT !.quantity = @ - take]>>

\* One round of the loop over the lots.
SellFrom(sale, lot, price) ==
  LET take == Least(sale.remaining, lot.quantity)
  IN [remaining |-> sale.remaining - take,
      lots |-> sale.lots \o Left(lot, take),
      earned |-> sale.earned + (price - lot.price) * take]

\* The loop: what is left of the lots and what the sell earned.
Sell(lots, quantity, price) ==
  FoldLeft(LAMBDA sale, lot : SellFrom(sale, lot, price),
           [remaining |-> quantity, lots |-> <<>>, earned |-> 0], lots)

----------------------------------------------------------------------------
\* add_position
Position(p, is_buy, quantity, price) ==
  IF is_buy
    THEN [p EXCEPT !.quantity = @ + quantity,
                   !.cost = @ + price * quantity,
                   !.lots = Append(@, [price |-> price, quantity |-> quantity])]
    ELSE LET sold == Sell(p.lots, quantity, price)
         IN IF p.quantity <= quantity
              THEN NoPosition
              ELSE [quantity |-> p.quantity - quantity,
                    cost |-> Cost(sold.lots),
                    realized_pnl |-> p.realized_pnl + sold.earned,
                    lots |-> sold.lots]

\* record_trade: a sell leaves the average alone.
Tracker(t, is_buy, quantity, price) ==
  IF is_buy
    THEN [quantity |-> t.quantity + quantity,
          cost |-> t.cost * t.quantity + price * quantity * t.over,
          over |-> t.over * (t.quantity + quantity),
          lots |-> Append(t.lots, [price |-> price, quantity |-> quantity])]
    ELSE IF t.quantity <= quantity
           THEN NoTracker
           ELSE [t EXCEPT !.quantity = @ - quantity, !.lots = Sell(@, quantity, price).lots]

\* Faulty variant: the shares sold beyond those held count as earned.
EarnedAll(t, quantity, price) == Sell(t.lots, quantity, price).earned + price * (quantity - Least(quantity, t.quantity))

\* What record_trade adds to total_realized_pnl.
Earned(t, quantity, price) == Sell(t.lots, quantity, price).earned

Buy(s, quantity, price) ==
  /\ paid' = paid + price * quantity
  /\ UNCHANGED <<realized, received, forgotten>>

SellShares(s, quantity, price) ==
  /\ realized' = realized + Earned(trackers[s], quantity, price)
  /\ received' = received + price * Least(quantity, positions[s].quantity)
  /\ forgotten' = IF positions[s].quantity <= quantity
                    THEN forgotten + positions[s].realized_pnl
                           + Sell(positions[s].lots, quantity, price).earned
                    ELSE forgotten
  /\ UNCHANGED paid

\* A fill, given to both books.
Trade ==
  /\ trades < MaxTrades
  /\ \E s \in Symbols, is_buy \in BOOLEAN, quantity \in Quantities, price \in Prices :
       /\ positions' = [positions EXCEPT ![s] = Position(@, is_buy, quantity, price)]
       /\ trackers' = [trackers EXCEPT ![s] = Tracker(@, is_buy, quantity, price)]
       /\ IF is_buy THEN Buy(s, quantity, price) ELSE SellShares(s, quantity, price)
  /\ trades' = trades + 1

\* clear() and reset()
Clear ==
  /\ trades = MaxTrades
  /\ positions' = [s \in Symbols |-> NoPosition]
  /\ trackers' = [s \in Symbols |-> NoTracker]
  /\ realized' = 0 /\ received' = 0 /\ paid' = 0 /\ forgotten' = 0 /\ trades' = 0

Next == Trade \/ Clear

Spec == Init /\ [][Next]_vars

----------------------------------------------------------------------------
RealizedIn(book) == MapThenSumSet(LAMBDA s : book[s].realized_pnl, Symbols)
CostIn(book) == MapThenSumSet(LAMBDA s : Cost(book[s].lots), Symbols)

\* PositionManager::get_total_realized_pnl
TotalRealized == RealizedIn(positions)

OpenCost == CostIn(positions)

\* What the tracker says was earned is the cash that came in, less the cash
\* that went out for shares no longer held, over partial sells, sells through
\* several lots and sells of more than is held.
RealizedIsCashFlow == realized = received - paid + OpenCost

\* Both books hold the same lots, quantities follow from the lots, and the
\* tracker's total is what open and erased positions earned.
BooksAgree ==
  /\ \A s \in Symbols :
       LET p == positions[s]
       IN /\ p.lots = trackers[s].lots /\ p.quantity = trackers[s].quantity
          /\ p.cost = Cost(p.lots)
          /\ p.quantity = Shares(p.lots)
  /\ realized = forgotten + TotalRealized
=============================================================================
