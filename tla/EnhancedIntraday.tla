-------------------------- MODULE EnhancedIntraday --------------------------
(***************************************************************************)
(* EnhancedIntradayStrategy of src/src/strategies/enhanced_intraday.hpp    *)
(* for the one symbol it is made for, with its regime detector and its     *)
(* Kelly sizer.  The breaker's answers are arbitrary (module               *)
(* CircuitBreaker), and so are EMA and RSI; P&L is left out.  Sizes are    *)
(* whole units of a share, rounded down; how small the unit is is left     *)
(* open, by the size of half a position in it.                             *)
(*                                                                         *)
(* Order of the code: the histories grow on every tick; then a breaker     *)
(* that says no, a history too short and a crash end the tick, before the  *)
(* exit is looked at; the size is computed anew at the exit.               *)
(***************************************************************************)
EXTENDS LotMachine

CONSTANTS
  Prices, Volumes,
  Results,             \* what update_pnl may be given, in thousandths of capital
  Capital,             \* 100000, in units of a share times the price
  HalfSize,            \* half of position_size, in units of a share
  Enough,              \* prices needed before trading (50)
  MinReturns, KeepReturns

AmountsAssumption ==
  /\ Prices \subseteq Nat \ {0} /\ Volumes \subseteq Nat /\ Results \subseteq Int
  /\ Capital \in Nat /\ HalfSize \in Nat
  /\ Enough \in Nat /\ IsFiniteSet(Symbols)

VARIABLES
  seen,                \* prices taken, up to Enough
  last_price,          \* 0 before the first
  returns, volumes,    \* the detector's
  kelly_returns,
  entry_price,
  closed               \* round trips.  Not in the program.

vars == <<lotVars, seen, last_price, returns, volumes, kelly_returns, entry_price, closed>>

Sizing == INSTANCE PositionSizing

MaxMultiplier == 3

TypeOK ==
  /\ LotTypeOK
  /\ seen \in 0 .. Enough /\ last_price \in Prices \cup {0}
  /\ returns \in Seq(Int) /\ Len(returns) <= KeepReturns
  /\ volumes \in Seq(Volumes) /\ Len(volumes) = Len(returns)
  /\ kelly_returns \in Seq(Results) /\ Len(kelly_returns) <= KeepReturns
  /\ entry_price \in Prices \cup {0} /\ closed \in Nat

Init ==
  /\ LotInit
  /\ seen = 0 /\ last_price = 0 /\ returns = <<>> /\ volumes = <<>>
  /\ kelly_returns = <<>> /\ entry_price = 0 /\ closed = 0

----------------------------------------------------------------------------
\* RegimeDetector::add_data: the first tick has no return.
AddData(price, volume) ==
  /\ IF last_price > 0
       THEN /\ returns' = Sizing!Keep(returns, ((price - last_price) * 1000) \div last_price)
            /\ volumes' = Sizing!Keep(volumes, volume)
       ELSE UNCHANGED <<returns, volumes>>
  /\ last_price' = price

\* Faulty variant: the larger of the two.
FinalSizeLarger(price) ==
  Max({HalfSize * Sizing!Multiplier(returns', volumes'),
       Sizing!CalculatePositionSize(kelly_returns, Capital, price)})

\* min(position_size * regime_mult, kelly_size)
FinalSize(price) ==
  LET regime == HalfSize * Sizing!Multiplier(returns', volumes')
      kelly == Sizing!CalculatePositionSize(kelly_returns, Capital, price)
  IN IF regime < kelly THEN regime ELSE kelly

ShouldExit(price, overbought) ==
  \/ overbought
  \/ (price - entry_price) * 100 <= -2 * entry_price
  \/ (price - entry_price) * 100 >= 5 * entry_price

\* The breaker says no, the history is short or the market crashes.
Halted(can_trade) ==
  ~can_trade \/ seen' < Enough \/ Sizing!Multiplier(returns', volumes') = 0

Decide(s, price, overbought, buy_signal) ==
  IF in_position /\ ~pending_exit /\ ShouldExit(price, overbought)
    THEN Exit(s, FinalSize(price)) /\ UNCHANGED entry_price
  ELSE IF ~in_position /\ ~pending_exit /\ buy_signal /\ entries < MaxEntries
    THEN Enter(s, FinalSize(price)) /\ entry_price' = price
  ELSE Quiet /\ UNCHANGED entry_price

Tick ==
  /\ \E price \in Prices, volume \in Volumes :
       /\ AddData(price, volume)
       /\ seen' = IF seen < Enough THEN seen + 1 ELSE seen
       /\ \E can_trade \in BOOLEAN :
            IF Halted(can_trade)
              THEN Quiet /\ UNCHANGED entry_price
              ELSE \E s \in Symbols, overbought, buy_signal \in BOOLEAN :
                     Decide(s, price, overbought, buy_signal)
  /\ UNCHANGED <<kelly_returns, closed>>

\* Only a sell's fill and a buy's rejection forget the entry price.
OnOrderFilled ==
  /\ Filled /\ SellFillClears(Oldest)
  /\ entry_price' = IF Oldest.is_buy THEN entry_price ELSE 0
  /\ closed' = IF Oldest.is_buy THEN closed ELSE closed + 1
  /\ UNCHANGED <<seen, last_price, returns, volumes, kelly_returns>>

OnOrderRejected ==
  /\ Rejected /\ RejectClears(Oldest)
  /\ entry_price' = IF Oldest.is_buy THEN 0 ELSE entry_price
  /\ UNCHANGED <<seen, last_price, returns, volumes, kelly_returns, closed>>

\* update_pnl, as far as the sizer sees it.
UpdatePnl ==
  /\ \E result \in Results : kelly_returns' = Sizing!Keep(kelly_returns, result)
  /\ UNCHANGED <<lotVars, seen, last_price, returns, volumes, entry_price, closed>>

Next == Tick \/ OnOrderFilled \/ OnOrderRejected \/ UpdatePnl

Spec == Init /\ [][Next]_vars

----------------------------------------------------------------------------
Held == MapThenSumSet(LAMBDA s : holding[s], Symbols)

\* The largest size is the bull market's, if the capital allows it; at high
\* prices the quarter of the capital is less than half a position.
LargestSize == MaxMultiplier * HalfSize
SmallestSize == Min({HalfSize} \cup {Capital \div (4 * p) : p \in Prices})

\* An exit sells a size computed when it is due, so a round trip may leave
\* shares behind that nobody will sell: never more than the difference of the
\* largest and the smallest size for each.
LeftoverBounded ==
  Held <= closed * (LargestSize - SmallestSize) + (IF lot = "held" THEN LargestSize ELSE 0)

\* No buy is for more than a quarter of the capital, whatever returns the
\* sizer was given.
OrdersAffordable ==
  \A n \in DOMAIN outstanding :
    outstanding[n].is_buy => 4 * outstanding[n].quantity * entry_price <= Capital

\* The Kelly fraction of the returns decides no size: at 1% of the capital,
\* the least it can be, over a stop of 2% the shares are already more than
\* the quarter of the capital they are cut to.
KellyNeverDecides ==
  \A p \in Prices : Sizing!CalculatePositionSize(kelly_returns, Capital, p) = Capital \div (4 * p)
=============================================================================
