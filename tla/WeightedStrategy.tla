-------------------------- MODULE WeightedStrategy --------------------------
(***************************************************************************)
(* WeightedStrategy of src/src/strategies/weighted_strategy.hpp for one    *)
(* symbol (its state is kept by symbol).  The indicators are inputs; the   *)
(* score made of them, and the decisions made on the score, are the code's.*)
(* Scores are in ten-thousandths, momentum and distance from the VWAP in   *)
(* ten-thousandths of the price, the volume ratio in hundredths.  Stops    *)
(* are in hundredths of the price unit.  P&L is left out.                  *)
(***************************************************************************)
EXTENDS LotMachine

CONSTANTS
  Prices, Indicators, WeightSets,
  EntryThreshold, ExitThreshold,   \* in ten-thousandths
  StopPct, TakeProfitPct,          \* in percent
  MaxHold, Window, Enough          \* clock steps; 50 and 30 prices

TotalOf(w) == w.momentum + w.rsi + w.volume + w.vwap + w.sma

\* set_weights ignores weights whose total is not positive, and nothing else:
\* single weights may be negative.
WeightsAssumption ==
  /\ WeightSets \subseteq [{"momentum", "rsi", "volume", "vwap", "sma"} -> Int]
  /\ \A w \in WeightSets : TotalOf(w) > 0
WindowAssumption == Enough \in Nat /\ Window \in Nat /\ Enough <= Window
\* RSI is a percentage, and volumes are not negative.
ReadingsAssumption ==
  /\ Prices \subseteq Nat
  /\ \A i \in Indicators : /\ i.momentum \in Int /\ i.vwap_distance \in Int
                            /\ i.rsi \in 0 .. 100 /\ i.volume_ratio \in Nat

VARIABLES
  seen, weights, weighted_score,
  entry_price, highest_price, trailing_stop,
  age             \* now - entry_time, up to MaxHold + 1

stopVars == <<entry_price, highest_price, trailing_stop, age>>
vars == <<lotVars, seen, weights, weighted_score, stopVars>>

One == 10000

NonNegative(w) == \A k \in DOMAIN w : w[k] >= 0

\* With weights none of which is negative the score stays between 0 and 1,
\* however many confirmations there are, so the thresholds it is compared
\* with mean what they say.
TypeOK ==
  /\ LotTypeOK
  /\ seen \in 0 .. Window /\ weights \in WeightSets
  /\ weighted_score \in Int /\ (NonNegative(weights) => weighted_score \in 0 .. One)
  /\ entry_price \in Nat /\ highest_price \in Nat /\ trailing_stop \in Nat
  /\ age \in 0 .. MaxHold + 1

Init ==
  /\ LotInit
  /\ seen = 0 /\ weights \in WeightSets /\ weighted_score = 0
  /\ entry_price = 0 /\ highest_price = 0 /\ trailing_stop = 0 /\ age = 0

----------------------------------------------------------------------------
LeastOf(a, b) == IF a < b THEN a ELSE b

SeenAfter == LeastOf(seen + 1, Window)

MomentumScore(m) ==
  IF m > 100 THEN LeastOf(One, m * 20) ELSE IF m < -100 THEN 0 ELSE 5000 + m * 25

\* sma_50 is 0 until the window is full, so every price is above it.
SmaScore(i) ==
  LET full == SeenAfter = Window
      above50 == ~full \/ i.above50
      crossed == ~full \/ i.sma20_above50
  IN IF i.above20 THEN (IF crossed THEN 8000 ELSE 6000)
                  ELSE (IF above50 THEN 4000 ELSE 2000)

RsiScore(rsi) ==
  IF rsi < 30 THEN One - (rsi * One) \div 30 ELSE IF rsi > 70 THEN 0 ELSE 5000

VolumeScore(ratio) ==
  IF ratio < 100 THEN 0 ELSE LeastOf(One, (ratio - 100) * 50)

VwapScore(d) ==
  IF d < -50 THEN 8000 ELSE IF d < 0 THEN 6000 ELSE IF d > 50 THEN 2000 ELSE 4000

\* Faulty variant: the bonus is not capped.
BonusUncapped(score) == (score * 12) \div 10

\* set_weights divides each weight by their total.
WeightedSum(w, sum) == sum \div TotalOf(w)

Bonus(score) == LeastOf(One, (score * 12) \div 10)

\* calculate_weighted_score; three confirmations raise the score.
Score(i) ==
  LET m == MomentumScore(i.momentum)
      s == SmaScore(i)
      r == RsiScore(i.rsi)
      v == VolumeScore(i.volume_ratio)
      d == VwapScore(i.vwap_distance)
      confirms == <<m > 6000, s > 6000, r > 6000, v > 5000, d > 6000>>
      sum == m * weights.momentum + s * weights.sma + r * weights.rsi
             + v * weights.volume + d * weights.vwap
      score == WeightedSum(weights, sum)
  IN IF Quantify(DOMAIN confirms, LAMBDA n : confirms[n]) >= 3 THEN Bonus(score) ELSE score

----------------------------------------------------------------------------
StopFor(price) == price * (100 - StopPct)

TickCold ==
  /\ SeenAfter < Enough
  /\ seen' = SeenAfter
  /\ Quiet /\ UNCHANGED <<weights, weighted_score, stopVars>>

\* In position: the stop follows the high, then perhaps an exit.
TickInPosition(price, score) ==
  LET high == IF price > highest_price THEN price ELSE highest_price
      stop == IF price > highest_price THEN StopFor(price) ELSE trailing_stop
      should_exit ==
        \/ score < ExitThreshold
        \/ (price - entry_price) * 100 >= TakeProfitPct * entry_price
        \/ price * 100 <= stop
        \/ age > MaxHold
  IN /\ in_position
     /\ highest_price' = high /\ trailing_stop' = stop
     /\ \E s \in Symbols :
          IF should_exit /\ ~pending_exit THEN Exit(s, 1) ELSE Quiet
     /\ UNCHANGED <<entry_price, age>>

TickFlat(price, score) ==
  /\ ~in_position
  /\ IF score >= EntryThreshold /\ ~pending_exit /\ entries < MaxEntries
       THEN /\ \E s \in Symbols : Enter(s, 1)
            /\ entry_price' = price /\ highest_price' = price
            /\ trailing_stop' = StopFor(price) /\ age' = 0
       ELSE Quiet /\ UNCHANGED stopVars

Tick ==
  /\ SeenAfter >= Enough
  /\ \E price \in Prices, i \in Indicators :
       /\ weighted_score' = Score(i)
       /\ TickInPosition(price, Score(i)) \/ TickFlat(price, Score(i))
  /\ seen' = SeenAfter
  /\ UNCHANGED weights

Clock ==
  /\ in_position /\ age <= MaxHold
  /\ age' = age + 1
  /\ UNCHANGED <<lotVars, seen, weights, weighted_score, entry_price, highest_price, trailing_stop>>

OnOrderFilled ==
  /\ Filled /\ SellFillClears(Oldest)
  /\ UNCHANGED <<seen, weights, weighted_score, stopVars>>

OnOrderRejected ==
  /\ Rejected /\ RejectClears(Oldest)
  /\ UNCHANGED <<seen, weights, weighted_score, stopVars>>

Next == TickCold \/ Tick \/ Clock \/ OnOrderFilled \/ OnOrderRejected

Spec == Init /\ [][Next]_vars
=============================================================================
