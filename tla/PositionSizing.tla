--------------------------- MODULE PositionSizing ---------------------------
(***************************************************************************)
(* KellyPositionSizer of src/src/risk/kelly_sizer.hpp and RegimeDetector   *)
(* of src/src/strategies/regime_detector.hpp as functions of the returns   *)
(* they keep.  Returns are whole thousandths, fractions of the capital are *)
(* in ten-thousandths, multipliers in halves.  Divisions that the code     *)
(* makes are kept as comparisons of products where they decide something.  *)
(***************************************************************************)
EXTENDS Integers, Sequences, SequencesExt

CONSTANTS
  MinReturns,    \* 20
  KeepReturns    \* 100

ReturnsAssumption == MinReturns \in Nat \ {0} /\ KeepReturns \in Nat \ {0}

\* push_back, then pop_front when there are more than are kept.
Keep(s, x) == IF Len(s) < KeepReturns THEN Append(s, x) ELSE Append(Tail(s), x)

Total(s) == FoldSeq(+, 0, s)
Squares(s) == FoldSeq(LAMBDA x, sum : sum + x * x, 0, s)

\* Where the returns are that won and lost, and what some of them add up to.
Wins(s) == {n \in DOMAIN s : s[n] > 0}
Losses(s) == {n \in DOMAIN s : s[n] <= 0}
TotalAt(s, at) == MapThenSumSet(LAMBDA n : s[n], at)

Clip(low, high, x) == IF x < low THEN low ELSE IF x > high THEN high ELSE x

\* Half of Kelly, at least 1% and at most 15%.
HalfKelly(fraction) == Clip(100, 1500, fraction)

\* calculate_kelly.  With n returns, w of them winning W in all and l losing
\* L, kelly = w/n - (l/n) * (L/l) * (w/W); without a loss it is 0.25 whatever
\* was won, and without a win the division by b = 0 gives minus infinity.
CalculateKelly(returns) ==
  LET n == Len(returns)
      won == TotalAt(returns, Wins(returns))
      lost == -TotalAt(returns, Losses(returns))
      w == Cardinality(Wins(returns))
  IN IF n < MinReturns THEN 200
     ELSE IF lost = 0 THEN 2500
     ELSE IF won = 0 THEN 100
     ELSE HalfKelly((5000 * w * (won - lost)) \div (n * won))

\* Faulty variant: the share of the capital is not looked at.
PositionSizeUncapped(returns, capital, price) == (capital * CalculateKelly(returns)) \div (200 * price)

\* calculate_position_size with the default stop of 2%: what is risked over
\* the stop distance, and at most a quarter of the capital.
CalculatePositionSize(returns, capital, price) ==
  LET shares == (capital * CalculateKelly(returns)) \div (200 * price)
      max_shares == capital \div (4 * price)
  IN IF shares < max_shares THEN shares ELSE max_shares

\* The variance of the returns, and a threshold in thousandths squared, both
\* times the square of the number of returns.
Variance(returns) == Len(returns) * Squares(returns) - Total(returns) * Total(returns)
Squared(threshold, returns) == threshold * threshold * Len(returns) * Len(returns)

\* The second half's average volume is more than 1.2 times the first's.
VolumeRises(volumes) ==
  LET n == Len(volumes)
      half == n \div 2
      old == Total(SubSeq(volumes, 1, half))
      new == Total(SubSeq(volumes, half + 1, n))
  IN n >= MinReturns /\ old > 0 /\ new * half * 10 > old * (n - half) * 12

\* detect and get_position_multiplier, in halves; with few returns the
\* volatility is taken for 1%.
Multiplier(returns, volumes) ==
  LET more(threshold) == Variance(returns) > Squared(threshold, returns)
      calm == Variance(returns) < Squared(5, returns)
  IN IF Len(returns) < MinReturns THEN 2
     ELSE IF more(30) THEN 0
     ELSE IF more(15) THEN 1
     ELSE IF calm /\ VolumeRises(volumes) THEN 3
     ELSE 2
=============================================================================
