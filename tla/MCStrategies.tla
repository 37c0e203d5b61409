---------------------------- MODULE MCStrategies ----------------------------
(***************************************************************************)
(* The three strategies built on LotMachine, checked in one run: every     *)
(* behaviour runs one of them, chosen at the start.                        *)
(*                                                                         *)
(*   weighted  an entry, a neutral and an exit reading of the indicators,  *)
(*             with the weights of config.yaml, with two small ones and    *)
(*             with one that is negative                                   *)
(*   vwap      two symbols that share one VWAP and one pair of flags       *)
(*   enhanced  prices a crash apart, so every regime and every Kelly case  *)
(*             with a history of two returns                               *)
(***************************************************************************)
EXTENDS Integers, Sequences

CONSTANTS
  OneSymbol, TwoSymbols, MaxEntries, MaxRejections,
  WeightedPrices, Indicators, WeightSets, EntryThreshold, ExitThreshold,
  StopPct, TakeProfitPct, MaxHold, Window, Enough,
  VwapPrices, VwapVolumes, MaxVolume,
  EnhancedPrices, EnhancedVolumes, Results, Capital, HalfSize, MinReturns, KeepReturns

VARIABLES
  strategy,   \* the one that runs
  in_position, pending_exit, positions, outstanding, holding, lot, entries, rejections,
  seen, entry_price,
  weights, weighted_score, highest_price, trailing_stop, age,
  cumulative_pv, cumulative_v, bought,
  last_price, returns, volumes, kelly_returns, closed

lotVars == <<in_position, pending_exit, positions, outstanding, holding, lot, entries, rejections>>
weightedVars == <<weights, weighted_score, highest_price, trailing_stop, age>>
vwapVars == <<cumulative_pv, cumulative_v, bought>>
enhancedVars == <<last_price, returns, volumes, kelly_returns, closed>>
vars == <<strategy, lotVars, seen, entry_price, weightedVars, vwapVars, enhancedVars>>

Weighted == INSTANCE WeightedStrategy WITH Symbols <- OneSymbol, Prices <- WeightedPrices
Vwap == INSTANCE VwapStrategy WITH
          Symbols <- TwoSymbols, Prices <- VwapPrices, Volumes <- VwapVolumes
Enhanced == INSTANCE EnhancedIntraday WITH
              Symbols <- OneSymbol, Prices <- EnhancedPrices, Volumes <- EnhancedVolumes

ASSUME WeightedAssumptions ==
  /\ Weighted!BoundsAssumption /\ Weighted!WeightsAssumption /\ Weighted!WindowAssumption
  /\ Weighted!ReadingsAssumption
ASSUME VwapAssumptions == Vwap!VolumesAssumption
ASSUME EnhancedAssumptions == Enhanced!AmountsAssumption /\ Enhanced!Sizing!ReturnsAssumption

NoWeighted ==
  /\ weights = (CHOOSE w \in WeightSets : TRUE) /\ weighted_score = 0
  /\ highest_price = 0 /\ trailing_stop = 0 /\ age = 0
NoVwap == cumulative_pv = 0 /\ cumulative_v = 0 /\ bought = {}
NoEnhanced ==
  last_price = 0 /\ returns = <<>> /\ volumes = <<>> /\ kelly_returns = <<>> /\ closed = 0

Init ==
  \/ strategy = "weighted" /\ Weighted!Init /\ NoVwap /\ NoEnhanced
  \/ /\ strategy = "vwap" /\ Vwap!Init /\ NoWeighted /\ NoEnhanced
     /\ seen = 0 /\ entry_price = 0
  \/ strategy = "enhanced" /\ Enhanced!Init /\ NoWeighted /\ NoVwap

Next ==
  /\ UNCHANGED strategy
  /\ \/ strategy = "weighted" /\ Weighted!Next /\ UNCHANGED <<vwapVars, enhancedVars>>
     \/ /\ strategy = "vwap" /\ Vwap!Next
        /\ UNCHANGED <<seen, entry_price, weightedVars, enhancedVars>>
     \/ strategy = "enhanced" /\ Enhanced!Next /\ UNCHANGED <<weightedVars, vwapVars>>

Spec == Init /\ [][Next]_vars

----------------------------------------------------------------------------
\* Ranges; among them that the weighted score is between 0 and 1 whatever
\* non-negative weights are configured and however many indicators confirm,
\* so that the thresholds it is compared with mean what they say, and that
\* the histories of the Kelly sizer and the regime detector stay within
\* their limits.
TypeOK ==
  /\ strategy = "weighted" => Weighted!TypeOK
  /\ strategy = "vwap" => Vwap!TypeOK
  /\ strategy = "enhanced" => Enhanced!TypeOK

\* generate_signal, on_order_filled and on_order_rejected of each strategy
\* keep the one-lot protocol; with nothing on order the strategy believes
\* what is so; and a strategy fed with two symbols holds what it bought.
LotsKept ==
  /\ Weighted!FollowsProtocol
  /\ [](Weighted!BeliefIsTrue /\ (strategy = "vwap" => Vwap!HoldsWhatWasBought))

\* The sizes of enhanced_intraday.hpp: what a round trip leaves behind is
\* bounded, no buy is for more than the Kelly sizer's quarter, and that
\* quarter is all the sizer ever contributes.
SizesBounded ==
  strategy = "enhanced" => /\ Enhanced!LeftoverBounded /\ Enhanced!OrdersAffordable
                           /\ Enhanced!KellyNeverDecides

----------------------------------------------------------------------------
\* momentum and VWAP distance in ten-thousandths, volume ratio in hundredths.
Reading(momentum, above, rsi, volume_ratio, vwap_distance) ==
  [momentum |-> momentum, above20 |-> above, sma20_above50 |-> above, above50 |-> above,
   rsi |-> rsi, volume_ratio |-> volume_ratio, vwap_distance |-> vwap_distance]

MCIndicators ==
  {Reading(600, TRUE, 10, 400, -60), Reading(-200, FALSE, 80, 50, 60),
   Reading(100, FALSE, 50, 150, -10)}

MCWeightSets ==
  {[momentum |-> 35, rsi |-> 25, volume |-> 20, vwap |-> 20, sma |-> 20],
   [momentum |-> 0, rsi |-> 10, volume |-> 0, vwap |-> 0, sma |-> 10],
   [momentum |-> 35, rsi |-> 25, volume |-> -20, vwap |-> 20, sma |-> 20]}

MCResults == {-1, 2}
=============================================================================
