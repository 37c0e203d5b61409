---------------------------- MODULE VwapStrategy ----------------------------
(***************************************************************************)
(* VWAPStrategy of src/src/strategies/vwap_strategy.hpp.  One VWAP and one *)
(* pair of flags serve every symbol the strategy is given ticks of, so an  *)
(* exit may be signalled for a symbol that was never bought.  P&L and      *)
(* commissions are left out.                                               *)
(***************************************************************************)
EXTENDS LotMachine

CONSTANTS
  Prices, Volumes,
  MaxVolume        \* bound: cumulative volume

VolumesAssumption == Prices \subseteq Nat /\ Volumes \subseteq Nat /\ MaxVolume \in Nat

VARIABLES
  cumulative_pv, cumulative_v,
  bought           \* the symbol of the lot held.  Not in the program.

vars == <<lotVars, cumulative_pv, cumulative_v, bought>>

TypeOK ==
  /\ LotTypeOK
  /\ cumulative_pv \in Nat /\ cumulative_v \in 0 .. MaxVolume
  /\ bought \subseteq Symbols

Init ==
  /\ LotInit
  /\ cumulative_pv = 0 /\ cumulative_v = 0 /\ bought = {}

----------------------------------------------------------------------------
\* VWAPData::update: a tick without volume changes nothing.
Update(price, volume) ==
  /\ cumulative_v + volume <= MaxVolume
  /\ cumulative_v' = cumulative_v + volume
  /\ cumulative_pv' = cumulative_pv + price * volume

\* price / vwap > 1.005 and < 0.998, and there is a vwap.
AboveVwap(price) == cumulative_v' > 0 /\ price * cumulative_v' * 1000 > cumulative_pv' * 1005
BelowVwap(price) == cumulative_v' > 0 /\ price * cumulative_v' * 1000 < cumulative_pv' * 998

ExitDue(price) == in_position /\ ~pending_exit /\ AboveVwap(price)
EntryDue(price) == ~in_position /\ ~pending_exit /\ BelowVwap(price)

Tick ==
  /\ \E s \in Symbols, price \in Prices, volume \in Volumes :
       /\ Update(price, volume)
       /\ IF ExitDue(price) THEN Exit(s, 1)
          ELSE IF EntryDue(price) /\ entries < MaxEntries THEN Enter(s, 1)
          ELSE Quiet
  /\ UNCHANGED bought

\* reset_vwap, at the start of a session: the position is kept.
ResetVwap ==
  /\ cumulative_v # 0
  /\ cumulative_pv' = 0 /\ cumulative_v' = 0
  /\ Quiet /\ UNCHANGED bought

OnOrderFilled ==
  /\ Filled /\ SellFillClears(Oldest)
  /\ bought' = IF Oldest.is_buy THEN {Oldest.symbol} ELSE {}
  /\ UNCHANGED <<cumulative_pv, cumulative_v>>

\* Faulty variant: any rejection ends the position.
OnOrderRejectedFlat ==
  /\ Rejected
  /\ in_position' = FALSE /\ pending_exit' = (Oldest.is_buy /\ pending_exit)
  /\ UNCHANGED <<cumulative_pv, cumulative_v, bought>>

OnOrderRejected ==
  /\ Rejected /\ RejectClears(Oldest)
  /\ UNCHANGED <<cumulative_pv, cumulative_v, bought>>

Next == Tick \/ ResetVwap \/ OnOrderFilled \/ OnOrderRejected

Spec == Init /\ [][Next]_vars

----------------------------------------------------------------------------
\* Although exits may be signalled for any symbol, what is held is one share
\* of the symbol bought, and no exit for another symbol ever closes it.
HoldsWhatWasBought ==
  /\ lot = "held" <=> bought # {}
  /\ \A s \in Symbols : holding[s] = (IF s \in bought THEN 1 ELSE 0)
=============================================================================
