------------------------ MODULE CircuitBreakerProofs ------------------------
(***************************************************************************)
(* The safety properties of CircuitBreaker, for any number of threads, any *)
(* results, any limits and any length of day.                              *)
(***************************************************************************)
EXTENDS CircuitBreaker, FiniteSetTheorems, TLAPS

\* The threads that were let through and have not reported back.
Trading == {t \in Threads : pc[t] = "trade"}

\* A thread whose call began tripped is still before the load of the flag, or
\* out again, and the flag is still set.
ShutInv == \A t \in Threads : began_tripped[t] => tripped /\ pc[t] \in {"idle", "load"}

LossInv == worst <= daily_pnl /\ (tripped => -worst >= LossLimit)

\* Every thread let through may still count one trade.
TradeInv ==
  trade_count + Cardinality(Trading) <= MaxDailyTrades + Cardinality(Threads) - 1

Inv == TypeOK /\ ShutInv /\ LossInv /\ TradeInv

----------------------------------------------------------------------------
\* There are at most as many threads let through as there are threads.
LEMMA TradingSize ==
  /\ IsFiniteSet(Trading)
  /\ Cardinality(Trading) \in Nat /\ Cardinality(Threads) \in Nat
  /\ Cardinality(Trading) <= Cardinality(Threads)
  /\ Cardinality(Threads) >= 1
<1>1. IsFiniteSet(Threads) /\ Threads # {}
  BY ThreadsAssumption
<1>2. IsFiniteSet(Trading) /\ Cardinality(Trading) <= Cardinality(Threads)
  BY <1>1, FS_Subset DEF Trading
<1>3. QED
  BY <1>1, <1>2, FS_CardinalityType, FS_EmptySet

\* The first state satisfies the invariant.
LEMMA InitInv == Init => Inv
<1> SUFFICES ASSUME Init PROVE Inv
  OBVIOUS
<1>1. TypeOK
  <2>1. tripped \in BOOLEAN /\ began_tripped \in [Threads -> BOOLEAN]
    BY DEF Init
  <2>2. pc \in [Threads -> {"idle", "load", "decide", "trade"}]
    BY DEF Init
  <2>3. QED
    BY <2>1, <2>2, BoundsAssumption DEF Init, TypeOK
<1>2. ShutInv /\ LossInv
  BY DEF Init, ShutInv, LossInv
<1>3. Trading = {}
  BY DEF Init, Trading
<1>4. Cardinality(Trading) <= 0
  BY <1>3, FS_EmptySet
<1>5. TradeInv
  BY <1>4, TradingSize, BoundsAssumption DEF Init, TradeInv
<1>6. QED
  BY <1>1, <1>2, <1>5 DEF Inv

\* What clearing the counters leaves is well typed.
LEMMA ClearType ==
  ASSUME ClearCounters
  PROVE  /\ daily_pnl' \in Int /\ worst' \in Int /\ trade_count' \in Nat
         /\ tripped' \in BOOLEAN
         /\ began_tripped' \in [Threads -> BOOLEAN]
<1>1. tripped' \in BOOLEAN /\ began_tripped' \in [Threads -> BOOLEAN]
  BY DEF ClearCounters
<1>2. QED
  BY <1>1 DEF ClearCounters

\* Every step keeps the state well typed.
LEMMA TypeStep == ASSUME TypeOK, [Next]_vars PROVE TypeOK'
<1> USE DEF TypeOK
<1>1. CASE Tick
  BY <1>1, BoundsAssumption DEF Tick
<1>2. CASE Reset
  BY <1>2, ClearType DEF Reset
<1>3. ASSUME NEW t \in Threads, CheckAndResetDaily(t) PROVE TypeOK'
  <2>1. pc' \in [Threads -> {"idle", "load", "decide", "trade"}]
    BY <1>3 DEF CheckAndResetDaily
  <2>2. CASE ClearCounters /\ age' = 0
    BY <2>1, <2>2, ClearType, BoundsAssumption
  <2>3. CASE ~(ClearCounters /\ age' = 0)
    <3>1. /\ UNCHANGED <<daily_pnl, trade_count, tripped, age, worst>>
          /\ began_tripped' = [began_tripped EXCEPT ![t] = tripped]
      BY <1>3, <2>3 DEF CheckAndResetDaily
    <3>2. QED
      BY <2>1, <3>1
  <2>4. QED
    BY <2>2, <2>3
<1>4. ASSUME NEW t \in Threads, LoadTripped(t) PROVE TypeOK'
  BY <1>4 DEF LoadTripped
<1>5. ASSUME NEW t \in Threads, Halt(t) PROVE TypeOK'
  <2>1. tripped' \in BOOLEAN
    BY <1>5 DEF Halt
  <2>2. QED
    BY <1>5, <2>1 DEF Halt
<1>6. ASSUME NEW t \in Threads, Allow(t) \/ NoTrade(t) PROVE TypeOK'
  BY <1>6 DEF Allow, NoTrade
<1>7. ASSUME NEW t \in Threads, RecordTrade(t) PROVE TypeOK'
  BY <1>7, ResultsAssumption DEF RecordTrade
<1>8. CASE UNCHANGED vars
  BY <1>8 DEF vars
<1>9. QED
  BY <1>1, <1>2, <1>3, <1>4, <1>5, <1>6, <1>7, <1>8 DEF Next

\* Only clearing the counters clears the flag, and it forgets the calls that
\* began under it.
LEMMA ShutStep == ASSUME TypeOK, ShutInv, [Next]_vars PROVE ShutInv'
<1> USE DEF TypeOK, ShutInv
<1>1. CASE Tick
  BY <1>1 DEF Tick
<1>2. CASE Reset
  BY <1>2 DEF Reset, ClearCounters
<1>3. ASSUME NEW t \in Threads, CheckAndResetDaily(t) PROVE ShutInv'
  BY <1>3 DEF CheckAndResetDaily, ClearCounters
<1>4. ASSUME NEW t \in Threads, LoadTripped(t) PROVE ShutInv'
  BY <1>4 DEF LoadTripped
<1>5. ASSUME NEW t \in Threads, Halt(t) PROVE ShutInv'
  BY <1>5 DEF Halt
<1>6. ASSUME NEW t \in Threads, Allow(t) \/ NoTrade(t) PROVE ShutInv'
  BY <1>6 DEF Allow, NoTrade
<1>7. ASSUME NEW t \in Threads, RecordTrade(t) PROVE ShutInv'
  BY <1>7 DEF RecordTrade
<1>8. CASE UNCHANGED vars
  BY <1>8 DEF vars
<1>9. QED
  BY <1>1, <1>2, <1>3, <1>4, <1>5, <1>6, <1>7, <1>8 DEF Next

\* The flag is set under the mutex by a loss that is on record.
LEMMA LossStep == ASSUME TypeOK, LossInv, [Next]_vars PROVE LossInv'
<1> USE DEF TypeOK, LossInv
<1>1. CASE Tick
  BY <1>1 DEF Tick
<1>2. CASE Reset
  BY <1>2 DEF Reset, ClearCounters
<1>3. ASSUME NEW t \in Threads, CheckAndResetDaily(t) PROVE LossInv'
  BY <1>3 DEF CheckAndResetDaily, ClearCounters
<1>4. ASSUME NEW t \in Threads, LoadTripped(t) \/ Allow(t) \/ NoTrade(t) PROVE LossInv'
  BY <1>4 DEF LoadTripped, Allow, NoTrade
<1>5. ASSUME NEW t \in Threads, Halt(t) PROVE LossInv'
  <2>1. LossExceeded => -worst >= LossLimit
    BY BoundsAssumption DEF LossExceeded
  <2>2. QED
    BY <1>5, <2>1 DEF Halt
<1>6. ASSUME NEW t \in Threads, RecordTrade(t) PROVE LossInv'
  <2>1. PICK pnl \in Results :
          /\ daily_pnl' = daily_pnl + pnl
          /\ worst' = IF daily_pnl + pnl < worst THEN daily_pnl + pnl ELSE worst
    BY <1>6 DEF RecordTrade
  <2>2. pnl \in Int /\ UNCHANGED tripped
    BY <1>6, ResultsAssumption DEF RecordTrade
  <2>3. QED
    BY <2>1, <2>2, BoundsAssumption
<1>7. CASE UNCHANGED vars
  BY <1>7 DEF vars
<1>8. QED
  BY <1>1, <1>2, <1>3, <1>4, <1>5, <1>6, <1>7 DEF Next

\* Letting a thread through uses up its room in the count; reporting back
\* moves the trade from the thread to the count.
LEMMA TradeStep == ASSUME TypeOK, TradeInv, [Next]_vars PROVE TradeInv'
<1>1. /\ trade_count \in Nat /\ MaxDailyTrades \in Nat \ {0}
      /\ Cardinality(Trading) \in Nat /\ Cardinality(Threads) \in Nat
      /\ Cardinality(Threads) >= 1 /\ IsFiniteSet(Trading)
  BY TradingSize, BoundsAssumption DEF TypeOK
<1>2. /\ Cardinality(Trading') \in Nat
      /\ Cardinality(Trading') <= Cardinality(Threads)
  <2>1. IsFiniteSet(Threads) /\ Trading' \subseteq Threads
    BY ThreadsAssumption DEF Trading
  <2>2. QED
    BY <2>1, FS_Subset, FS_CardinalityType
\* A step after which the counters are clear.
<1>3. ASSUME trade_count' = 0 PROVE TradeInv'
  <2>1. trade_count' <= 0 /\ trade_count' \in Nat
    BY <1>3
  <2>2. QED
    BY <1>1, <1>2, <2>1 DEF TradeInv
\* A step that counts nothing and lets nobody through.
<1>4. ASSUME UNCHANGED trade_count, Trading' \subseteq Trading PROVE TradeInv'
  <2>1. Cardinality(Trading') <= Cardinality(Trading)
    BY <1>1, <1>4, FS_Subset
  <2>2. QED
    BY <1>1, <1>2, <1>4, <2>1 DEF TradeInv
<1>5. CASE Tick
  BY <1>5, <1>4 DEF Tick, Trading
<1>6. CASE Reset
  BY <1>6, <1>3 DEF Reset, ClearCounters
<1>7. ASSUME NEW t \in Threads, CheckAndResetDaily(t) PROVE TradeInv'
  <2>1. Trading' \subseteq Trading
    BY <1>7 DEF CheckAndResetDaily, Trading, TypeOK
  <2>2. QED
    BY <1>7, <2>1, <1>3, <1>4 DEF CheckAndResetDaily, ClearCounters
<1>8. ASSUME NEW t \in Threads, LoadTripped(t) \/ Halt(t) \/ NoTrade(t) PROVE TradeInv'
  <2>1. Trading' \subseteq Trading /\ UNCHANGED trade_count
    BY <1>8 DEF LoadTripped, Halt, NoTrade, Trading, TypeOK
  <2>2. QED
    BY <2>1, <1>4
<1>9. ASSUME NEW t \in Threads, Allow(t) PROVE TradeInv'
  <2>1. trade_count' = trade_count /\ trade_count < MaxDailyTrades
    BY <1>9 DEF Allow
  <2>2. QED
    BY <1>1, <1>2, <2>1 DEF TradeInv
<1>10. ASSUME NEW t \in Threads, RecordTrade(t) PROVE TradeInv'
  <2>1. t \in Trading /\ Trading' = Trading \ {t}
    BY <1>10 DEF RecordTrade, Trading, TypeOK
  <2>2. Cardinality(Trading') = Cardinality(Trading) - 1
    BY <1>1, <2>1, FS_RemoveElement
  <2>3. trade_count' = trade_count + 1
    BY <1>10 DEF RecordTrade
  <2>4. QED
    BY <1>1, <2>2, <2>3 DEF TradeInv
<1>11. CASE UNCHANGED vars
  BY <1>11, <1>4 DEF vars, Trading
<1>12. QED
  BY <1>5, <1>6, <1>7, <1>8, <1>9, <1>10, <1>11 DEF Next

----------------------------------------------------------------------------
\* The invariant holds in every behaviour.
THEOREM Invariance == Spec => []Inv
<1>1. Inv /\ [Next]_vars => Inv'
  BY TypeStep, ShutStep, LossStep, TradeStep DEF Inv
<1>2. QED
  BY InitInv, <1>1, PTL DEF Spec

\* However many threads call it, a call to can_trade that began tripped is
\* never let through.
THEOREM TrippedStaysShutHolds == Spec => []TrippedStaysShut
<1>1. Inv => TrippedStaysShut
  BY DEF Inv, ShutInv, TrippedStaysShut
<1>2. QED
  BY Invariance, <1>1, PTL

\* A tripped breaker has seen a loss of the limit since the last clearing.
THEOREM TripExplainedHolds == Spec => []TripExplained
<1>1. Inv => TripExplained
  BY DEF Inv, LossInv, TripExplained
<1>2. QED
  BY Invariance, <1>1, PTL

\* The overshoot of the daily trade count, for any number of threads.
THEOREM TradeCountBoundedHolds == Spec => []TradeCountBounded
<1>1. ASSUME Inv PROVE TradeCountBounded
  <2>1. trade_count \in Nat /\ MaxDailyTrades \in Nat
    BY <1>1, BoundsAssumption DEF Inv, TypeOK
  <2>2. trade_count + Cardinality(Trading) <= MaxDailyTrades + Cardinality(Threads) - 1
    BY <1>1 DEF Inv, TradeInv
  <2>3. QED
    BY <2>1, <2>2, TradingSize DEF TradeCountBounded
<1>2. QED
  BY Invariance, <1>1, PTL
=============================================================================
