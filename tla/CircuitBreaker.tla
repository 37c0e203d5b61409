--------------------------- MODULE CircuitBreaker ---------------------------
(***************************************************************************)
(* src/src/live/circuit_breaker.hpp, used by several threads.  can_trade   *)
(* is three critical sections: the daily reset under the mutex, a load of  *)
(* the atomic tripped flag with no mutex, and the decision under the mutex *)
(* again.  record_trade and reset are one section each.                    *)
(*                                                                         *)
(* A thread that can_trade lets through makes its trade and may record the *)
(* result, as the comment on record_trade asks.  Losses are counted in     *)
(* units of which LossLimit make daily_loss_limit * initial_capital.       *)
(* Time since last_reset is kept as an age that stops at a day: no code    *)
(* asks for more.                                                          *)
(***************************************************************************)
EXTENDS Integers, FiniteSets

CONSTANTS
  Threads,
  Results,         \* realised results record_trade may be given
  LossLimit,       \* loss at which can_trade trips
  MaxDailyTrades,  \* max_daily_trades
  Day,             \* 86400 seconds, in clock ticks
  MaxPnl           \* bound: P&L explored stays within -MaxPnl .. MaxPnl

ASSUME ThreadsAssumption == IsFiniteSet(Threads) /\ Threads # {}
ASSUME ResultsAssumption == Results \subseteq Int
ASSUME BoundsAssumption ==
  /\ LossLimit \in Nat \ {0} /\ MaxDailyTrades \in Nat \ {0}
  /\ Day \in Nat \ {0} /\ MaxPnl \in Nat

VARIABLES
  daily_pnl, trade_count, tripped,
  age,          \* now - last_reset, up to Day
  pc,           \* where each thread is
  \* What follows is not in the program.
  began_tripped,  \* the thread's call to can_trade began when tripped was
                  \*   set, and no reset has cleared it since
  worst           \* lowest daily_pnl since the counters were last cleared

vars == <<daily_pnl, trade_count, tripped, age, pc, began_tripped, worst>>

TypeOK ==
  /\ daily_pnl \in Int /\ worst \in Int
  /\ trade_count \in Nat
  /\ tripped \in BOOLEAN
  /\ age \in 0 .. Day
  /\ pc \in [Threads -> {"idle", "load", "decide", "trade"}]
  /\ began_tripped \in [Threads -> BOOLEAN]

Init ==
  /\ daily_pnl = 0 /\ trade_count = 0 /\ tripped = FALSE
  /\ age = 0
  /\ pc = [t \in Threads |-> "idle"]
  /\ began_tripped = [t \in Threads |-> FALSE]
  /\ worst = 0

----------------------------------------------------------------------------
LossExceeded == -daily_pnl >= LossLimit

\* Faulty variant: the flag is not cleared.
ClearCountersOnly ==
  /\ daily_pnl' = 0 /\ trade_count' = 0
  /\ worst' = 0
  /\ began_tripped' = [t \in Threads |-> FALSE]
  /\ UNCHANGED tripped

ClearCounters ==
  /\ daily_pnl' = 0 /\ trade_count' = 0 /\ tripped' = FALSE
  /\ worst' = 0
  /\ began_tripped' = [t \in Threads |-> FALSE]

Tick ==
  /\ age < Day
  /\ age' = age + 1
  /\ UNCHANGED <<daily_pnl, trade_count, tripped, pc, began_tripped, worst>>

\* can_trade begins: check_and_reset_daily.
CheckAndResetDaily(t) ==
  /\ pc[t] = "idle"
  /\ pc' = [pc EXCEPT ![t] = "load"]
  /\ \/ /\ age >= Day
        /\ ClearCounters
        /\ age' = 0
     \/ /\ age < Day
        /\ began_tripped' = [began_tripped EXCEPT ![t] = tripped]
        /\ UNCHANGED <<daily_pnl, trade_count, tripped, age, worst>>

\* Faulty variant: the flag is not looked at.
LoadTrippedIgnored(t) ==
  /\ pc[t] = "load"
  /\ pc' = [pc EXCEPT ![t] = "decide"]
  /\ UNCHANGED <<daily_pnl, trade_count, tripped, age, began_tripped, worst>>

\* if (tripped.load()) return false;
LoadTripped(t) ==
  /\ pc[t] = "load"
  /\ pc' = [pc EXCEPT ![t] = IF tripped THEN "idle" ELSE "decide"]
  /\ UNCHANGED <<daily_pnl, trade_count, tripped, age, began_tripped, worst>>

\* Faulty variant: reaching the trade count trips the breaker too.
HaltAlwaysTrips(t) ==
  /\ pc[t] = "decide"
  /\ LossExceeded \/ trade_count >= MaxDailyTrades
  /\ tripped' = TRUE
  /\ pc' = [pc EXCEPT ![t] = "idle"]
  /\ UNCHANGED <<daily_pnl, trade_count, age, began_tripped, worst>>

\* The rest of can_trade, under the mutex, when it returns false ...
Halt(t) ==
  /\ pc[t] = "decide"
  /\ LossExceeded \/ trade_count >= MaxDailyTrades
  /\ tripped' = (tripped \/ LossExceeded)
  /\ pc' = [pc EXCEPT ![t] = "idle"]
  /\ UNCHANGED <<daily_pnl, trade_count, age, began_tripped, worst>>

\* Faulty variant: one trade too many per day.
AllowOffByOne(t) ==
  /\ pc[t] = "decide"
  /\ ~LossExceeded /\ trade_count <= MaxDailyTrades
  /\ pc' = [pc EXCEPT ![t] = "trade"]
  /\ UNCHANGED <<daily_pnl, trade_count, tripped, age, began_tripped, worst>>

\* ... and when it returns true.
Allow(t) ==
  /\ pc[t] = "decide"
  /\ ~LossExceeded /\ trade_count < MaxDailyTrades
  /\ pc' = [pc EXCEPT ![t] = "trade"]
  /\ UNCHANGED <<daily_pnl, trade_count, tripped, age, began_tripped, worst>>

RecordTrade(t) ==
  /\ pc[t] = "trade"
  /\ \E pnl \in Results :
       /\ daily_pnl + pnl \in -MaxPnl .. MaxPnl
       /\ daily_pnl' = daily_pnl + pnl
       /\ worst' = IF daily_pnl + pnl < worst THEN daily_pnl + pnl ELSE worst
  /\ trade_count' = trade_count + 1
  /\ pc' = [pc EXCEPT ![t] = "idle"]
  /\ UNCHANGED <<tripped, age, began_tripped>>

\* The order was blocked or refused later on: there is nothing to record.
NoTrade(t) ==
  /\ pc[t] = "trade"
  /\ pc' = [pc EXCEPT ![t] = "idle"]
  /\ UNCHANGED <<daily_pnl, trade_count, tripped, age, began_tripped, worst>>

\* reset() clears what the daily reset clears but leaves last_reset.
Reset == ClearCounters /\ UNCHANGED <<age, pc>>

Next ==
  \/ Tick
  \/ Reset
  \/ \E t \in Threads :
       \/ CheckAndResetDaily(t) \/ LoadTripped(t) \/ Halt(t) \/ Allow(t)
       \/ RecordTrade(t) \/ NoTrade(t)

Spec == Init /\ [][Next]_vars

\* Time passes, and every thread keeps calling can_trade and finishes what
\* it has begun.  Nobody has to call reset.
FairSpec ==
  /\ Spec
  /\ WF_vars(Tick)
  /\ \A t \in Threads :
       WF_vars(CheckAndResetDaily(t) \/ LoadTripped(t) \/ Halt(t) \/ Allow(t)
               \/ RecordTrade(t) \/ NoTrade(t))

----------------------------------------------------------------------------
\* A call to can_trade that began after the breaker tripped is never let
\* through unless the counters were cleared meanwhile, whatever trades are
\* recorded while it runs.
TrippedStaysShut == \A t \in Threads : began_tripped[t] => pc[t] # "trade"

\* A tripped breaker is explained: the day's P&L did reach the limit since
\* the counters were last cleared.
TripExplained == tripped => -worst >= LossLimit

\* Threads may overshoot the daily trade count, since counting is not part of
\* the check, by one trade for every other thread.
TradeCountBounded == trade_count <= MaxDailyTrades + Cardinality(Threads) - 1

\* A breaker that has tripped opens again: the next day's first call resets
\* it, without anybody calling reset.
TripIsTemporary == tripped ~> ~tripped
=============================================================================
