---------------------------- MODULE MarketData -----------------------------
(***************************************************************************)
(* MarketDataAggregator of src/src/data/market_data.hpp and the LRU cache  *)
(* of src/src/data/cache.hpp it keeps the last ticks in.  on_tick, clear,  *)
(* subscribe and most reads hold the aggregator's mutex; get_last_tick     *)
(* goes to the cache directly, under the cache's own mutex, so it may come *)
(* between the steps of on_tick and of clear.                              *)
(*                                                                         *)
(* A tick is its symbol and the moment it was taken; its price is not      *)
(* looked at.  The list and the map of the cache change together under its *)
(* mutex and are one sequence, most recently used first.                   *)
(***************************************************************************)
EXTENDS Naturals, Sequences, SequencesExt

CONSTANTS
  Symbols,
  Capacity,    \* LRUCache capacity (10000)
  KeepTicks,   \* history kept per symbol (1000)
  MaxUses      \* bound: puts and successful gets

CapacityAssumption == Capacity \in Nat
KeepTicksAssumption == KeepTicks \in Nat
MaxUsesAssumption == MaxUses \in Nat

VARIABLES
  cache,        \* cache_list with cache_map
  symbol_ticks, last_prices,
  subscribers,  \* how many callbacks are registered
  pc, tick,     \* the holder of the mutex, where it is and its tick
  \* What follows is not in the program.
  uses,         \* puts and successful gets so far: the clock
  last_use,     \* when each symbol was last put or got, 0 if never
  newest        \* the newest tick of each symbol any read has returned

vars == <<cache, symbol_ticks, last_prices, subscribers, pc, tick, uses, last_use, newest>>

TickType == [symbol : Symbols, at : Nat]

TypeOK ==
  /\ cache \in Seq(TickType)
  /\ symbol_ticks \in [Symbols -> Seq(TickType)]
  /\ last_prices \in [Symbols -> Nat]
  /\ subscribers \in Nat
  /\ pc \in {"free", "store", "notify", "clear"} /\ tick \in Seq(TickType)
  /\ uses \in Nat /\ last_use \in [Symbols -> Nat] /\ newest \in [Symbols -> Nat]

Never == [s \in Symbols |-> 0]

Init ==
  /\ cache = <<>> /\ symbol_ticks = [s \in Symbols |-> <<>>] /\ last_prices = Never
  /\ subscribers = 0
  /\ pc = "free" /\ tick = <<>>
  /\ uses = 0 /\ last_use = Never /\ newest = Never

Suffix(s, n) == SubSeq(s, (IF Len(s) > n THEN Len(s) - n ELSE 0) + 1, Len(s))

Cached(s) == {i \in DOMAIN cache : cache[i].symbol = s}

\* The list without the entry of this symbol, if it has one.
Others(s) ==
  IF Cached(s) = {} THEN cache ELSE RemoveAt(cache, CHOOSE i \in Cached(s) : TRUE)

\* Faulty variant: an entry that is there already keeps its place.
PutInPlace(t) ==
  IF Cached(t.symbol) # {}
    THEN [i \in DOMAIN cache |-> IF cache[i].symbol = t.symbol THEN t ELSE cache[i]]
    ELSE SubSeq(<<t>> \o cache, 1, IF Len(cache) < Capacity THEN Len(cache) + 1 ELSE Capacity)

\* LRUCache::put: the entry moves to the front, the last one may go.
Put(t) ==
  LET list == <<t>> \o Others(t.symbol)
  IN SubSeq(list, 1, IF Len(list) > Capacity THEN Capacity ELSE Len(list))

Used(s) == uses' = uses + 1 /\ last_use' = [last_use EXCEPT ![s] = uses + 1]

\* A read returned the tick taken at this time.
Returned(s, at) == newest' = [newest EXCEPT ![s] = at]

----------------------------------------------------------------------------
\* on_tick takes the mutex and caches the tick, files it, then calls the
\* subscribers and unlocks.
OnTick ==
  /\ pc = "free" /\ uses < MaxUses
  /\ \E s \in Symbols :
       /\ tick' = <<[symbol |-> s, at |-> uses + 1]>>
       /\ cache' = Put(tick'[1])
       /\ Used(s)
  /\ pc' = "store"
  /\ UNCHANGED <<symbol_ticks, last_prices, subscribers, newest>>

StoreTick ==
  /\ pc = "store"
  /\ LET t == tick[1]
     IN /\ symbol_ticks' = [symbol_ticks EXCEPT ![t.symbol] = Suffix(Append(@, t), KeepTicks)]
        /\ last_prices' = [last_prices EXCEPT ![t.symbol] = t.at]
  /\ pc' = "notify"
  /\ UNCHANGED <<cache, subscribers, tick, uses, last_use, newest>>

NotifySubscribers ==
  /\ pc = "notify"
  /\ IF subscribers > 0 THEN Returned(tick[1].symbol, tick[1].at) ELSE UNCHANGED newest
  /\ pc' = "free" /\ tick' = <<>>
  /\ UNCHANGED <<cache, symbol_ticks, last_prices, subscribers, uses, last_use>>

Subscribe ==
  /\ pc = "free" /\ subscribers = 0
  /\ subscribers' = 1
  /\ UNCHANGED <<cache, symbol_ticks, last_prices, pc, tick, uses, last_use, newest>>

\* clear empties the cache under its own mutex first.
ClearCache ==
  /\ pc = "free"
  /\ cache' = <<>> /\ last_use' = Never
  /\ pc' = "clear"
  /\ UNCHANGED <<symbol_ticks, last_prices, subscribers, tick, uses, newest>>

ClearRest ==
  /\ pc = "clear"
  /\ symbol_ticks' = [s \in Symbols |-> <<>>] /\ last_prices' = Never
  /\ newest' = Never
  /\ pc' = "free"
  /\ UNCHANGED <<cache, subscribers, tick, uses, last_use>>

----------------------------------------------------------------------------
\* Faulty variant: a read does not count as a use.
GetLastTickPeeks(s) ==
  \E i \in Cached(s) :
    /\ uses < MaxUses
    /\ Used(s)
    /\ Returned(s, cache[i].at)
    /\ UNCHANGED <<cache, symbol_ticks, last_prices, subscribers, pc, tick>>

\* get_last_tick, at any time; a hit moves the entry to the front.
GetLastTick(s) ==
  \E i \in Cached(s) :
    /\ uses < MaxUses
    /\ cache' = <<cache[i]>> \o Others(s)
    /\ Used(s)
    /\ Returned(s, cache[i].at)
    /\ UNCHANGED <<symbol_ticks, last_prices, subscribers, pc, tick>>

\* Faulty variant: the price is read without the mutex.
GetLastPriceUnlocked(s) ==
  /\ last_prices[s] # 0
  /\ Returned(s, last_prices[s])
  /\ UNCHANGED <<cache, symbol_ticks, last_prices, subscribers, pc, tick, uses, last_use>>

\* get_last_price; a symbol never seen has the price 0.
GetLastPrice(s) ==
  /\ pc = "free" /\ last_prices[s] # 0
  /\ Returned(s, last_prices[s])
  /\ UNCHANGED <<cache, symbol_ticks, last_prices, subscribers, pc, tick, uses, last_use>>

\* get_historical_ticks and get_vwap look at the last ticks of the history.
GetHistory(s, count) ==
  /\ pc = "free" /\ symbol_ticks[s] # <<>>
  /\ LET recent == Suffix(symbol_ticks[s], count)
     IN Returned(s, recent[Len(recent)].at)
  /\ UNCHANGED <<cache, symbol_ticks, last_prices, subscribers, pc, tick, uses, last_use>>

Next ==
  \/ OnTick \/ StoreTick \/ NotifySubscribers \/ Subscribe
  \/ ClearCache \/ ClearRest
  \/ \E s \in Symbols : GetLastTick(s) \/ GetLastPrice(s) \/ GetHistory(s, 1)

Spec == Init /\ [][Next]_vars

----------------------------------------------------------------------------
\* A symbol is evicted only when `Capacity` others were used after it, reads
\* from other threads included.
EvictsLeastRecent ==
  /\ Len(cache) <= Capacity
  /\ \A s, t \in Symbols :
       Cached(s) # {} /\ Cached(t) = {} => last_use[s] > last_use[t]
  /\ (\E t \in Symbols : last_use[t] > 0 /\ Cached(t) = {}) => Len(cache) = Capacity

\* Whichever way a caller asks, and whatever half done update it meets, a
\* later answer about a symbol is never older than an earlier one.
ReadsNeverGoBack == [][newest' # Never => \A s \in Symbols : newest'[s] >= newest[s]]_newest
=============================================================================
