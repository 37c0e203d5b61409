----------------------------- MODULE MCLibrary -----------------------------
(***************************************************************************)
(* The parts of the program that the trading loop does not drive, checked  *)
(* in one run: every behaviour exercises one of them, chosen at the start. *)
(*                                                                         *)
(*   queue   a ring of 4 slots and 5 pushes                                *)
(*   market  3 symbols through a cache of 2                                *)
(*   books   lots of 1 and 2 shares, sold in parts and beyond the holding  *)
(*   paper   orders at a price and at the default one, at two rates, with  *)
(*           some cash and, after a reset, more or a debt                  *)
(*   config  files of 4 lines, with three depths                           *)
(*   hours   a week, at half hours                                         *)
(***************************************************************************)
EXTENDS Integers, Sequences, TLC

CONSTANTS
  Components, Capacity, Items, MaxPushes, CacheCapacity, KeepTicks, MaxUses,
  Symbols, Prices, Quantities, MaxTrades,
  Coins, PaperOrders, Rates, Balances, DefaultPrice, MaxOrders,
  Files, ListPaths, ActivePath, Defaults, DefaultLists, Known, Step

VARIABLES
  comp,   \* the part exercised
  head, tail, buffer, p_pc, p_item, c_pc, c_item, p_head, p_size,
  push_answer, pop_answer, pushes, pops,
  cache, symbol_ticks, last_prices, subscribers, pc, tick, uses, last_use, newest,
  positions, trackers, realized, received, paid, forgotten, trades,
  orders, paper_positions, balance, rate, opening,
  file, i, section_at_indent, pending_list_key, settings, lists, strategies, phase,
  day, minute, promised, early

queueVars == <<head, tail, buffer, p_pc, p_item, c_pc, c_item, p_head, p_size,
               push_answer, pop_answer, pushes, pops>>
marketVars == <<cache, symbol_ticks, last_prices, subscribers, pc, tick, uses, last_use, newest>>
bookVars == <<positions, trackers, realized, received, paid, forgotten, trades>>
paperVars == <<orders, paper_positions, balance, rate, opening>>
configVars == <<file, i, section_at_indent, pending_list_key, settings, lists, strategies, phase>>
hourVars == <<day, minute, promised, early>>

Queue == INSTANCE SpscQueue
Market == INSTANCE MarketData WITH Capacity <- CacheCapacity
Ledger == INSTANCE Books
Paper == INSTANCE PaperEngine WITH Symbols <- Coins, Orders <- PaperOrders, positions <- paper_positions
Config == INSTANCE ConfigFile
Hours == INSTANCE MarketHours

ASSUME QueueAssumptions == Queue!CapacityAssumption /\ Queue!MaxPushesAssumption
ASSUME MarketAssumptions ==
  Market!CapacityAssumption /\ Market!KeepTicksAssumption /\ Market!MaxUsesAssumption
ASSUME LedgerAssumptions ==
  Ledger!SymbolsAssumption /\ Ledger!InputsAssumption /\ Ledger!MaxTradesAssumption
ASSUME PaperAssumptions ==
  Paper!OrdersAssumption /\ Paper!RatesAssumption /\ Paper!MoneyAssumption
ASSUME ConfigAssumptions == Config!PathsAssumption /\ Config!FilesAssumption
ASSUME HoursAssumptions == Hours!StepAssumption

----------------------------------------------------------------------------
\* Only the part exercised starts in every state it may start in.
FixedUnless(c, value, fixed) == comp = c \/ value = fixed

Init ==
  /\ comp \in Components
  /\ Queue!Init /\ Market!Init /\ Ledger!Init /\ Paper!Init /\ Config!Init /\ Hours!Init
  /\ FixedUnless("queue", buffer, [s \in 0 .. Capacity - 1 |-> CHOOSE x \in Items : TRUE])
  /\ FixedUnless("paper", rate, CHOOSE r \in Rates : TRUE)
  /\ FixedUnless("paper", opening, CHOOSE b \in Balances : TRUE)
  /\ FixedUnless("config", file, <<>>)
  /\ FixedUnless("hours", day, 0)

Next ==
  /\ UNCHANGED comp
  /\ \/ /\ comp = "queue" /\ Queue!Next
        /\ UNCHANGED <<marketVars, bookVars, paperVars, configVars, hourVars>>
     \/ /\ comp = "market" /\ Market!Next
        /\ UNCHANGED <<queueVars, bookVars, paperVars, configVars, hourVars>>
     \/ /\ comp = "books" /\ Ledger!Next
        /\ UNCHANGED <<queueVars, marketVars, paperVars, configVars, hourVars>>
     \/ /\ comp = "paper" /\ Paper!Next
        /\ UNCHANGED <<queueVars, marketVars, bookVars, configVars, hourVars>>
     \/ /\ comp = "config" /\ Config!Next
        /\ UNCHANGED <<queueVars, marketVars, bookVars, paperVars, hourVars>>
     \/ /\ comp = "hours" /\ Hours!Next
        /\ UNCHANGED <<queueVars, marketVars, bookVars, paperVars, configVars>>

vars == <<comp, queueVars, marketVars, bookVars, paperVars, configVars, hourVars>>

Spec == Init /\ [][Next]_vars

----------------------------------------------------------------------------
\* Indices, maps and amounts keep their ranges: the ring's indices wrap, an
\* order of the paper engine always has a status, no count goes below zero.
TypeOK ==
  /\ Queue!TypeOK /\ Market!TypeOK /\ Ledger!TypeOK /\ Paper!TypeOK
  /\ Config!TypeOK /\ Hours!TypeOK

\* lock_free_queue.hpp: the ring is a FIFO, its threads never meet in a slot
\* and size() never promises the producer room there is not.
QueueIsFifo == Queue!ImplementsFifo /\ []Queue!SlotsApart /\ Queue!SizeNeverUnderstates

\* cache.hpp and market_data.hpp: the least recently used symbol is the one
\* evicted, and no reader is taken back to an older tick.
CacheIsSound == []Market!EvictsLeastRecent /\ Market!ReadsNeverGoBack

\* positions.hpp, pnl_tracker.hpp and paper_engine.hpp: realized gains are
\* the cash flow of what was sold, the two books of one set of fills agree,
\* and balance and positions of a paper account are what its orders say.
AccountsAgree == Ledger!RealizedIsCashFlow /\ Ledger!BooksAgree /\ Paper!LedgerReconstructs

\* config.hpp: the settings and lists read are those of the file's outline.
ParserFollowsOutline == Config!ParserFollowsOutline

\* market_hours.hpp: the time of waiting shown is right where it can be.
OpensWhenSaid == Hours!OpensWhenSaid

----------------------------------------------------------------------------
\* The paper account: buying and selling one and two shares of two symbols,
\* and one order that is not a market order.
MCOrders ==
  [symbol : Coins, is_buy : BOOLEAN, market : {TRUE}, quantity : {1}, price : {0}]
  \cup [symbol : {"A"}, is_buy : BOOLEAN, market : {TRUE}, quantity : {2}, price : {2}]
  \cup [symbol : {"A"}, is_buy : {TRUE}, market : {FALSE}, quantity : {1}, price : {2}]
MCBalances == {60000, 30000, -10000}
MCRates == {[slippage |-> 0, commission |-> 0], [slippage |-> 10, commission |-> 5]}

\* Lines that may follow the head of a section "strategies": sections and
\* lists, settings, items and a bracketed list, at three depths.
MCLine(n) ==
  [indent : {0, 2, 4}, kind : {"empty"}, text : {"strategies", "active"}, value : {""}]
  \cup [indent : {0, 2, 4}, kind : {"scalar"}, text : {"mode"}, value : {n}]
  \cup [indent : {2, 4}, kind : {"item"}, text : {"-"}, value : {"momentum"}]
  \cup [indent : {0, 2}, kind : {"inline"}, text : {"active"}, value : {"weighted"}]
MCHead == [indent |-> 0, kind |-> "empty", text |-> "strategies", value |-> ""]
MCFiles == {<<>>} \cup {<<MCHead>> \o rest : rest \in MCLine("2") \X MCLine("3") \X MCLine("4")}
MCActivePath == <<"strategies", "active">>
MCListPaths == {MCActivePath}
MCDefaults == <<"strategies", "mode">> :> "default"
MCDefaultLists == MCActivePath :> <<"momentum">>
=============================================================================
