# Verification of the algo trading terminal

TLA+ models of the order path of the trading terminal (C++, `src/`), checked with
TLC on small instances and, where it matters most, proved for every instance with
TLAPS.  Paths below are those of the repository.

## 1. The system

`src/src/main.cpp` wires a small part of the repository into one process:

```
 exchange ticks --> strategies --> OrderManager.process_signal --> queue
   (tick thread)    generate_signal   CircuitBreaker.can_trade       |
                                      RiskManager.can_submit_order   v
                                                          processor thread
                                     exchange.place_order <-- process_orders
                                     RiskManager.on_order_filled
```

| Component | State | Operations | Called by |
|---|---|---|---|
| RiskManager (`live/risk.hpp`) | limits, quantity per symbol, total exposure, daily P&L, trades today; one mutex | `can_submit_order`, `on_order_filled`, `update_daily_pnl`, `reset_daily`, `set_limits` | tick thread (check), processor thread (booking) |
| OrderManager (`live/order_manager.hpp`) | order queue, active orders, running flag, three counters; queue mutex, orders mutex, condition variable; two threads of its own | `start`, `stop`, `process_signal`, `process_orders`, `check_order_status` | tick thread, main, signal handler |
| CircuitBreaker (`live/circuit_breaker.hpp`) | daily P&L, trade count, tripped flag (atomic), time of the last reset; one mutex | `can_trade`, `record_trade`, `check_and_reset_daily`, `reset` | tick thread; EnhancedIntraday |
| MomentumStrategy, WeightedStrategy (`strategies/`) | per symbol: price window, in_position, pending_exit, entry, high, trailing stop; P&L, positions | `generate_signal`, `on_order_filled`, `on_order_rejected` | tick thread; nobody calls the callbacks |
| MockExchange (`exchange/mock_exchange.hpp`) | balance, mock price, symbols, running flag | `place_order`, `get_balance`, `run`, `stop` | everybody |
| AlpacaAdapter, AlpacaClient (`exchange/`) | one curl handle, socket, connected and streaming flags, last known orders; poll and socket threads | REST calls, WebSocket, order poll | everybody |
| MarketHours, Config | none; key/value map | opening times; parsing | main |

The rest of the repository is compiled or compilable but not instantiated by
`main`: TradingCore, PnLTracker, PositionManager, MarketDataAggregator and its
LRU cache, HistoricalData, PaperEngine, LockFreeQueue, EnhancedIntraday, VWAP,
RegimeDetector, KellyPositionSizer, Dashboard, the web servers, Logger and
Profiler.  The repository has no tests.

What is hard here:

- *Check, then act.*  The gate decides on the tick thread and the books are
  written on the processor thread, after a network call.  Everything approved in
  between is approved against stale books, and against a balance it has not been
  paid from.
- *Lost answers.*  `place_order` returns an empty id both for a refused order and
  for one whose answer was lost.
- *Shutdown.*  The signal handler itself stops the exchange and the OrderManager,
  on top of whatever main was doing, another handler included; it may come before
  there is something to stop, exceptions lead out of main past it, the socket it
  closes does not wake its reader, and the OrderManager's notification is not made
  under the mutex.
- *Two-phase positions.*  A strategy changes its state when it emits a signal and
  again when the order is resolved; resolutions and later signals interleave.
- *Split critical sections.*  `can_trade` reads its flag outside its mutex,
  `get_last_tick` reads the cache outside the aggregator's.
- *A shared handle.*  Four threads set options on one curl handle, which keeps
  them from call to call.
- *A stream of bytes.*  `recv` returns pieces that need not be frames, and blocks
  where nobody wakes it.
- *Wiring.*  Callbacks nobody calls, a breaker nobody feeds, limits never set.

`PROJECT.json` lists each of these at its line under "hazards", with the
properties that cover it or the reason why none does.

What makes each component correct, in a sentence:

- RiskManager: limits are exceeded only by what was in flight, and never when
  calls do not overlap.
- OrderManager: each approved order reaches the exchange once, in order; each is
  counted once; nothing moves after `stop` returned, and `stop` returns.
- CircuitBreaker: tripped means shut until the counters are cleared, and a trip
  has a cause.
- The process: Ctrl+C ends it, and no tick finds the strategies destroyed.
- The wired program: exposure covers the money that is out, cash falls below
  its floor only by what was in flight, a strategy sells its own lot.
- Strategies: one lot at most, belief agrees with the exchange when nothing is in
  flight, every position is given up in the end.
- AlpacaClient: requests arrive as asked, answers go to their callers, trades
  arrive in order, `disconnect` returns and leaves nothing behind.
- LockFreeQueue: a bounded FIFO.  The cache: evicts the least recently used,
  readers never go back.  PositionManager and PnLTracker: the same realised P&L.
  PaperEngine: balance and positions are what its orders say.
- Config: settings are those of the file's outline.  MarketHours: the time of
  waiting is right.

## 2. Modules

### RiskManager, RiskClients, RiskClientsProofs

`RiskManager` has the object's fields as variables (same names) and one operator
per method.  Every method runs under the object's mutex, so each is one step.
`CanSubmitOrder` is a predicate because the method changes nothing.  The C++ map
drops a symbol at zero; an absent symbol and a symbol at zero are the same state,
so `positions` is a total function.  Money is an integer.  `PriceUsed` is the 1.0
that the order path uses for a market order without a price.

`RiskClients` lets any number of threads check (`Approve`), then book (`Fill`) or
give up (`Drop`), while `RecordPnl`, `StartDay` and `ChangeLimits` call the
methods that the order path never calls.

### OrderManager, OrderGateway, OrderManagerProofs

`OrderManager` composes the RiskManager with the four threads of the order path.
An action is what a thread does between two points at which another may
interfere: taking or leaving `m_queue_mutex`, the test of the wait predicate, the
wait, a call on the exchange, the bookkeeping after it.

| Action | Code |
|---|---|
| Start | `start` |
| BeginSignal, RiskPass, RiskBlock, Push, Notify | `process_signal`: loop over the orders, gate, queue, notify_one |
| LoopHead, Acquire, TestPredicate, Block, SpuriousWakeup | `process_orders` up to the end of `m_cv.wait` |
| Pop, LeaveDrain, Relock | the inner loop |
| Accept, Refuse, LoseReply | `m_exchange.place_order` |
| Confirm, Fail | what follows an id, and an empty id |
| StatusExits | `check_order_status` |
| StopFlag, StopNotify, StopJoin | `stop`, statement by statement |

`Confirm` is one step although the code has three (active_orders, the counter,
the RiskManager): only the processor writes the first two and no other thread
reads them, so the interleavings are the same.  The mutex is not a variable: the
processor holds it exactly in the states `test`, `block` and `drain`, and the
tick thread only within one step.  The wait set of the condition variable is the
processor when `c_pc = "waiting"`; a notification at any other time is lost, as in
C++.  A tripped breaker makes `process_signal` return without a trace, so
`BeginSignal` is simply not taken; the breaker itself is the module CircuitBreaker.

Ghost variables (`signals`, `examined`, `sent`, `broker_position`, `lost`,
`backlog`, `stop_mark`) record history; no guard but the bound on `signals` reads
them.

`OrderGateway` is the abstract specification: pending orders, sent orders and a
phase, no threads.  `OrderManager` maps itself to it with `GatewayPending` (the order
in hand until it is placed, then the queue) and `GatewayPhase` (which follows
`stop_pc`); `ImplementsGateway` is the refinement with its liveness.

No strategy of the repository puts more than one order in a signal; `process_signal`
loops over any number, and the instance has a signal of two so that the loop and its
`continue` are exercised.

### CircuitBreaker, CircuitBreakerProofs

`can_trade` in three steps (daily reset, load of the flag, decision), `record_trade`
and `reset`, any number of threads.  Losses are counted in units of which
`LossLimit` make `daily_loss_limit * initial_capital`.  Time is the age of
`last_reset`, up to a day.

### MomentumStrategy, LotMachine, LotProtocol, StrategiesProofs

One symbol.  A tick chooses a price and what the indicators say; stop, high,
take-profit, hold time and the two flags follow the code.  `Fill` and `Reject`
resolve the oldest outstanding order, as the single processor thread does, and
call the callbacks if `CallbacksWired`.  The exchange does not sell what it does
not hold.

`LotProtocol` is the abstract specification of what a strategy may order: one lot,
bought, perhaps sold, with at most one sell outstanding, which may be on its way
before its buy is resolved.  It counts the buys on their way, the lots held and the sells
on their way, and the refinement maps to these counts what is outstanding and held: a
second lot or a second sell would be a step that the protocol has not.  MomentumStrategy
and the three strategies below implement it (`FollowsProtocol`, `LotsKept`).

`LotMachine` holds what the other strategies share: the two flags, `Strategy::positions`,
the orders outstanding and their resolution.  A strategy EXTENDS it and says when it
enters and exits.

`StrategiesProofs` extends MomentumStrategy and instantiates MCStrategies, so that the two
proofs about one protocol stand in one module; the constants and variables it declares are
those that MCStrategies has and MomentumStrategy has not.

### WeightedStrategy, VwapStrategy, EnhancedIntraday, PositionSizing

`WeightedStrategy` computes the score from the indicators as the code does, in
ten-thousandths: the five part scores, the weights normalised by `set_weights`, the
bonus for three confirmations with its cap.  `set_weights` refuses only a total that is
not positive, so weights are integers; that the score is between 0 and 1 is stated of
those that are not negative, and the instance has a negative one too.  Stop, high,
take-profit and hold time follow the code.

`VwapStrategy` has one VWAP and one pair of flags for all symbols, as the class
does, and is fed with two symbols: an exit may be signalled for a symbol that was not
bought, which the exchange then rejects.

`EnhancedIntraday` composes the same machine with `PositionSizing`, which holds the
Kelly sizer and the regime detector as operators on the lists of returns and
volumes.  `Decide` covers the order of the code's tests: breaker, regime, size, exit,
entry; a tripped breaker or a crash returns before the exit.  Sizes are in units of a
share, rounded down, and `HalfSize`, half of `position_size`, says how many such units
there are.  `update_pnl` may be called at any time.  What `SizesBounded` shows of sizes:

- An exit sells a size computed when it is due, so a round trip may leave shares behind:
  the largest size less the smallest at most.  At high prices the smallest is a quarter
  of the capital.
- A buy is for a quarter of the capital at most.
- The Kelly fraction decides no size, whatever returns were fed: the 1% of the capital it
  is at least, over a stop of 2%, is half the capital, and the cap of a quarter cuts it.
  So the fraction of 0.25 that the sizer returns without a loss does no harm.

### Terminal, TerminalProofs

The life of the process: main from the market check to the destruction of the
globals, `connect`, `run`, `stop` and `disconnect` of both exchanges, the OrderManager's
start and stop, its processor, the tick callback with the mutexes it takes, the
status and the two Alpaca threads, and the signal handler.

| Action | Code |
|---|---|
| CheckMarket .. StartManager | `main`, statement by statement |
| RunMock, FeedEnds | `MockExchange::run`, which feeds ticks on the main thread |
| RunAlpaca | `AlpacaAdapter::run`, which starts the status thread and returns |
| Account | `get_account_info` before the OrderManager is made, which may throw |
| LoopEnds, LoopThrows, SummaryThrows | the status loop of `main`, an exception caught around it, and one after it that nobody catches |
| SignalArrives, HandlerBegins | `signal_handler` |
| SignalNests, JoinThrows | a second signal during the handler, whose `stop` may join what the first is joining |
| SignalElsewhere | a signal that main has blocked, taken by another thread |
| StopAdapter, JoinPoll, Disconnect, JoinClient | `AlpacaAdapter::stop` down to `AlpacaClient::disconnect` |
| StopManager, StopNotify, StopJoin | `OrderManager::stop` |
| TickSignals, ReadBalance, CheckRisk, Enqueue, Notify | the tick callback |
| StatusThreadEnds, OrdersThreadEnds | the loops of the status thread and of the order poll |
| StreamChecks, RecvReturns | the loop of the streaming thread, and its `recv` |
| ThreadThrows | a REST reply that throws on a thread that catches nothing |
| DestroyStrategies, DestroyExchange, Exit | static destruction, in reverse order of definition |

The handler runs on the main thread, which the kernel prefers; main is suspended with
the mutexes it holds.  It is installed for SIGINT and SIGTERM, and each blocks only itself:
the other may interrupt the handler and runs it from the beginning (`outer` is where the
first one stands).  Of three signals two are of one kind, so one that is blocked on main
goes to another thread if there is one: its `stop` comes to join the thread it runs on, or
one that main is joining, and the exception has no handler there, so the process is
terminated (`pc = "aborted"`).  A nested handler that joins what the interrupted one is
joining throws as well, which may terminate the process or unwind to main's `catch`.

No signal arrives during the destruction of the globals, where the handler would use
objects that are going away.  That what the handler prints and allocates is not
async-signal-safe is left out too.  Orders are only counted.

What the exceptions in `InterruptEnds` and `TicksFindStrategies` stand for, all of them
behaviours of the code that the model has:

- In mock mode the tick callback runs on the interrupted thread.  If it holds
  `m_queue_mutex`, the processor that the handler joins may wait for it: the handler
  never returns.  The same if it holds the mutex of the balance or of the RiskManager.
- `MockExchange::run` sets `m_running`; a signal before that is forgotten, and main
  feeds ticks until the next signal.
- The OrderManager's lost wakeup (`MCStopReturns.cfg`).
- `AlpacaClient::disconnect` closes the socket and joins the streaming thread, which
  `close` does not wake: if its `recv` gets nothing any more, the handler waits for ever.
- A signal between the construction of the Alpaca adapter and `connect`, or an
  exception that leaves the status loop or the handler, leaves the stream alive while the
  strategies are destroyed.

A process terminated by an exception has ended too, so `InterruptEnds` counts it.

### TradingSystem, TradingSystemProofs

The trading loop as wired to MockExchange: the walk of the price, each symbol's tick
to each strategy in turn, the balance read before the gate, the gate, the queue, the
processor that places at the price of the moment and books at the price on the order.
Since nobody calls the strategies back, each enters a symbol once and leaves it once.
Nobody calls `record_trade` either: the breaker never trips and is left out.

Facts about the wired program that the model shows and that no property states:

- A sell books its own price, so exposure drifts: with nothing held it may be
  positive, and refuse buys.
- A strategy whose buy was blocked still exits, and then sells another strategy's
  lot; the mock exchange goes short without complaint.
- MockExchange reports its cash as equity, so the return that `main.cpp` computes "from
  equity, not raw cash" (its FIX #9) falls with every buy.
- `m_mock_price` is read by `place_order` without the mutex under which it is written;
  the model reads it atomically.

### AlpacaRest, AlpacaStream, AlpacaProofs

`AlpacaRest` has `send_request` as four steps on the shared curl handle (target and
callback data, method, perform, return) by any number of threads; the handle keeps its
options.  `CURLOPT_CUSTOMREQUEST` set by a DELETE is never reset, so later calls carry
it.  The server answers, refuses, acts and stays silent.  A DELETE is
answered by 204 without a body, which `cancel_order` takes for a failure.  The poll
asks for open orders only: an order that fills leaves the answer, so the cache keeps
"new" for ever.  The quantity is truncated to whole shares; the caller books what it
asked for.

`AlpacaStream` has `connect`, the handshake, the streaming thread, the frames and
`disconnect`.  A frame is two halves, `recv` returns any number of them.  A second frame
in one chunk is dropped and a frame cut in two is lost.  The thread ends silently when
the peer closes: nobody reconnects and `m_streaming` stays true.  The socket of a failed
handshake stays open until `disconnect`.  `close` does not wake a `recv`.

The two share `m_connected` only, which does not matter to the REST side once calls
are made, so a behaviour of `MCAlpaca` runs one and leaves the other at rest.

### SpscQueue, BoundedFifo, LibraryProofs

`push`, `pop` and the producer's `size`, one access to shared memory at a time (release and
acquire make the order of accesses the order of the program). `BoundedFifo` is the abstract
queue: a sequence and an answer to each call.  The refinement maps the slots from head to
tail to the sequence.  No code uses the class. `LibraryProofs` holds the theorems about the
queue, the cache, the clock, the accounts and the parser.

### MarketData, Books, PaperEngine

`MarketData`: `on_tick` in its steps (cache, history, last price and subscribers under the
mutex), `get_last_tick` that reads the cache without it, the other readers and `clear`
with it.  A subscriber that calls the aggregator back locks the mutex twice; the
model assumes none does.

`Books`: PositionManager and PnLTracker fed with one stream of fills, as TradingCore
would.  Closing a position erases its record and with it the realised P&L, which
`forgotten` accounts for; PnLTracker keeps it.

`PaperEngine`: market orders with slippage and commission, pending orders, cancel,
reset to any balance (`opening` remembers which).  A filled order can be cancelled; balance
and positions stay.

### ConfigFile, MarketHours

`ConfigFile` reads a file line by line as `load_from_file` does (sections by indent,
lists recognised by looking one line ahead, bracketed lists, defaults) and builds the
strategies as `create_strategies` does.  The reference is the outline of the file.
A key is a section unless an item follows it.  A bracketed list, and a section that ends
the file, leave `pending_list_key` as it was; the reference takes only files whose indentation
is well formed.

`MarketHours` runs a clock through a week.  `seconds_until_open` always answers 9:30 of the
next calendar day: on a trading day before 9:30 it says a day too much, on Friday evening
and on Saturday it promises an opening that does not come.  `OpensWhenSaid` excludes these
times and no others.

### Faulty variants

Definitions introduced by "Faulty variant" are copies of an action or helper with
a plausible mistake (a dropped guard, an off-by-one, a missing reset, a missing
lock).  Nothing uses them; `PROJECT.json` ("mutants") pairs each with a property
that fails when the variant takes the place of the original.

## 3. Runs

| Run | Expect | Shows |
|---|---|---|
| `MCRiskClients.cfg` | pass | overshoot of exposure and trades by other threads' orders in flight, no more |
| `MCOrderManager.cfg` | pass | all safety properties of the order path with the inductive invariant, the refinement of `OrderGateway` with its liveness, and that `stop` returns if its notification is heard |
| `MCNeverShort.cfg` | violation | the short-sell guard passes two sells of one lot |
| `MCStopReturns.cfg` | violation | a lost wakeup: `stop` blocks for ever in `join` |
| `MCCircuitBreaker.cfg` | pass | breaker safety with three threads, and that it opens again |
| `MCMomentumStrategy.cfg` | pass | the position machine with its callbacks called, and the refinement of `LotProtocol` |
| `MCUnwiredExit.cfg` | violation | as wired, the first exit stays pending for ever |
| `Terminal.cfg` | pass | an interrupt ends the process, also one during the handler, and no tick outlives the strategies, outside the cases named in section 2 |
| `MCTradingSystem.cfg` | pass | exposure covers the money that is out; cash falls below `min_balance` by the backlog at most; a strategy oversells only after its own buy failed |
| `MCAlpaca.cfg` | pass | undisturbed calls, true answers, trades in order, and what `disconnect` guarantees |
| `MCLibrary.cfg` | pass | queue, cache, books, paper account, configuration and clock against their references |
| `MCStrategies.cfg` | pass | the three other strategies keep the one-lot protocol; scores and sizes keep their bounds |

In `MCAlpaca`, `MCLibrary` and `MCStrategies` a variable chosen at the start says which
part a behaviour exercises; the others stay in an initial state.  The parts share no
state in the program, so this loses nothing.  Assumptions on the constants of the
modules instantiated there are ASSUMEd in those MC modules.

Behaviours of the code that contradict nothing written, and so have no run: a trade
may pass `can_trade` while the flag is set (it is loaded before the mutex is taken and
the other conditions are fine again), P&L is booked when an exit is signalled and again when the
rejected exit is retried, an accepted order whose answer is lost is never booked.

### Bounds

- RiskClients: two threads, two symbols, four orders (market and priced, both
  sides), two limit records.  The two bounds are reached exactly: exposure 6 =
  4 + 2, trades 4 = 3 + 1.  `MaxPnl` bounds the P&L on both sides of the loss
  limit.  The proofs cover any number of threads.
- OrderManager: `MaxSignals` 3, one of the signals has two orders.  That is enough for a buy,
  its booking, and two overlapping sells; for a full drain with an order popped and more than
  one behind it when `stop` comes; and for the trade limit of 2 to be passed.  Deadlock is
  not checked: when signals are used up and `stop` has returned, the system has ended.
- CircuitBreaker: three threads, a trade limit of 3 that two late threads pass, a
  loss that trips in one trade and gains that take it back, a day of two ticks.
- MomentumStrategy: four prices around an entry at 10 with stop and take-profit
  within reach, two entries and two rejections: a rejected entry with its exit on
  the way, an exit rejected and tried again.  A window of two ticks in place of 50:
  the window only delays the first entry.
- Terminal: three signals: one that came too early, one that interrupts main, one that
  interrupts the handler or goes to another thread; two orders in the queue.  Deadlock is
  not checked: the process ends.
- TradingSystem: two symbols, two strategies of different size, prices 1 and 2, four
  signals, cash 10 with a floor of 8: one lot fits, a second approved on the same balance
  passes the floor.  With a backlog of one the bound is 2 and is reached exactly, with
  none it is 6; `place_order` itself would only stop at 0.  A blocked buy, its exit and the
  sale of the other strategy's lot happen too.
- Alpaca: two threads, three calls, two orders, quantities that truncate to 0 and to 1:
  enough for a DELETE before another call and for an overlap in every step.
  Three frames: a frame cut in two, two in one chunk, and one after a loss.
- Library: a ring of four slots and five pushes (the indices wrap with the ring full);
  three symbols through a cache of two and five uses; four trades of up to three shares (a
  sell of part of two lots, and beyond what is held); three paper orders at two rates on
  accounts opened with much, with little and with a debt; files
  of four lines at three depths; a week at half hours, which are the code's
  boundaries.
- Strategies: two entries and one rejection, windows of three and two, histories of two
  returns, one reading of the indicators for entry, for exit and for neither, weights with
  one that is negative.  A position of 4 and a capital of 2600: at the price of 400 a
  quarter of it pays for 1, less than half a position, at 100 for the 6 of a bull market.

### Fairness

- OrderManager: weak fairness for each thread that has work (the scheduler), for
  the exchange's answer (calls time out after ten seconds), and for a `stop` once
  begun.  None for the arrival of signals, for the call of `stop`, or for spurious
  wakeups; the lost wakeup would be hidden by fair spurious wakeups.
- CircuitBreaker: time passes and each thread keeps calling `can_trade`, as the tick
  thread does while strategies emit signals.  `reset` is not fair.
- MomentumStrategy: ticks arrive, time passes, each order is resolved.  Rejections
  are bounded by `MaxRejections`: an exchange that rejects every exit for ever
  keeps the position open, as it should.
- Terminal: every thread that can run does, REST calls return (libcurl's timeout), the
  market opens.  Strong fairness for the processor alone: the feeder pauses between
  ticks, so the queue mutex is free again and again.  `recv` need not return, and signals,
  ticks, exceptions and spurious wakeups need not come.
- AlpacaStream: main and both threads run; a `recv` with nothing to read returns only if the
  peer closes, which it need not.  `DisconnectReturns` excepts only the behaviours in
  which it stays there for ever, with the peer open and nothing sent.
- The other modules state safety only.

## 4. Proofs

All theorems are for every value of the constants that meets the named assumptions
(`OrdersAssumption`, `LimitsAssumption`, `PricesAssumption`, `SizeAssumption`, ...); each
assumption is an ASSUME that TLC evaluates for the instance it checks.  They ask for finitely many
symbols, orders that are records of whole numbers, files that are sequences of lines, a
Kelly window of one return at least, and what their comments say where they ask for more.
Every inductive invariant below is a conjunction of named parts, and its step lemma has a
case for each action.

**RiskClients.**  `TradesInv`: the trades booked and the approved orders together stay
under the bound, since an approval sees the count below some limit record's and every
other thread holds one order at most.  `ExposureInv`: among the threads holding an
approved buy there is one whose order fits under the bound together with one order of
the maximum size for each of the others.  Right after an approval it is the order just
approved; when that one is booked first, any other will do, because no order is larger
than `OrderCap`.  The existential is needed because limits may change between approval
and booking, so nothing else is known of an order approved earlier.

**OrderManager.**  `InductiveInvariant` is the type invariant, `LifecycleInv`
(the flag is only set between start and stop; `stop` has seen the processor out),
`CountInv` (an approved order is in exactly one of push, queue, hand; the trades
booked and the orders still to be booked stay within limit plus backlog; at most
one order is placed after the flag is cleared), `SerialInv` (with no backlog at
most one order is outstanding and what the gate saw of it still holds) and the two
relations between the RiskManager's positions and the exchange's.  `CountInv` is
needed because the properties speak of booked orders only, and booking consumes
what approval established earlier; `SerialInv` carries the gate's decision from
approval to booking.  The invariant is checked by TLC too.

*Exposure* (`ExposureOvershoot`).  The orders outstanding stand in a line: the one in
hand, the queue, the one approved and not pushed yet.  `OvershootInv`: a buy with n
orders ahead of it would, booked now, leave the exposure under the limit and one maximum
order for each of the backlog but those n.  An approval sees the exposure under the limit
and the line no longer than the backlog; a booking adds one maximum order at most and
moves everybody up by one.

*Refinement* (`GatewayRefined`).  Initial states map to the gateway's; `Push` is `Queue`,
`Accept`, `Refuse` and `LoseReply` are `Send` or, once `stop` has begun, `SendLast`,
`StopFlag` is `Close`, and every other step stutters.  `Pop` stutters because the order in
hand still counts as pending; that it happens before any stop is `LifecycleInv`.

**CircuitBreaker.**  `ShutInv`: a thread whose call began while the flag was set is
still before the load of the flag or out again, and the flag is still set.  `LossInv`:
`worst` bounds the P&L and explains the flag.  `TradeInv`: the trades counted and the
threads that may still count one stay under the bound.

**Strategies.**  For MomentumStrategy, `LotInv` names the four situations in which ticks and
answers may find the machine (nothing on order, the entry, the exit, the exit behind its
entry) and what flags and holding are in each; `Transition` lists the moves between them,
which are those of `LotProtocol`, whose counts the situations fix.  `CallbacksWired` is a hypothesis of these two theorems: as
`main` wires the class they are false, which `MCUnwiredExit.cfg` shows. `StopRises` needs no
callbacks: `StopInv` ties the stop to the highest price.  The other three strategies share
`LotMachineInv`, the same situations in the terms of LotMachine.  What they decide with
(scores, VWAP, regimes, sizes) does not enter: `LotMoves` reduces each of their steps to five
moves of the machine.  That is why the theorem holds for any sizes: the invariant speaks of
the order of the answers and not of quantities.  For the VWAP strategy `BoughtInv` adds that
all orders are for one share and that only the symbol bought is held. *Score*
(`ScoreIsFraction`): each part score is between 0 and 1; if no weight is negative a part
counts for no more than its weight, and a sum no larger than the total of the weights,
divided by it, is no larger than 1; the bonus is capped.  With a negative weight only the
type is claimed.  The hypothesis `Readings` (the total is positive, which `set_weights` sees
to; RSI is a percentage; volumes are not negative) is assumed in MCStrategies too. *Types*
(`StrategiesTyped`): `LotTypesKept` says that a step of the machine that orders symbols of S
in quantities of Q keeps the types of S and Q, and each strategy names its own. *Sizes*
(`SizesStayBounded`): the Kelly sizer risks 1% at least (`KellyRisks`: whatever the returns,
also where the divisions of the code are by zero), which over the stop of 2% is more than
the quarter of the capital it is cut to (`SizeIsQuarter`); the regime allows one half of
the position to three.  So a size lies between the smallest and the largest
(`SizeLimits`, `FinalSizes`).  `SizeInv`: a buy outstanding is affordable at the entry price,
which is only forgotten when no buy is left to compare with it; what is held is at most the
difference of the two for each round trip, and the largest size more while the lot is
held.  It is inductive with `LotMachineInv`: a buy is filled only while the lot is ordered,
so a second size never comes on top of the first.  The hypothesis `Amounts` says of what
kind the constants are (prices are positive, capital and sizes whole units) and nothing of
how large.

**TradingSystem.**  `StateOK` is the type of all but the turns.  *Exposure*: a placed order
moves the exposure by what the books will say and the cash by what the exchange paid, the
difference being `slipped`; the clamp at zero only helps.  *Lots* (`LotsInv`): a
strategy's sell stands behind its own buy in the queue, or the buy is filled, or it
failed; and there is one sell at most.  It must be said for every place in the queue, since
the queue is what carries the order of the two to the exchange.  *Cash* (`CashInv`): a buy
in place n was approved on a balance that the n - 1 orders ahead of it have not been
paid from, and each of these costs `LargestSize * High` at most.

**Terminal.**  `CallbackInv` says which thread may be in the tick callback, `ShutdownInv`
that a signal past the connection is still stopping the stream or has seen its thread
out, so that when main reaches the end of its loop nothing is left to run a callback.  A
handler that interrupts another changes nothing in that: it begins to stop the stream anew,
and the interrupted one goes on when the thread is out.  The ghost `unstopped` marks the ways
out that skip this, a signal before there was something to stop and an exception out of the
loop or the handler (section 2).

**Alpaca.**  *REST*: `HandleInv` says what of a caller's options is in the shared handle
at each of the four steps, as long as no calls overlapped; the custom verb is empty until
a DELETE.  `AnswerInv` says what a caller may have been told of an order, at every stage of its
call and for any interleaving, and that the cache never knows more than the server; the
server's records only move on (`ServerKeeps`).  *Stream*: every half frame has a place in the
stream of bytes (`Place`); wire, chunk in hand and frames delivered are consecutive pieces of
it (`WireInv`, `ChunkInv`, `DeliveredInv`), wherever `recv` cut it.  *Disconnect*:
`SocketInv` follows the four statements of `disconnect`.

**Library.**  *Queue*: `RingInv` says what a thread's load of the other's index is still good
for after the other has moved: room found is still there, an item found is still there, and
the head loaded by `size` only lags behind.  `ContentsInv` is the sequence of the slots between the
indices; a store appends to it or removes its head, and every other access is a stutter of
`BoundedFifo`.  *Cache*: the list is sorted by the time of the last use (`Sorted`), so its
end is the least recently used.  `ReadInv`: what each reader may be given (cache, history, last
price) is at least as new as what was announced; between the steps of `on_tick` the newest
tick is the one in the writer's hands (`Due`).  *Clock* (`HoursInv`): a promise is of today's
opening or of tomorrow's, and none was missed, but in the times excluded.  `StepAssumption`
(the step divides 30 minutes) is used: no opening falls between two readings.

*Books* (`AccountsHold`): each symbol's lots are the same in both books (`EntriesAgree` in
`BooksInv`), and a trade moves cash, realised P&L and the cost of what is left by amounts that
cancel.  For a sell that is `SellTotals`, an invariant of the loop over the lots: what has
been taken, what is left and what was earned account for the lots looked at so far, and the
loop sells everything or empties the book.  *Paper account* (`PaperInv`): balance, less
what the account was opened with, and positions are sums over the orders filled; a fill adds one member to them, and nothing else touches a
filled order.  *Types* (`TypeCorrect`): the parts outside these need small invariants of their
own (`QueueRest`, `ConfigInv`), each a record of what the calls may leave behind.

*Parser* (`OutlineFollowed`): `OutlineInv` says that after n lines settings and lists are
those the first n lines say (`SettingsRead`, `ListsRead`), that the open sections are the
section lines to which everything since is indented deeper (`OpenAfter`), and that the list
pending is the last one begun, as long as nothing but items followed (`PendingRead`).  What
is open around a key is what is open around its parent, and the parent (`AroundKey`), so the
prefix the parser sorts together is the path (`FullKeyIsPath`, by induction over the lines);
well-formedness is needed for the items in between, each of which is deeper than the head of
its list (`ItemHasHead`).  `InOrder` is a CHOOSE over the sequences that rise, because the
prover knows nothing of `SortSeq`; that there is one and no other is proved (`RisingExists`,
`RisingUnique`), and that a number larger than all others comes last (`InOrderGrows`).

*Sums.*  The community modules define folds by recursion on a function chosen with CHOOSE, and
the library's induction theorems cannot be used here (their parameter is an operator), so the
facts are proved once: that the function exists (`FoldExists`), by induction on the number of
members, from the least number for which there would be none (`LeastNatural`, from the
well-foundedness of <); that any member may be taken off first (`SumTakesAny`); and that
replacing one value moves the sum by the difference (`SumReplaces`).  StrategiesProofs has the
same lemmas for its own sums, since a module of proofs here extends one component.

### Model-checked only

- Liveness, alone or in a refinement: it needs fairness, which the prover does not treat.
  These are `InterruptEnds`, `StopReturnsIfHeard`, `TripIsTemporary`, `PositionIsClosed`,
  `DisconnectReturns` and the liveness part of `ImplementsGateway`.

Every invariant and action property of the passing runs is proved.

## 5. Not modelled, and the plan

Not modelled for good:

- output, logging, formatting, the contents of JSON and CSV, number conversion, the
  arithmetic of indicators (their results are arbitrary inputs);
- TradingCore, which nothing instantiates and which only calls what MarketData and Books
  model; the web servers, which nothing starts; Dashboard, HistoricalData, Logger, Profiler;
- of AlpacaClient: quotes, bars and outgoing frames; of PositionManager and PnLTracker: fees
  and marks to market; of the strategies outside MomentumStrategy: P&L.

What a next step would prove: a type for the turns of TradingSystem, which its invariants do
not need.
