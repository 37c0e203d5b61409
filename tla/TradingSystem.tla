--------------------------- MODULE TradingSystem ---------------------------
(***************************************************************************)
(* The trading loop as src/src/main.cpp wires it to MockExchange: the      *)
(* price walks, every symbol's tick goes to every strategy in turn, the    *)
(* OrderManager gates what they emit with the balance the exchange         *)
(* reports, and the processor thread places the orders at the price the    *)
(* exchange has by then.                                                   *)
(*                                                                         *)
(* Nobody calls the strategies back, so each enters a symbol once and      *)
(* leaves it once, whatever became of its orders; the indicators are       *)
(* arbitrary.  Nobody calls record_trade either, so the CircuitBreaker     *)
(* lets every signal pass and is not in the model.  The exchange sells     *)
(* whatever it is told to.  ask and bid are the price.                     *)
(***************************************************************************)
EXTENDS RiskManager, Sequences, SequencesExt

CONSTANTS
  Strategies,    \* g_strategies
  SymbolList,    \* m_symbols, in order of subscription
  Size(_),       \* m_position_size of a strategy
  StartBalance,
  Low, High,     \* the walk's limits
  MaxSignals     \* bound: signals emitted

ASSUME SymbolListAssumption == SymbolList \in Seq(Symbols)
ASSUME StrategiesAssumption == IsFiniteSet(Strategies) /\ Strategies # {}
ASSUME SizeAssumption == \A st \in Strategies : Size(st) \in Nat \ {0}
ASSUME WalkAssumption == Low \in Nat \ {0} /\ High \in Nat /\ Low <= High
ASSUME StartAssumption == StartBalance \in Nat /\ StartBalance >= Limits.min_balance
ASSUME MaxSignalsAssumption == MaxSignals \in Nat

VARIABLES
  price,         \* m_mock_price
  balance,       \* m_balance
  turns,         \* the (symbol, strategy) pairs left in this round of ticks
  in_position, pending_exit,   \* of each strategy, by symbol
  asked,         \* the order being gated and the balance it was read with
  order_queue,   \* m_order_queue
  placed,        \* the order placed and not yet booked (<<>> if none)
  \* What follows is not in the program.
  bought,        \* what each strategy's own orders add up to, by symbol
  failed,        \* strategies' buys that were blocked or refused
  backlog,       \* most approved orders unplaced when a balance was read
  slipped        \* what fills cost more than the prices on the orders

strategyVars == <<in_position, pending_exit>>
brokerVars == <<balance, bought, slipped>>
vars == <<riskVars, price, turns, strategyVars, asked, order_queue, placed, brokerVars,
          failed, backlog>>

Owned == [order : Order, owner : Strategies]

TypeOK ==
  /\ RiskTypeOK
  /\ price \in Low .. High /\ balance \in Nat
  /\ turns \in Seq(Symbols \X Strategies)
  /\ in_position \in [Strategies -> [Symbols -> BOOLEAN]]
  /\ pending_exit \in [Strategies -> [Symbols -> BOOLEAN]]
  /\ asked \in Seq([order : Order, owner : Strategies, balance : Nat])
  /\ order_queue \in Seq(Owned) /\ placed \in Seq(Owned)
  /\ Len(asked) <= 1 /\ Len(placed) <= 1
  /\ bought \in [Strategies -> [Symbols -> Int]]
  /\ failed \subseteq Strategies \X Symbols
  /\ backlog \in Nat /\ slipped \in Int

Init ==
  /\ RiskInit
  /\ price \in Low .. High
  /\ balance = StartBalance
  /\ turns = <<>>
  /\ in_position = [st \in Strategies |-> [s \in Symbols |-> FALSE]]
  /\ pending_exit = in_position
  /\ asked = <<>> /\ order_queue = <<>> /\ placed = <<>>
  /\ bought = [st \in Strategies |-> [s \in Symbols |-> 0]]
  /\ failed = {} /\ backlog = 0 /\ slipped = 0

----------------------------------------------------------------------------
StrategyList == SetToSeq(Strategies)

\* One turn of the loop in MockExchange::run: a step of the walk, then a tick
\* for every symbol, and in the tick callback every strategy.
NextRound ==
  /\ turns = <<>>
  /\ price' \in {p \in Low .. High : p - price \in {-1, 0, 1}}
  /\ turns' = [n \in 1 .. Len(SymbolList) * Len(StrategyList) |->
                 <<SymbolList[((n - 1) \div Len(StrategyList)) + 1],
                   StrategyList[((n - 1) % Len(StrategyList)) + 1]>>]
  /\ UNCHANGED <<riskVars, strategyVars, asked, order_queue, placed, brokerVars, failed, backlog>>

Turn(s, st) == turns # <<>> /\ asked = <<>> /\ Head(turns) = <<s, st>>

\* Each signal sets one flag for good.
Signals ==
  Cardinality({x \in Strategies \X Symbols : in_position[x[1]][x[2]]})
  + Cardinality({x \in Strategies \X Symbols : pending_exit[x[1]][x[2]]})

OrderOf(s, st, is_buy) ==
  [symbol |-> s, quantity |-> Size(st), price |-> price, is_buy |-> is_buy]

Unplaced == Len(order_queue)

\* Faulty variant: the balance is the one reported at the start.
AskOpeningBalance(s, st, is_buy) ==
  /\ Signals < MaxSignals
  /\ asked' = <<[order |-> OrderOf(s, st, is_buy), owner |-> st, balance |-> StartBalance]>>
  /\ backlog' = IF Unplaced > backlog THEN Unplaced ELSE backlog
  /\ UNCHANGED <<riskVars, price, order_queue, placed, brokerVars, failed>>

\* process_signal: the breaker passes, the exchange's balance is read.
Ask(s, st, is_buy) ==
  /\ Signals < MaxSignals
  /\ asked' = <<[order |-> OrderOf(s, st, is_buy), owner |-> st, balance |-> balance]>>
  /\ backlog' = IF Unplaced > backlog THEN Unplaced ELSE backlog
  /\ UNCHANGED <<riskVars, price, order_queue, placed, brokerVars, failed>>

\* generate_signal returns nothing.
NoSignal ==
  /\ turns # <<>> /\ asked = <<>>
  /\ turns' = Tail(turns)
  /\ UNCHANGED <<riskVars, price, strategyVars, asked, order_queue, placed, brokerVars,
                 failed, backlog>>

Enter(s, st) ==
  /\ Turn(s, st) /\ ~in_position[st][s] /\ ~pending_exit[st][s]
  /\ in_position' = [in_position EXCEPT ![st][s] = TRUE]
  /\ Ask(s, st, TRUE)
  /\ UNCHANGED <<turns, pending_exit>>

\* Faulty variant: an exit is signalled without a position.
LeaveUnentered(s, st) ==
  /\ Turn(s, st) /\ ~pending_exit[st][s]
  /\ pending_exit' = [pending_exit EXCEPT ![st][s] = TRUE]
  /\ Ask(s, st, FALSE)
  /\ UNCHANGED <<turns, in_position>>

Leave(s, st) ==
  /\ Turn(s, st) /\ in_position[st][s] /\ ~pending_exit[st][s]
  /\ pending_exit' = [pending_exit EXCEPT ![st][s] = TRUE]
  /\ Ask(s, st, FALSE)
  /\ UNCHANGED <<turns, in_position>>

Failed(a) == IF a.order.is_buy THEN failed \cup {<<a.owner, a.order.symbol>>} ELSE failed

\* The gate, with the balance read before, and the push.
Gate ==
  /\ asked # <<>>
  /\ LET a == Head(asked)
     IN IF CanSubmitOrder(a.order, a.balance, PriceUsed(a.order))
          THEN /\ order_queue' = Append(order_queue, [order |-> a.order, owner |-> a.owner])
               /\ UNCHANGED failed
          ELSE failed' = Failed(a) /\ UNCHANGED order_queue
  /\ asked' = <<>>
  /\ turns' = Tail(turns)
  /\ UNCHANGED <<riskVars, price, strategyVars, placed, brokerVars, backlog>>

----------------------------------------------------------------------------
SignedQuantity(o) == IF o.is_buy THEN o.quantity ELSE -o.quantity

\* place_order of the mock exchange, at the price of the moment.
Place ==
  /\ order_queue # <<>> /\ placed = <<>>
  /\ LET a == Head(order_queue)
         cost == SignedQuantity(a.order) * price
     IN IF a.order.is_buy /\ balance < cost
          THEN failed' = Failed(a) /\ UNCHANGED <<brokerVars, placed>>
          ELSE /\ balance' = balance - cost
               /\ bought' = [bought EXCEPT ![a.owner][a.order.symbol] =
                               @ + SignedQuantity(a.order)]
               /\ slipped' = slipped + SignedQuantity(a.order) * (price - PriceUsed(a.order))
               /\ placed' = <<a>>
               /\ UNCHANGED failed
  /\ order_queue' = Tail(order_queue)
  /\ UNCHANGED <<riskVars, price, turns, strategyVars, asked, backlog>>

\* Faulty variant: the placeholder price is booked.
BookAtOne ==
  /\ placed # <<>>
  /\ OnOrderFilled(Head(placed).order, 1)
  /\ placed' = <<>>
  /\ UNCHANGED <<price, turns, strategyVars, asked, order_queue, brokerVars, failed, backlog>>

\* The processor tells the RiskManager, with the price on the order.
Book ==
  /\ placed # <<>>
  /\ OnOrderFilled(Head(placed).order, PriceUsed(Head(placed).order))
  /\ placed' = <<>>
  /\ UNCHANGED <<price, turns, strategyVars, asked, order_queue, brokerVars, failed, backlog>>

Next ==
  \/ NextRound \/ NoSignal \/ Gate \/ Place \/ Book
  \/ \E s \in Symbols, st \in Strategies : Enter(s, st) \/ Leave(s, st)

Spec == Init /\ [][Next]_vars

----------------------------------------------------------------------------
PlacedNotional ==
  IF placed = <<>> THEN 0
  ELSE SignedQuantity(Head(placed).order) * PriceUsed(Head(placed).order)

\* total_exposure, with the order placed and not booked, covers the money
\* that is out: fills at another price than the order's are the only
\* difference, although the exposure is floored and the balance is not.
ExposureCoversCash ==
  total_exposure + PlacedNotional + slipped >= StartBalance - balance

LargestSize == CHOOSE n \in {Size(st) : st \in Strategies} :
                 \A st \in Strategies : Size(st) <= n

\* Every approval looks at a balance that the approved orders before it have
\* not been paid from: cash falls below min_balance by at most those orders
\* at the highest price, and by what the price moved before the last fill.
CashOvershoot ==
  balance >= limits.min_balance - backlog * LargestSize * High - LargestSize * (High - Low)

\* A strategy's orders sell more than they bought only if its own buy was
\* blocked or refused: then it sells the lot of another strategy.
SellsOnlyOwnLot ==
  \A st \in Strategies, s \in Symbols : bought[st][s] >= 0 \/ <<st, s>> \in failed
=============================================================================
