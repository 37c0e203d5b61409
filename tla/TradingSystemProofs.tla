------------------------ MODULE TradingSystemProofs ------------------------
(***************************************************************************)
(* What the whole trading loop keeps, for any symbols, strategies, sizes,  *)
(* limits, opening balance and range of prices.                            *)
(***************************************************************************)
EXTENDS TradingSystem, SequenceTheorems, FiniteSetTheorems, WellFoundedInduction, TLAPS

Asked == [order : Order, owner : Strategies, balance : Nat]

\* TypeOK, but for the turns.
StateOK ==
  /\ RiskTypeOK
  /\ price \in Low .. High /\ balance \in Nat
  /\ in_position \in [Strategies -> [Symbols -> BOOLEAN]]
  /\ pending_exit \in [Strategies -> [Symbols -> BOOLEAN]]
  /\ asked \in Seq(Asked)
  /\ order_queue \in Seq(Owned) /\ placed \in Seq(Owned)
  /\ Len(asked) <= 1 /\ Len(placed) <= 1
  /\ bought \in [Strategies -> [Symbols -> Int]]
  /\ failed \subseteq Strategies \X Symbols
  /\ backlog \in Nat /\ slipped \in Int

----------------------------------------------------------------------------
\* Arithmetic the provers want to be told about.
LEMMA Products ==
  ASSUME NEW a \in Int, NEW b \in Int, NEW c \in Int
  PROVE  /\ a * b \in Int /\ a * c \in Int
         /\ a * (b - c) = a * b - a * c
         /\ (-a) * b = -(a * b)
  OBVIOUS

LEMMA ProductsOfNaturals ==
  ASSUME NEW a \in Nat, NEW b \in Nat
  PROVE  a * b \in Nat
  OBVIOUS

\* Sequences of at most one element.
LEMMA OneElement ==
  ASSUME NEW S, NEW a \in S
  PROVE  /\ <<a>> \in Seq(S) /\ Len(<<a>>) = 1 /\ <<a>> # <<>>
         /\ Head(<<a>>) = a /\ <<>> \in Seq(S) /\ Len(<<>>) = 0
  OBVIOUS

\* The prices on the orders are the walk's: PriceUsed is what the order says.
LEMMA OrderOfType ==
  ASSUME StateOK, NEW s \in Symbols, NEW st \in Strategies, NEW is_buy \in BOOLEAN
  PROVE  /\ OrderOf(s, st, is_buy) \in Order
         /\ PriceUsed(OrderOf(s, st, is_buy)) = price
         /\ price \in Nat \ {0}
<1>1. price \in Nat \ {0} /\ Size(st) \in Nat \ {0}
  BY WalkAssumption, SizeAssumption DEF StateOK
<1>2. QED
  BY <1>1 DEF OrderOf, Order, PriceUsed

LEMMA OrderFacts ==
  ASSUME NEW o \in Order
  PROVE  /\ o.symbol \in Symbols /\ o.is_buy \in BOOLEAN
         /\ o.quantity \in Nat /\ o.quantity > 0
         /\ PriceUsed(o) \in Nat /\ Notional(o, PriceUsed(o)) \in Nat
         /\ SignedQuantity(o) \in Int
<1>1. /\ o.symbol \in Symbols /\ o.is_buy \in BOOLEAN
      /\ o.quantity \in Nat /\ o.quantity > 0 /\ PriceUsed(o) \in Nat
  BY DEF Order, PriceUsed
<1>2. QED
  BY <1>1, ProductsOfNaturals DEF Notional, SignedQuantity

\* Setting one flag, or changing one sum, of one strategy and symbol.
LEMMA Update ==
  ASSUME NEW V, NEW f \in [Strategies -> [Symbols -> V]],
         NEW st \in Strategies, NEW s \in Symbols, NEW v \in V,
         NEW g, g = [f EXCEPT ![st][s] = v]
  PROVE  /\ g \in [Strategies -> [Symbols -> V]]
         /\ \A t \in Strategies, u \in Symbols :
              g[t][u] = IF t = st /\ u = s THEN v ELSE f[t][u]
<1>1. g = [f EXCEPT ![st] = [f[st] EXCEPT ![s] = v]]
  OBVIOUS
<1>2. [f[st] EXCEPT ![s] = v] \in [Symbols -> V]
  OBVIOUS
<1>3. g \in [Strategies -> [Symbols -> V]]
  BY <1>1, <1>2
<1>4. QED
  BY <1>1, <1>3

LEMMA SetFlag ==
  ASSUME NEW f \in [Strategies -> [Symbols -> BOOLEAN]],
         NEW st \in Strategies, NEW s \in Symbols
  PROVE  /\ [f EXCEPT ![st][s] = TRUE] \in [Strategies -> [Symbols -> BOOLEAN]]
         /\ \A t \in Strategies, u \in Symbols :
              [f EXCEPT ![st][s] = TRUE][t][u] <=> (t = st /\ u = s) \/ f[t][u]
<1> DEFINE h == [f[st] EXCEPT ![s] = TRUE]
<1>1. h \in [Symbols -> BOOLEAN] /\ \A u \in Symbols : h[u] <=> u = s \/ f[st][u]
  OBVIOUS
<1> HIDE DEF h
<1>2. /\ [f EXCEPT ![st] = h] \in [Strategies -> [Symbols -> BOOLEAN]]
      /\ \A t \in Strategies, u \in Symbols :
           [f EXCEPT ![st] = h][t][u] <=> (t = st /\ u = s) \/ f[t][u]
  BY <1>1
<1>3. QED
  BY <1>2 DEF h

\* Every step keeps the state well typed.
LEMMA GateStateOK == ASSUME StateOK, Gate PROVE StateOK'
<1> DEFINE a == Head(asked)
<1>1. asked \in Seq(Asked) /\ asked # <<>> /\ order_queue \in Seq(Owned)
  BY DEF StateOK, Gate
<1>2. a \in Asked
  BY <1>1
<1>3. a.order \in Order /\ a.owner \in Strategies
  BY <1>2 DEF Asked
<1>4. [order |-> a.order, owner |-> a.owner] \in Owned
  BY <1>3 DEF Owned
<1>5. order_queue' \in Seq(Owned)
  <2>1. \/ order_queue' = Append(order_queue, [order |-> a.order, owner |-> a.owner])
        \/ order_queue' = order_queue
    BY DEF Gate
  <2>2. QED
    BY <1>1, <1>4, <2>1
<1>6. Failed(a) \subseteq Strategies \X Symbols
  BY <1>3, OrderFacts DEF Failed, StateOK
<1>7. failed' \subseteq Strategies \X Symbols
  BY <1>6 DEF Gate, StateOK
<1>8. asked' \in Seq(Asked) /\ Len(asked') <= 1
  BY DEF Gate
<1>9. UNCHANGED <<limits, positions, total_exposure, daily_realized_pnl, today_trades,
                  price, balance, in_position, pending_exit, placed, bought, slipped,
                  backlog>>
  BY DEF Gate, riskVars, strategyVars, brokerVars
<1>10. QED
  BY <1>5, <1>7, <1>8, <1>9 DEF StateOK, RiskTypeOK

LEMMA AskStateOK ==
  ASSUME StateOK, NEW s \in Symbols, NEW st \in Strategies, Enter(s, st) \/ Leave(s, st)
  PROVE  StateOK'
<1>1. PICK is_buy \in BOOLEAN : Ask(s, st, is_buy)
  BY DEF Enter, Leave
<1>2. asked' = <<[order |-> OrderOf(s, st, is_buy), owner |-> st, balance |-> balance]>>
  BY <1>1 DEF Ask
<1>3. [order |-> OrderOf(s, st, is_buy), owner |-> st, balance |-> balance] \in Asked
  BY OrderOfType DEF Asked, StateOK
<1>4. asked' \in Seq(Asked) /\ Len(asked') <= 1
  BY <1>2, <1>3, OneElement
<1>5. backlog' \in Nat
  BY <1>1 DEF Ask, Unplaced, StateOK
<1>6. in_position' \in [Strategies -> [Symbols -> BOOLEAN]]
  <2>1. in_position \in [Strategies -> [Symbols -> BOOLEAN]]
    BY DEF StateOK
  <2>2. \/ in_position' = in_position
        \/ in_position' = [in_position EXCEPT ![st][s] = TRUE]
    BY DEF Enter, Leave
  <2>3. CASE in_position' = in_position
    BY <2>1, <2>3
  <2>4. CASE in_position' = [in_position EXCEPT ![st][s] = TRUE]
    BY <2>1, <2>4, SetFlag
  <2>5. QED
    BY <2>2, <2>3, <2>4
<1>7. pending_exit' \in [Strategies -> [Symbols -> BOOLEAN]]
  <2>1. pending_exit \in [Strategies -> [Symbols -> BOOLEAN]]
    BY DEF StateOK
  <2>2. \/ pending_exit' = pending_exit
        \/ pending_exit' = [pending_exit EXCEPT ![st][s] = TRUE]
    BY DEF Enter, Leave
  <2>3. CASE pending_exit' = pending_exit
    BY <2>1, <2>3
  <2>4. CASE pending_exit' = [pending_exit EXCEPT ![st][s] = TRUE]
    BY <2>1, <2>4, SetFlag
  <2>5. QED
    BY <2>2, <2>3, <2>4
<1>8. UNCHANGED <<limits, positions, total_exposure, daily_realized_pnl, today_trades,
                  price, balance, order_queue, placed, bought, slipped, failed>>
  BY <1>1 DEF Ask, riskVars, brokerVars
<1>9. QED
  BY <1>4, <1>5, <1>6, <1>7, <1>8 DEF StateOK, RiskTypeOK

\* The order at the head of the queue, and the money it moves.
LEMMA PlacedOrder ==
  ASSUME StateOK, Place
  PROVE  /\ Head(order_queue) \in Owned
         /\ Head(order_queue).owner \in Strategies /\ Head(order_queue).order \in Order
         /\ order_queue' = Tail(order_queue) /\ order_queue' \in Seq(Owned)
         /\ price \in Nat /\ price > 0
<1>1. Head(order_queue) \in Owned /\ order_queue' \in Seq(Owned)
  BY DEF Place, StateOK
<1>2. QED
  BY <1>1, WalkAssumption DEF Owned, Place, StateOK

LEMMA PlaceStateOK == ASSUME StateOK, Place PROVE StateOK'
<1> DEFINE a == Head(order_queue)
           q == SignedQuantity(a.order)
<1>1. a \in Owned /\ a.owner \in Strategies /\ a.order \in Order /\ price \in Nat
  BY PlacedOrder
<1>2. /\ q \in Int /\ a.order.symbol \in Symbols /\ PriceUsed(a.order) \in Int
      /\ a.order.is_buy \in BOOLEAN /\ a.order.quantity \in Nat
  BY <1>1, OrderFacts
<1>3. q * price \in Int /\ q * (price - PriceUsed(a.order)) \in Int
  BY <1>1, <1>2
<1>4. failed' \subseteq Strategies \X Symbols
  BY <1>1, <1>2 DEF Place, Failed, StateOK
<1>5. placed' \in Seq(Owned) /\ Len(placed') <= 1
  <2>1. placed = <<>> /\ (placed' = <<a>> \/ placed' = placed)
    BY DEF Place
  <2>2. <<a>> \in Seq(Owned) /\ Len(<<a>>) = 1
    BY <1>1, OneElement
  <2>3. <<>> \in Seq(Owned) /\ Len(<<>>) = 0
    OBVIOUS
  <2>4. CASE placed' = placed
    BY <2>1, <2>3, <2>4
  <2>5. CASE placed' = <<a>>
    BY <2>2, <2>5
  <2>6. QED
    BY <2>1, <2>4, <2>5
<1>6. balance' \in Nat
  <2>1. ~a.order.is_buy => q * price <= 0
    BY <1>1, <1>2, Products, ProductsOfNaturals DEF SignedQuantity
  <2>2. balance \in Nat
    BY DEF StateOK
  <2>3. QED
    BY <1>2, <1>3, <2>1, <2>2 DEF Place, brokerVars
<1>7. slipped' \in Int
  BY <1>3 DEF Place, brokerVars, StateOK
<1>8. bought' \in [Strategies -> [Symbols -> Int]]
  <2>1. CASE bought' = bought
    BY <2>1 DEF StateOK
  <2>2. CASE bought' = [bought EXCEPT ![a.owner][a.order.symbol] = @ + q]
    <3>1. bought[a.owner][a.order.symbol] + q \in Int
      BY <1>1, <1>2 DEF StateOK
    <3>2. QED
      BY <1>1, <1>2, <2>2, <3>1 DEF StateOK
  <2>3. QED
    BY <2>1, <2>2 DEF Place, brokerVars
<1>9. UNCHANGED <<limits, positions, total_exposure, daily_realized_pnl, today_trades,
                  price, in_position, pending_exit, asked, backlog>>
  BY DEF Place, riskVars, strategyVars
<1>10. QED
  BY <1>4, <1>5, <1>6, <1>7, <1>8, <1>9, PlacedOrder DEF StateOK, RiskTypeOK

LEMMA BookStateOK == ASSUME StateOK, Book PROVE StateOK'
<1> DEFINE o == Head(placed).order
<1>1. placed \in Seq(Owned) /\ placed # <<>>
  BY DEF StateOK, Book
<1>2. o \in Order
  <2>1. Head(placed) \in Owned
    BY <1>1
  <2>2. QED
    BY <2>1 DEF Owned
<1>3. /\ o.symbol \in Symbols /\ o.is_buy \in BOOLEAN /\ o.quantity \in Nat
      /\ Notional(o, PriceUsed(o)) \in Nat
  BY <1>2, OrderFacts
<1>4. \A m \in Int : FloorAtZero(m) \in Nat
  BY DEF FloorAtZero
<1>5. total_exposure' \in Nat
  <2>1. total_exposure \in Nat
    BY DEF StateOK, RiskTypeOK
  <2>2. total_exposure' = IF o.is_buy
                            THEN total_exposure + Notional(o, PriceUsed(o))
                            ELSE FloorAtZero(total_exposure - Notional(o, PriceUsed(o)))
    BY DEF Book, OnOrderFilled
  <2>3. QED
    BY <1>3, <1>4, <2>1, <2>2
<1>6. positions' \in [Symbols -> Nat]
  <2>1. positions \in [Symbols -> Nat]
    BY DEF StateOK, RiskTypeOK
  <2>2. positions' = [positions EXCEPT ![o.symbol] =
                        IF o.is_buy THEN @ + o.quantity ELSE FloorAtZero(@ - o.quantity)]
    BY DEF Book, OnOrderFilled
  <2>3. QED
    BY <1>3, <1>4, <2>1, <2>2
<1>7. limits' \in LimitRecord /\ daily_realized_pnl' \in Int /\ today_trades' \in Nat
  BY DEF Book, OnOrderFilled, RiskTypeOK, StateOK
<1>8. placed' \in Seq(Owned) /\ Len(placed') <= 1
  BY DEF Book
<1>9. UNCHANGED <<price, balance, in_position, pending_exit, asked, order_queue,
                  bought, slipped, failed, backlog>>
  BY DEF Book, strategyVars, brokerVars
<1>10. QED
  BY <1>5, <1>6, <1>7, <1>8, <1>9 DEF StateOK, RiskTypeOK

LEMMA StateStep == ASSUME StateOK, [Next]_vars PROVE StateOK'
<1>1. CASE NextRound \/ NoSignal \/ UNCHANGED vars
  <2>1. UNCHANGED <<limits, positions, total_exposure, daily_realized_pnl, today_trades,
                    balance, in_position, pending_exit, asked, order_queue, placed,
                    bought, slipped, failed, backlog>>
    BY <1>1 DEF NextRound, NoSignal, vars, riskVars, strategyVars, brokerVars
  <2>2. price' \in Low .. High
    BY <1>1 DEF NextRound, NoSignal, vars, StateOK
  <2>3. QED
    BY <2>1, <2>2 DEF StateOK, RiskTypeOK
<1>2. QED
  BY <1>1, AskStateOK, GateStateOK, PlaceStateOK, BookStateOK DEF Next

LEMMA InitState == Init => StateOK
<1> SUFFICES ASSUME Init PROVE StateOK
  OBVIOUS
<1>1. RiskTypeOK
  BY LimitsAssumption DEF Init, RiskInit, RiskTypeOK
<1>2. /\ asked \in Seq(Asked) /\ Len(asked) <= 1
      /\ order_queue \in Seq(Owned) /\ placed \in Seq(Owned) /\ Len(placed) <= 1
  BY DEF Init
<1>3. /\ price \in Low .. High /\ balance \in Nat
      /\ failed \subseteq Strategies \X Symbols /\ backlog \in Nat /\ slipped \in Int
  BY StartAssumption DEF Init
<1>4. /\ in_position \in [Strategies -> [Symbols -> BOOLEAN]]
      /\ pending_exit \in [Strategies -> [Symbols -> BOOLEAN]]
      /\ bought \in [Strategies -> [Symbols -> Int]]
  BY DEF Init
<1>5. QED
  BY <1>1, <1>2, <1>3, <1>4 DEF StateOK

\* The variables keep their types.
LEMMA StateInvariance == Spec => []StateOK
<1>1. StateOK /\ [Next]_vars => StateOK'
  BY StateStep
<1>2. QED
  BY InitState, <1>1, PTL DEF Spec

----------------------------------------------------------------------------
\* The exposure side: placing moves the order's notional into
\* PlacedNotional, booking moves it on into total_exposure, and the floor
\* only adds.
LEMMA ExposurePlace ==
  ASSUME StateOK, Place, ExposureCoversCash
  PROVE  ExposureCoversCash'
<1> DEFINE a == Head(order_queue)
           q == SignedQuantity(a.order)
           p == PriceUsed(a.order)
<1>1. a \in Owned /\ a.order \in Order /\ price \in Nat
  BY PlacedOrder
<1>2. q \in Int /\ p \in Int /\ a.order.is_buy \in BOOLEAN
  BY <1>1, OrderFacts
<1>3. /\ q * price \in Int /\ q * p \in Int
      /\ q * (price - p) = q * price - q * p
  BY <1>1, <1>2, Products
<1>4. /\ total_exposure \in Int /\ slipped \in Int /\ balance \in Int
      /\ StartBalance \in Int
  BY StartAssumption DEF StateOK, RiskTypeOK
<1>5. total_exposure' = total_exposure /\ placed = <<>> /\ PlacedNotional = 0
  BY DEF Place, riskVars, PlacedNotional
<1>6. CASE a.order.is_buy /\ balance < q * price
  <2>1. UNCHANGED <<balance, slipped, placed>>
    BY <1>6 DEF Place, brokerVars
  <2>2. QED
    BY <1>5, <2>1 DEF ExposureCoversCash, PlacedNotional
<1>7. CASE ~(a.order.is_buy /\ balance < q * price)
  <2>1. /\ balance' = balance - q * price
        /\ slipped' = slipped + q * (price - p)
        /\ placed' = <<a>>
    BY <1>7 DEF Place
  <2>2. PlacedNotional' = q * p
    <3>1. placed' # <<>> /\ Head(placed') = a
      BY <2>1
    <3>2. QED
      BY <3>1 DEF PlacedNotional, SignedQuantity, PriceUsed
  <2>3. total_exposure + 0 + slipped >= StartBalance - balance
    BY <1>5 DEF ExposureCoversCash
  <2>4. total_exposure' + PlacedNotional' + slipped' >= StartBalance - balance'
    BY <1>3, <1>4, <1>5, <2>1, <2>2, <2>3
  <2>5. QED
    BY <2>4 DEF ExposureCoversCash
<1>8. QED
  BY <1>6, <1>7

LEMMA ExposureBook ==
  ASSUME StateOK, Book, ExposureCoversCash
  PROVE  ExposureCoversCash'
<1> DEFINE o == Head(placed).order
           n == Notional(o, PriceUsed(o))
<1>1. placed \in Seq(Owned) /\ placed # <<>>
  BY DEF StateOK, Book
<1>2. o \in Order
  <2>1. Head(placed) \in Owned
    BY <1>1
  <2>2. QED
    BY <2>1 DEF Owned
<1>3. o.is_buy \in BOOLEAN /\ n \in Nat /\ o.quantity \in Int /\ PriceUsed(o) \in Int
  BY <1>2, OrderFacts
<1>4. PlacedNotional = IF o.is_buy THEN n ELSE -n
  BY <1>1, <1>3, Products DEF PlacedNotional, SignedQuantity, Notional
<1>5. /\ total_exposure \in Int /\ slipped \in Int /\ balance \in Int
      /\ StartBalance \in Int
  BY StartAssumption DEF StateOK, RiskTypeOK
<1>6. total_exposure' = IF o.is_buy THEN total_exposure + n
                                    ELSE FloorAtZero(total_exposure - n)
  BY DEF Book, OnOrderFilled
<1>7. total_exposure' \in Int /\ total_exposure' >= total_exposure + PlacedNotional
  BY <1>3, <1>4, <1>5, <1>6 DEF FloorAtZero
<1>8. placed' = <<>> /\ UNCHANGED <<balance, slipped>>
  BY DEF Book, brokerVars
<1>9. PlacedNotional' = 0
  BY <1>8 DEF PlacedNotional
<1>10. PlacedNotional \in Int
  BY <1>3, <1>4
<1>11. total_exposure + PlacedNotional + slipped >= StartBalance - balance
  BY DEF ExposureCoversCash
<1> HIDE DEF n, o
<1>12. total_exposure' + 0 + slipped >= StartBalance - balance
  <2>1. \A t, u, p, s, b, c \in Int :
          u >= t + p /\ t + p + s >= c - b => u + 0 + s >= c - b
    OBVIOUS
  <2>2. QED
    BY <1>5, <1>7, <1>10, <1>11, <2>1
<1>13. QED
  BY <1>8, <1>9, <1>12 DEF ExposureCoversCash

\* The RiskManager's running exposure, with the order placed and not booked,
\* covers the money that left the account at every step of every behaviour,
\* but for what fills cost more than the orders said.
THEOREM ExposureCovers == Spec => []ExposureCoversCash
<1>1. Init => ExposureCoversCash
  <2> SUFFICES ASSUME Init PROVE ExposureCoversCash
    OBVIOUS
  <2>1. PlacedNotional = 0
    BY DEF Init, PlacedNotional
  <2>2. StartBalance \in Int
    BY StartAssumption
  <2>3. total_exposure = 0 /\ slipped = 0 /\ balance = StartBalance
    BY DEF Init, RiskInit
  <2>4. QED
    BY <2>1, <2>2, <2>3 DEF ExposureCoversCash
<1>2. ASSUME StateOK, ExposureCoversCash, [Next]_vars PROVE ExposureCoversCash'
  <2>1. CASE \/ NextRound \/ NoSignal \/ Gate \/ UNCHANGED vars
             \/ \E s \in Symbols, st \in Strategies : Enter(s, st) \/ Leave(s, st)
    <3>1. UNCHANGED <<total_exposure, placed, slipped, balance>>
      BY <2>1 DEF NextRound, NoSignal, Gate, Enter, Leave, Ask, vars, riskVars, brokerVars
    <3>2. QED
      BY <1>2, <3>1 DEF ExposureCoversCash, PlacedNotional
  <2>2. QED
    BY <1>2, <2>1, ExposurePlace, ExposureBook DEF Next
<1>3. QED
  BY StateInvariance, <1>1, <1>2, PTL DEF Spec

----------------------------------------------------------------------------
\* The lots: what is asked and queued for strategy st and symbol s.
IsBuy(a, st, s) == a.owner = st /\ a.order.symbol = s /\ a.order.is_buy
IsSell(a, st, s) == a.owner = st /\ a.order.symbol = s /\ ~a.order.is_buy

\* Every order is a lot of its strategy's size, at a price of the walk.
Sized(a) == a.order.quantity = Size(a.owner) /\ a.order.price \in Low .. High

SizesInv ==
  /\ asked # <<>> => Sized(Head(asked))
  /\ \A n \in 1 .. Len(order_queue) : Sized(order_queue[n])

\* The lot is bought, or was refused, or is on order in the first n places.
Safe(st, s) == bought[st][s] >= Size(st) \/ <<st, s>> \in failed

Backed(st, s, n) == Safe(st, s) \/ \E m \in 1 .. n : IsBuy(order_queue[m], st, s)

\* A strategy's exit goes out once, behind its entry.
LotInv(st, s) ==
  /\ bought[st][s] >= 0 \/ <<st, s>> \in failed
  /\ \A n \in 1 .. Len(order_queue) :
       IsSell(order_queue[n], st, s) =>
         /\ pending_exit[st][s]
         /\ Backed(st, s, n - 1)
         /\ \A m \in 1 .. Len(order_queue) : IsSell(order_queue[m], st, s) => m = n
  /\ asked # <<>> /\ IsSell(Head(asked), st, s) =>
       /\ pending_exit[st][s]
       /\ Backed(st, s, Len(order_queue))
       /\ \A m \in 1 .. Len(order_queue) : ~IsSell(order_queue[m], st, s)
  /\ in_position[st][s] /\ ~pending_exit[st][s] =>
       \/ Backed(st, s, Len(order_queue))
       \/ asked # <<>> /\ IsBuy(Head(asked), st, s)

LotsInv == SizesInv /\ \A st \in Strategies, s \in Symbols : LotInv(st, s)

\* Indices of a queue whose head is removed, or that gets one element more.
LEMMA QueueTail ==
  ASSUME NEW S, NEW q \in Seq(S), q # <<>>
  PROVE  /\ Len(Tail(q)) \in Nat /\ Len(q) \in Nat
         /\ Len(q) = Len(Tail(q)) + 1
         /\ \A n \in 1 .. Len(Tail(q)) : Tail(q)[n] = q[n + 1] /\ n + 1 \in 1 .. Len(q)
         /\ \A n \in 1 .. Len(q) :
              n = 1 \/ (n - 1 \in 1 .. Len(Tail(q)) /\ q[n] = Tail(q)[n - 1])
         /\ Head(q) = q[1] /\ 1 \in 1 .. Len(q)
<1>1. Len(q) \in Nat /\ Len(q) # 0
  BY EmptySeq
<1>2. Len(Tail(q)) = Len(q) - 1 /\ \A n \in 1 .. Len(Tail(q)) : Tail(q)[n] = q[n + 1]
  BY HeadTailProperties
<1>3. Head(q) = q[1]
  OBVIOUS
<1>4. \A n \in 1 .. Len(q) : n = 1 \/ (n - 1 \in 1 .. Len(Tail(q)) /\ q[n] = Tail(q)[n - 1])
  <2> SUFFICES ASSUME NEW n \in 1 .. Len(q), n # 1
               PROVE  n - 1 \in 1 .. Len(Tail(q)) /\ q[n] = Tail(q)[n - 1]
    OBVIOUS
  <2>1. n - 1 \in 1 .. Len(Tail(q)) /\ (n - 1) + 1 = n
    BY <1>1, <1>2
  <2>2. QED
    BY <1>2, <2>1
<1>5. QED
  BY <1>1, <1>2, <1>3, <1>4

LEMMA QueueAppend ==
  ASSUME NEW S, NEW q \in Seq(S), NEW a \in S
  PROVE  /\ Len(q) \in Nat /\ Len(Append(q, a)) = Len(q) + 1
         /\ \A n \in 1 .. Len(q) : Append(q, a)[n] = q[n]
         /\ Append(q, a)[Len(q) + 1] = a
  OBVIOUS

\* Orders leave the queue and enter it with the size they were asked with.
LEMMA SizesStep ==
  ASSUME StateOK, SizesInv, [Next]_vars
  PROVE  SizesInv'
<1>1. CASE UNCHANGED <<asked, order_queue>>
  BY <1>1 DEF SizesInv, Sized
<1>2. ASSUME NEW s \in Symbols, NEW st \in Strategies, Enter(s, st) \/ Leave(s, st)
      PROVE  SizesInv'
  <2>1. PICK is_buy \in BOOLEAN : Ask(s, st, is_buy)
    BY <1>2 DEF Enter, Leave
  <2>2. order_queue' = order_queue
    BY <2>1 DEF Ask
  <2>3. Head(asked') = [order |-> OrderOf(s, st, is_buy), owner |-> st, balance |-> balance]
    BY <2>1 DEF Ask
  <2>4. Sized(Head(asked'))
    BY <2>3 DEF Sized, OrderOf, StateOK
  <2>5. QED
    BY <2>2, <2>4 DEF SizesInv, Sized
<1>3. CASE Gate
  <2> DEFINE a == Head(asked)
             b == [order |-> a.order, owner |-> a.owner]
  <2>1. asked \in Seq(Asked) /\ asked # <<>> /\ asked' = <<>> /\ order_queue \in Seq(Owned)
    BY <1>3 DEF Gate, StateOK
  <2>2. a \in Asked
    BY <2>1
  <2>3. b \in Owned
    BY <2>2 DEF Asked, Owned
  <2>4. Sized(b)
    BY <2>1 DEF SizesInv, Sized
  <2>5. order_queue' = order_queue \/ order_queue' = Append(order_queue, b)
    BY <1>3 DEF Gate
  <2> HIDE DEF b
  <2>6. CASE order_queue' = order_queue
    BY <2>1, <2>6 DEF SizesInv, Sized
  <2>7. CASE order_queue' = Append(order_queue, b)
    <3>1. /\ Len(order_queue) \in Nat /\ Len(order_queue') = Len(order_queue) + 1
          /\ \A n \in 1 .. Len(order_queue) : order_queue'[n] = order_queue[n]
          /\ order_queue'[Len(order_queue) + 1] = b
      BY <2>1, <2>3, <2>7, QueueAppend
    <3>2. \A n \in 1 .. Len(order_queue') : Sized(order_queue'[n])
      BY <2>4, <3>1 DEF SizesInv
    <3>3. QED
      BY <2>1, <3>2 DEF SizesInv, Sized
  <2>8. QED
    BY <2>5, <2>6, <2>7
<1>4. CASE Place
  <2>1. order_queue \in Seq(Owned) /\ order_queue # <<>>
    BY <1>4 DEF Place, StateOK
  <2>2. order_queue' = Tail(order_queue) /\ asked' = asked
    BY <1>4 DEF Place
  <2>3. \A n \in 1 .. Len(order_queue') : Sized(order_queue'[n])
    BY <2>1, <2>2, QueueTail DEF SizesInv
  <2>4. QED
    BY <2>2, <2>3 DEF SizesInv, Sized
<1>5. CASE NextRound \/ NoSignal \/ Book \/ UNCHANGED vars
  BY <1>1, <1>5 DEF NextRound, NoSignal, Book, vars
<1>6. QED
  BY <1>2, <1>3, <1>4, <1>5 DEF Next

\* A signal: nothing was being gated, and the flags tell what is queued.
LEMMA LotAsk ==
  ASSUME StateOK, NEW st \in Strategies, NEW s \in Symbols, LotInv(st, s),
         NEW t \in Strategies, NEW u \in Symbols, Enter(u, t) \/ Leave(u, t)
  PROVE  LotInv(st, s)'
<1>1. PICK is_buy \in BOOLEAN :
        /\ is_buy <=> Enter(u, t) /\ ~Leave(u, t)
        /\ Ask(u, t, is_buy)
  BY DEF Enter, Leave
<1>2. UNCHANGED <<order_queue, bought, failed>> /\ asked = <<>>
  BY <1>1 DEF Ask, brokerVars, Enter, Leave, Turn
<1>3. /\ asked' # <<>> /\ Head(asked').owner = t /\ Head(asked').order.symbol = u
      /\ Head(asked').order.is_buy = is_buy
  BY <1>1 DEF Ask, OrderOf
<1>4. /\ in_position \in [Strategies -> [Symbols -> BOOLEAN]]
      /\ pending_exit \in [Strategies -> [Symbols -> BOOLEAN]]
  BY DEF StateOK
<1>5. /\ Safe(st, s)' <=> Safe(st, s)
      /\ \A n : Backed(st, s, n)' <=> Backed(st, s, n)
  BY <1>2 DEF Safe, Backed
<1>6. CASE st = t /\ s = u /\ Enter(u, t)
  <2>1. /\ ~pending_exit[st][s] /\ pending_exit' = pending_exit
        /\ is_buy
    BY <1>1, <1>6 DEF Enter, Leave
  <2>2. IsBuy(Head(asked'), st, s) /\ ~IsSell(Head(asked'), st, s)
    BY <1>3, <1>6, <2>1 DEF IsBuy, IsSell
  <2>3. QED
    BY <1>2, <1>3, <2>1, <2>2 DEF LotInv
<1>7. CASE st = t /\ s = u /\ Leave(u, t)
  <2>1. in_position[st][s] /\ ~pending_exit[st][s]
    BY <1>7 DEF Leave
  <2>2. pending_exit'[st][s]
    BY <1>4, <1>7, SetFlag DEF Leave
  <2>3. /\ Backed(st, s, Len(order_queue))
        /\ \A n \in 1 .. Len(order_queue) : ~IsSell(order_queue[n], st, s)
    BY <1>2, <2>1 DEF LotInv
  <2>4. QED
    BY <1>2, <1>5, <2>2, <2>3 DEF LotInv
<1>8. CASE ~(st = t /\ s = u)
  <2>1. in_position'[st][s] = in_position[st][s]
    <3>1. CASE in_position' = in_position
      BY <3>1
    <3>2. CASE in_position' = [in_position EXCEPT ![t][u] = TRUE]
      BY <1>4, <1>8, <3>2, SetFlag
    <3>3. QED
      BY <3>1, <3>2 DEF Enter, Leave
  <2>2. pending_exit'[st][s] = pending_exit[st][s]
    <3>1. CASE pending_exit' = pending_exit
      BY <3>1
    <3>2. CASE pending_exit' = [pending_exit EXCEPT ![t][u] = TRUE]
      BY <1>4, <1>8, <3>2, SetFlag
    <3>3. QED
      BY <3>1, <3>2 DEF Enter, Leave
  <2>3. ~IsSell(Head(asked'), st, s)
    BY <1>3, <1>8 DEF IsSell
  <2>4. QED
    BY <1>2, <1>5, <2>1, <2>2, <2>3 DEF LotInv
<1>9. QED
  BY <1>6, <1>7, <1>8

\* The gate: what was asked is queued last, or has failed.
LEMMA LotGate ==
  ASSUME StateOK, NEW st \in Strategies, NEW s \in Symbols, LotInv(st, s), Gate
  PROVE  LotInv(st, s)'
<1> DEFINE a == Head(asked)
           b == [order |-> a.order, owner |-> a.owner]
<1>1. /\ UNCHANGED <<in_position, pending_exit, bought>>
      /\ asked # <<>> /\ asked' = <<>>
      /\ asked \in Seq(Asked) /\ order_queue \in Seq(Owned)
  BY DEF Gate, strategyVars, brokerVars, StateOK
<1>2. PICK K \in Nat : K = Len(order_queue)
  BY <1>1
<1>3. a \in Asked
  BY <1>1
<1>4. b \in Owned /\ a.order.is_buy \in BOOLEAN
  BY <1>3, OrderFacts DEF Asked, Owned
<1>5. /\ IsBuy(b, st, s) <=> IsBuy(a, st, s)
      /\ IsSell(b, st, s) <=> IsSell(a, st, s)
  BY DEF IsBuy, IsSell
<1> HIDE DEF b
<1>6. CASE order_queue' = Append(order_queue, b) /\ failed' = failed
  <2>1. /\ K \in Nat /\ Len(order_queue') = K + 1
        /\ \A n \in 1 .. K : order_queue'[n] = order_queue[n]
        /\ order_queue'[K + 1] = b
    BY <1>1, <1>2, <1>4, <1>6, QueueAppend
  <2>2. Safe(st, s)' <=> Safe(st, s)
    BY <1>1, <1>6 DEF Safe
  <2>3. \A n \in 0 .. K : Backed(st, s, n) => Backed(st, s, n)'
    BY <2>1, <2>2 DEF Backed
  <2>4. Backed(st, s, K) \/ IsBuy(a, st, s) => Backed(st, s, K + 1)'
    BY <1>5, <2>1, <2>2 DEF Backed
  <2>5. ASSUME NEW n \in 1 .. K + 1, IsSell(order_queue'[n], st, s)
        PROVE  /\ pending_exit'[st][s]
               /\ Backed(st, s, n - 1)'
               /\ \A m \in 1 .. K + 1 : IsSell(order_queue'[m], st, s) => m = n
    <3>1. CASE n \in 1 .. K
      <4>1. IsSell(order_queue[n], st, s) /\ n - 1 \in 0 .. K
        BY <2>1, <2>5, <3>1
      <4>2. ~IsSell(a, st, s)
        BY <1>2, <1>1, <3>1, <4>1 DEF LotInv
      <4>3. QED
        BY <1>2, <1>1, <1>5, <2>1, <2>3, <3>1, <4>1, <4>2 DEF LotInv
    <3>2. CASE n = K + 1
      <4>1. IsSell(a, st, s)
        BY <1>5, <2>1, <2>5, <3>2
      <4>2. /\ pending_exit[st][s] /\ Backed(st, s, K)
            /\ \A m \in 1 .. K : ~IsSell(order_queue[m], st, s)
        BY <1>2, <1>1, <4>1 DEF LotInv
      <4>3. Backed(st, s, n - 1)'
        BY <2>1, <2>3, <3>2, <4>2
      <4>4. QED
        BY <1>1, <2>1, <3>2, <4>2, <4>3
    <3>3. QED
      BY <2>1, <3>1, <3>2
  <2>6. in_position'[st][s] /\ ~pending_exit'[st][s] => Backed(st, s, K + 1)'
    <3>1. Backed(st, s, K) \/ IsBuy(a, st, s) => Backed(st, s, K + 1)'
      BY <2>4
    <3>2. QED
      BY <1>2, <1>1, <3>1 DEF LotInv
  <2>7. bought'[st][s] >= 0 \/ <<st, s>> \in failed'
    BY <1>2, <1>1, <1>6 DEF LotInv
  <2>8. QED
    BY <1>2, <1>1, <2>1, <2>5, <2>6, <2>7 DEF LotInv
<1>7. CASE order_queue' = order_queue /\ failed' = Failed(a)
  <2>1. failed \subseteq failed'
    BY <1>7 DEF Failed
  <2>2. IsBuy(a, st, s) => <<st, s>> \in failed'
    BY <1>7 DEF Failed, IsBuy
  <2>3. /\ Safe(st, s) => Safe(st, s)'
        /\ IsBuy(a, st, s) => Safe(st, s)'
    BY <1>1, <2>1, <2>2 DEF Safe
  <2>4. /\ \A n : Backed(st, s, n) => Backed(st, s, n)'
        /\ \A n : IsBuy(a, st, s) => Backed(st, s, n)'
    BY <1>7, <2>3 DEF Backed
  <2>5. in_position'[st][s] /\ ~pending_exit'[st][s] => Backed(st, s, K)'
    BY <1>2, <1>1, <1>7, <2>4 DEF LotInv
  <2>6. \A n \in 1 .. Len(order_queue') :
          IsSell(order_queue'[n], st, s) =>
            /\ pending_exit'[st][s]
            /\ Backed(st, s, n - 1)'
            /\ \A m \in 1 .. Len(order_queue') : IsSell(order_queue'[m], st, s) => m = n
    BY <1>2, <1>1, <1>7, <2>4 DEF LotInv
  <2>7. bought'[st][s] >= 0 \/ <<st, s>> \in failed'
    BY <1>2, <1>1, <2>1 DEF LotInv
  <2>8. QED
    BY <1>2, <1>1, <1>7, <2>5, <2>6, <2>7 DEF LotInv
<1>8. QED
  BY <1>6, <1>7 DEF Gate, b

\* The exchange: a buy makes the lot safe, a sell finds it safe.
LEMMA LotPlace ==
  ASSUME StateOK, SizesInv, NEW st \in Strategies, NEW s \in Symbols,
         LotInv(st, s), Place
  PROVE  LotInv(st, s)'
<1> DEFINE a == Head(order_queue)
           q == SignedQuantity(a.order)
<1>1. /\ UNCHANGED <<in_position, pending_exit, asked>>
      /\ order_queue \in Seq(Owned) /\ order_queue # <<>>
      /\ order_queue' = Tail(order_queue)
  BY DEF Place, strategyVars, StateOK
<1>2. PICK K \in Nat : K = Len(order_queue)
  BY <1>1
<1>3. PICK L \in Nat : L = Len(order_queue')
  BY <1>1
<1>4. /\ L \in Nat /\ K = L + 1 /\ a = order_queue[1] /\ 1 \in 1 .. K
      /\ \A n \in 1 .. L : order_queue'[n] = order_queue[n + 1] /\ n + 1 \in 1 .. K
      /\ \A n \in 1 .. K : n = 1 \/ (n - 1 \in 1 .. L /\ order_queue[n] = order_queue'[n - 1])
  BY <1>1, <1>2, <1>3, QueueTail
<1>5. /\ a \in Owned /\ a.owner \in Strategies /\ a.order \in Order
      /\ a.order.symbol \in Symbols /\ a.order.is_buy \in BOOLEAN
  BY PlacedOrder, OrderFacts
<1>6. a.order.quantity = Size(a.owner)
  BY <1>2, <1>4 DEF SizesInv, Sized
<1>7. Size(st) \in Nat /\ bought[st][s] \in Int
  BY SizeAssumption DEF StateOK
<1>8. failed \subseteq failed'
  BY DEF Place, Failed
<1>9. \/ bought' = bought /\ a.order.is_buy /\ failed' = Failed(a)
      \/ bought' = [bought EXCEPT ![a.owner][a.order.symbol] = @ + q]
  BY DEF Place, brokerVars
<1> HIDE DEF a
<1>10. CASE IsBuy(a, st, s)
  <2>1. Safe(st, s)'
    <3>1. CASE failed' = Failed(a)
      BY <1>10, <3>1 DEF Failed, IsBuy, Safe
    <3>2. CASE bought' = [bought EXCEPT ![a.owner][a.order.symbol] = @ + q]
      <4>1. bought'[st][s] = bought[st][s] + Size(st)
        BY <1>6, <1>10, <3>2 DEF IsBuy, SignedQuantity, StateOK
      <4>2. bought[st][s] >= 0 \/ <<st, s>> \in failed
        BY DEF LotInv
      <4>3. QED
        BY <1>7, <1>8, <4>1, <4>2 DEF Safe
    <3>3. QED
      BY <1>9, <3>1, <3>2
  <2>2. \A n : Backed(st, s, n)'
    BY <2>1 DEF Backed
  <2>3. bought'[st][s] >= 0 \/ <<st, s>> \in failed'
    <3>1. bought'[st][s] >= Size(st) \/ <<st, s>> \in failed'
      BY <2>1 DEF Safe
    <3>2. bought'[st][s] \in Int
      BY PlaceStateOK DEF StateOK
    <3>3. QED
      BY <1>7, <3>1, <3>2
  <2>4. ASSUME NEW n \in 1 .. L, IsSell(order_queue'[n], st, s)
        PROVE  /\ pending_exit'[st][s]
               /\ \A m \in 1 .. L : IsSell(order_queue'[m], st, s) => m = n
    <3>1. n + 1 \in 1 .. K /\ IsSell(order_queue[n + 1], st, s)
      BY <1>4, <2>4
    <3>2. /\ pending_exit[st][s]
          /\ \A m \in 1 .. K : IsSell(order_queue[m], st, s) => m = n + 1
      BY <1>2, <3>1 DEF LotInv
    <3>3. ASSUME NEW m \in 1 .. L, IsSell(order_queue'[m], st, s) PROVE m = n
      <4>1. m + 1 \in 1 .. K /\ IsSell(order_queue[m + 1], st, s)
        BY <1>4, <3>3
      <4>2. QED
        BY <1>4, <3>2, <4>1
    <3>4. QED
      BY <1>1, <3>2, <3>3
  <2>5. asked' # <<>> /\ IsSell(Head(asked'), st, s) =>
          /\ pending_exit'[st][s]
          /\ \A m \in 1 .. L : ~IsSell(order_queue'[m], st, s)
    BY <1>2, <1>1, <1>4 DEF LotInv
  <2>6. QED
    BY <1>3, <2>2, <2>3, <2>4, <2>5 DEF LotInv
<1>11. CASE IsSell(a, st, s)
  <2>1. /\ pending_exit[st][s] /\ Backed(st, s, 1 - 1)
        /\ \A m \in 1 .. K : IsSell(order_queue[m], st, s) => m = 1
    BY <1>2, <1>4, <1>11 DEF LotInv
  <2>2. Safe(st, s)
    BY <2>1 DEF Backed
  <2>3. bought' = [bought EXCEPT ![a.owner][a.order.symbol] = @ + q]
    BY <1>9, <1>11 DEF IsSell
  <2>4. bought'[st][s] = bought[st][s] - Size(st)
    BY <1>6, <1>7, <1>11, <2>3 DEF IsSell, SignedQuantity, StateOK
  <2>5. bought'[st][s] >= 0 \/ <<st, s>> \in failed'
    BY <1>7, <1>8, <2>2, <2>4 DEF Safe
  <2>6. \A n \in 1 .. L : ~IsSell(order_queue'[n], st, s)
    <3> SUFFICES ASSUME NEW n \in 1 .. L, IsSell(order_queue'[n], st, s) PROVE FALSE
      OBVIOUS
    <3>1. n + 1 \in 1 .. K /\ IsSell(order_queue[n + 1], st, s) /\ n + 1 # 1
      BY <1>4
    <3>2. QED
      BY <2>1, <3>1
  <2>7. ~(asked # <<>> /\ IsSell(Head(asked), st, s))
    BY <1>2, <1>4, <1>11 DEF LotInv
  <2>8. QED
    BY <1>3, <1>1, <2>1, <2>5, <2>6, <2>7 DEF LotInv
<1>12. CASE ~IsBuy(a, st, s) /\ ~IsSell(a, st, s)
  <2>1. ~(a.owner = st /\ a.order.symbol = s)
    BY <1>5, <1>12 DEF IsBuy, IsSell
  <2>2. bought'[st][s] = bought[st][s]
    <3>1. CASE bought' = bought
      BY <3>1
    <3>2. CASE bought' = [bought EXCEPT ![a.owner][a.order.symbol] = @ + q]
      BY <1>5, <2>1, <3>2 DEF StateOK
    <3>3. QED
      BY <1>9, <3>1, <3>2
  <2>3. Safe(st, s) => Safe(st, s)'
    BY <1>8, <2>2 DEF Safe
  <2>4. ASSUME NEW n \in 1 .. K, Backed(st, s, n) PROVE Backed(st, s, n - 1)'
    <3>1. CASE Safe(st, s)
      BY <2>3, <3>1 DEF Backed
    <3>2. CASE ~Safe(st, s)
      <4>1. PICK m \in 1 .. n : IsBuy(order_queue[m], st, s)
        BY <2>4, <3>2 DEF Backed
      <4>2. m \in 1 .. K /\ m # 1
        BY <1>4, <1>12, <4>1
      <4>3. m - 1 \in 1 .. n - 1 /\ IsBuy(order_queue'[m - 1], st, s)
        BY <1>4, <4>1, <4>2
      <4>4. QED
        BY <4>3 DEF Backed
    <3>3. QED
      BY <3>1, <3>2
  <2>5. ASSUME NEW n \in 1 .. L, IsSell(order_queue'[n], st, s)
        PROVE  /\ pending_exit'[st][s]
               /\ Backed(st, s, n - 1)'
               /\ \A m \in 1 .. L : IsSell(order_queue'[m], st, s) => m = n
    <3>1. n + 1 \in 1 .. K /\ IsSell(order_queue[n + 1], st, s) /\ n \in 1 .. K
      BY <1>4, <2>5
    <3>2. /\ pending_exit[st][s] /\ Backed(st, s, (n + 1) - 1)
          /\ \A m \in 1 .. K : IsSell(order_queue[m], st, s) => m = n + 1
      BY <1>2, <3>1 DEF LotInv
    <3>3. Backed(st, s, n - 1)'
      BY <2>4, <3>1, <3>2
    <3>4. ASSUME NEW m \in 1 .. L, IsSell(order_queue'[m], st, s) PROVE m = n
      <4>1. m + 1 \in 1 .. K /\ IsSell(order_queue[m + 1], st, s)
        BY <1>4, <3>4
      <4>2. QED
        BY <1>4, <3>2, <4>1
    <3>5. QED
      BY <1>1, <3>2, <3>3, <3>4
  <2>6. K \in 1 .. K /\ K - 1 = L
    BY <1>4
  <2>7. Backed(st, s, K) => Backed(st, s, L)'
    BY <2>4, <2>6
  <2>8. asked' # <<>> /\ IsSell(Head(asked'), st, s) =>
          /\ pending_exit'[st][s]
          /\ Backed(st, s, L)'
          /\ \A m \in 1 .. L : ~IsSell(order_queue'[m], st, s)
    BY <1>2, <1>1, <1>4, <2>7 DEF LotInv
  <2>9. in_position'[st][s] /\ ~pending_exit'[st][s] =>
          \/ Backed(st, s, L)'
          \/ asked' # <<>> /\ IsBuy(Head(asked'), st, s)
    BY <1>2, <1>1, <2>7 DEF LotInv
  <2>10. bought'[st][s] >= 0 \/ <<st, s>> \in failed'
    BY <1>8, <2>2 DEF LotInv
  <2>11. QED
    BY <1>3, <2>5, <2>8, <2>9, <2>10 DEF LotInv
<1>13. QED
  BY <1>10, <1>11, <1>12

\* A strategy's own orders add up to less than nothing only for a pair whose
\* buy was blocked or refused: the exit flag goes up once, after the entry's,
\* and the queue keeps the two in order.
THEOREM OwnLots == Spec => []SellsOnlyOwnLot
<1>1. Init => LotsInv
  <2> SUFFICES ASSUME Init PROVE LotsInv
    OBVIOUS
  <2>1. SizesInv
    BY DEF Init, SizesInv
  <2>2. ASSUME NEW st \in Strategies, NEW s \in Symbols PROVE LotInv(st, s)
    <3>1. in_position[st][s] = FALSE /\ bought[st][s] = 0
      BY DEF Init
    <3>2. asked = <<>> /\ Len(order_queue) = 0
      BY DEF Init
    <3>3. QED
      BY <3>1, <3>2 DEF LotInv
  <2>3. QED
    BY <2>1, <2>2 DEF LotsInv
<1>2. ASSUME StateOK, LotsInv, [Next]_vars PROVE LotsInv'
  <2>1. SizesInv'
    BY <1>2, SizesStep DEF LotsInv
  <2>2. ASSUME NEW st \in Strategies, NEW s \in Symbols PROVE LotInv(st, s)'
    <3>1. SizesInv /\ LotInv(st, s)
      BY <1>2 DEF LotsInv
    <3>2. CASE NextRound \/ NoSignal \/ Book \/ UNCHANGED vars
      <4>1. UNCHANGED <<in_position, pending_exit, asked, order_queue, bought, failed>>
        BY <3>2 DEF NextRound, NoSignal, Book, vars, strategyVars, brokerVars
      <4>2. QED
        BY <3>1, <4>1 DEF LotInv, Backed, Safe
    <3>3. QED
      BY <1>2, <3>1, <3>2, LotAsk, LotGate, LotPlace DEF Next
  <2>3. QED
    BY <2>1, <2>2 DEF LotsInv
<1>3. LotsInv => SellsOnlyOwnLot
  BY DEF LotsInv, LotInv, SellsOnlyOwnLot
<1>4. QED
  BY StateInvariance, <1>1, <1>2, <1>3, PTL DEF Spec

----------------------------------------------------------------------------
\* A set of naturals that is not empty has a least element.
LEMMA LeastNatural ==
  ASSUME NEW T \in SUBSET Nat, T # {}
  PROVE  \E n \in T : \A m \in T : n <= m
<1> DEFINE Less == {p \in Nat \X Nat : p[1] < p[2]}
<1>1. IsWellFoundedOn(Less, Nat)
  BY NatLessThanWellFounded DEF OpToRel
<1>2. \A m, n \in T : m < n => <<m, n>> \in Less
  OBVIOUS
<1> HIDE DEF Less
<1>3. PICK n \in T : \A m \in T : ~ (<<m, n>> \in Less)
  BY <1>1, WFMin
<1>4. ASSUME NEW m \in T PROVE n <= m
  <2>1. m \in Nat /\ n \in Nat /\ ~(m < n)
    BY <1>2, <1>3
  <2>2. QED
    BY <2>1
<1>5. QED
  BY <1>4

\* A finite set that is not empty has a member of the largest measure: else
\* take the smallest subset without one, and remove a member.
LEMMA LargestMember ==
  ASSUME NEW S, IsFiniteSet(S), S # {}, NEW f \in [S -> Nat]
  PROVE  \E x \in S : \A y \in S : f[y] <= f[x]
<1> DEFINE HasLargest(A) == \E x \in A : \A y \in A : f[y] <= f[x]
           Bad == {n \in Nat :
                     \E A \in SUBSET S : A # {} /\ Cardinality(A) = n /\ ~HasLargest(A)}
<1>1. SUFFICES ASSUME Bad # {} PROVE FALSE
  BY FS_CardinalityType
<1>2. PICK n \in Bad : \A m \in Bad : n <= m
  BY <1>1, LeastNatural
<1>3. PICK A \in SUBSET S : A # {} /\ Cardinality(A) = n /\ ~HasLargest(A)
  BY <1>2
<1>4. PICK x \in A : TRUE
  BY <1>3
<1>5. IsFiniteSet(A)
  BY FS_Subset
<1>6. Cardinality(A \ {x}) = n - 1 /\ Cardinality(A \ {x}) \in Nat
  BY <1>3, <1>4, <1>5, FS_RemoveElement, FS_CardinalityType
<1>7. A \ {x} # {}
  BY <1>3, <1>4
<1>8. HasLargest(A \ {x})
  BY <1>2, <1>6, <1>7
<1>9. PICK z \in A \ {x} : \A y \in A \ {x} : f[y] <= f[z]
  BY <1>8
<1>10. f[x] \in Nat /\ f[z] \in Nat /\ \A y \in A : f[y] \in Nat
  BY <1>4, <1>9
<1>11. CASE f[x] <= f[z]
  BY <1>3, <1>4, <1>9, <1>11
<1>12. CASE f[z] <= f[x]
  <2>1. \A y \in A : f[y] <= f[x]
    BY <1>9, <1>10, <1>12
  <2>2. QED
    BY <1>3, <1>4, <2>1
<1>13. QED
  BY <1>10, <1>11, <1>12

\* LargestSize is what its name says.
LEMMA LargestSizeFacts ==
  /\ LargestSize \in Nat
  /\ \A st \in Strategies : Size(st) \in Nat /\ Size(st) <= LargestSize
<1> DEFINE f == [st \in Strategies |-> Size(st)]
<1>1. \A st \in Strategies : Size(st) \in Nat
  BY SizeAssumption
<1>2. f \in [Strategies -> Nat]
  BY <1>1
<1>3. PICK st \in Strategies : \A t \in Strategies : f[t] <= f[st]
  BY <1>2, StrategiesAssumption, LargestMember
<1>4. \E n \in {Size(t) : t \in Strategies} : \A t \in Strategies : Size(t) <= n
  BY <1>3
<1>5. /\ LargestSize \in {Size(t) : t \in Strategies}
      /\ \A t \in Strategies : Size(t) <= LargestSize
  BY <1>4 DEF LargestSize
<1>6. QED
  BY <1>1, <1>5

\* The most one order can cost, and what k orders fewer than the backlog can.
LargestCost == LargestSize * High

Slack(k) == (backlog - k) * LargestCost

LEMMA Scale ==
  ASSUME NEW x \in Int, NEW y \in Int, NEW m \in Nat, x <= y
  PROVE  x * m <= y * m /\ x * m \in Int /\ y * m \in Int
  OBVIOUS

LEMMA OneMore ==
  ASSUME NEW x \in Int, NEW m \in Int
  PROVE  (x + 1) * m = x * m + m /\ x * m \in Int
  OBVIOUS

LEMMA LargestCostType == LargestCost \in Nat
  BY LargestSizeFacts, WalkAssumption, ProductsOfNaturals DEF LargestCost

LEMMA SlackFacts ==
  ASSUME backlog \in Nat, NEW k \in Int
  PROVE  /\ Slack(k) \in Int /\ Slack(k - 1) \in Int
         /\ Slack(k - 1) = Slack(k) + LargestCost
         /\ k <= backlog => Slack(k) >= 0
<1>1. backlog - (k - 1) = (backlog - k) + 1 /\ backlog - k \in Int
  OBVIOUS
<1>2. /\ ((backlog - k) + 1) * LargestCost = (backlog - k) * LargestCost + LargestCost
      /\ (backlog - k) * LargestCost \in Int
  BY <1>1, LargestCostType, OneMore
<1>3. k <= backlog => (backlog - k) * LargestCost \in Nat
  BY LargestCostType, ProductsOfNaturals
<1>4. QED
  BY <1>1, <1>2, <1>3, LargestCostType DEF Slack

\* An order costs at most LargestCost, and at most LargestSize times the
\* walk's range more than its price says.
LEMMA CostBounds ==
  ASSUME NEW o \in Order, NEW st \in Strategies, NEW p \in Low .. High,
         o.quantity = Size(st), o.price \in Low .. High
  PROVE  /\ o.quantity * p \in Nat /\ o.quantity * p <= LargestCost
         /\ PriceUsed(o) = o.price
         /\ Notional(o, PriceUsed(o)) \in Nat
         /\ LargestSize * (High - Low) \in Nat
         /\ o.quantity * p <= Notional(o, PriceUsed(o)) + LargestSize * (High - Low)
<1>1. /\ o.quantity \in Nat /\ o.quantity <= LargestSize /\ LargestSize \in Nat
      /\ p \in Nat /\ o.price \in Nat /\ o.price > 0
      /\ High \in Nat /\ Low \in Nat /\ High - Low \in Nat
      /\ p <= High /\ p - o.price <= High - Low
  BY LargestSizeFacts, WalkAssumption
<1>2. PriceUsed(o) = o.price
  BY <1>1 DEF PriceUsed
<1>3. \A a, b, c, d \in Nat :
        a <= b /\ c <= d => a * c <= b * d /\ a * c \in Nat /\ b * d \in Nat
  <2> SUFFICES ASSUME NEW a \in Nat, NEW b \in Nat, NEW c \in Nat, NEW d \in Nat,
                      a <= b, c <= d
               PROVE  a * c <= b * d /\ a * c \in Nat /\ b * d \in Nat
    OBVIOUS
  <2>1. a * c <= b * c /\ a * c \in Nat
    BY Scale, ProductsOfNaturals
  <2>2. c * b <= d * b /\ c * b = b * c /\ d * b = b * d /\ b * c \in Nat /\ b * d \in Nat
    BY Scale, ProductsOfNaturals
  <2>3. QED
    BY <2>1, <2>2
<1>4. o.quantity * p \in Nat /\ o.quantity * p <= LargestCost
  BY <1>1, <1>3 DEF LargestCost
<1>5. LargestSize * (High - Low) \in Nat /\ o.quantity * o.price \in Nat
  BY <1>1, ProductsOfNaturals
<1>6. o.quantity * p <= o.quantity * o.price + LargestSize * (High - Low)
  <2>1. CASE p <= o.price
    <3>1. o.quantity * p <= o.quantity * o.price
      BY <1>1, <1>3, <2>1
    <3>2. QED
      BY <1>4, <1>5, <3>1
  <2>2. CASE o.price <= p
    <3>1. p - o.price \in Nat
      BY <1>1, <2>2
    <3>2. o.quantity * (p - o.price) <= LargestSize * (High - Low)
      BY <1>1, <1>3, <3>1
    <3>3. o.quantity * (p - o.price) = o.quantity * p - o.quantity * o.price
      BY <1>1, Products
    <3>4. QED
      BY <1>4, <1>5, <3>2, <3>3
  <2>3. QED
    BY <1>1, <2>1, <2>2
<1>7. QED
  BY <1>2, <1>4, <1>5, <1>6 DEF Notional

\* What is left after an approved buy when everything that was unplaced ahead
\* of it is paid: queued in place n, no more than n - 1 orders are ahead, and
\* those gone have cost a LargestCost each at most.
Covered(n) ==
  LET o == order_queue[n].order
  IN /\ n - 1 <= backlog
     /\ balance >= (limits.min_balance + Notional(o, PriceUsed(o))) - Slack(n - 1)

CashInv ==
  /\ \A n \in 1 .. Len(order_queue) : order_queue[n].order.is_buy => Covered(n)
  /\ asked # <<>> => /\ Len(order_queue) <= backlog
                     /\ balance >= Head(asked).balance - Slack(Len(order_queue))
  /\ balance >= limits.min_balance - Slack(0) - LargestSize * (High - Low)

LEMMA MoneyTypes ==
  ASSUME StateOK
  PROVE  /\ balance \in Int /\ limits.min_balance \in Int /\ backlog \in Nat
         /\ LargestSize * (High - Low) \in Nat
         /\ Len(order_queue) \in Nat
         /\ \A n \in 1 .. Len(order_queue) :
              Notional(order_queue[n].order, PriceUsed(order_queue[n].order)) \in Nat
<1>1. High - Low \in Nat /\ LargestSize \in Nat
  BY WalkAssumption, LargestSizeFacts
<1>2. order_queue \in Seq(Owned)
  BY DEF StateOK
<1>3. ASSUME NEW n \in 1 .. Len(order_queue) PROVE order_queue[n].order \in Order
  <2>1. order_queue[n] \in Owned
    BY <1>2, ElementOfSeq
  <2>2. QED
    BY <2>1 DEF Owned
<1>4. limits.min_balance \in Int
  BY DEF StateOK, RiskTypeOK, LimitRecord
<1>5. QED
  BY <1>1, <1>2, <1>3, <1>4, ProductsOfNaturals, OrderFacts DEF StateOK

\* A new balance is read: the backlog may grow, which only adds slack.
LEMMA CashAsk ==
  ASSUME StateOK, CashInv, NEW s \in Symbols, NEW st \in Strategies,
         Enter(s, st) \/ Leave(s, st)
  PROVE  CashInv'
<1>1. PICK is_buy \in BOOLEAN : Ask(s, st, is_buy)
  BY DEF Enter, Leave
<1>2. /\ UNCHANGED <<order_queue, balance, limits>>
      /\ Head(asked').balance = balance
      /\ backlog' = IF Unplaced > backlog THEN Unplaced ELSE backlog
  BY <1>1 DEF Ask, riskVars, brokerVars
<1>3. /\ balance \in Int /\ limits.min_balance \in Int /\ backlog \in Nat
      /\ LargestSize * (High - Low) \in Nat /\ Len(order_queue) \in Nat
  BY MoneyTypes
<1>4. backlog' \in Nat /\ backlog <= backlog' /\ Len(order_queue) <= backlog'
  BY <1>2, <1>3 DEF Unplaced
<1>5. \A k \in Int : Slack(k) \in Int /\ Slack(k)' \in Int /\ Slack(k) <= Slack(k)'
  <2> SUFFICES ASSUME NEW k \in Int
               PROVE  Slack(k) \in Int /\ Slack(k)' \in Int /\ Slack(k) <= Slack(k)'
    OBVIOUS
  <2>1. backlog - k \in Int /\ backlog' - k \in Int /\ backlog - k <= backlog' - k
    <3>1. backlog - k \in Int /\ backlog' - k \in Int
      BY <1>3, <1>4
    <3>2. \A x, y, z \in Int : x <= y => x - z <= y - z
      OBVIOUS
    <3>3. backlog \in Int /\ backlog' \in Int /\ backlog <= backlog'
      BY <1>3, <1>4
    <3>4. QED
      BY <3>1, <3>2, <3>3
  <2>2. QED
    BY <2>1, LargestCostType, Scale DEF Slack
<1>6. Slack(Len(order_queue))' >= 0
  <2>1. backlog' - Len(order_queue) \in Nat
    BY <1>3, <1>4
  <2>2. (backlog' - Len(order_queue)) * LargestCost \in Nat
    BY <2>1, LargestCostType, ProductsOfNaturals
  <2>3. QED
    BY <1>2, <2>2 DEF Slack
<1>7. ASSUME NEW n \in 1 .. Len(order_queue'), order_queue'[n].order.is_buy
      PROVE  Covered(n)'
  <2>1. n \in 1 .. Len(order_queue) /\ order_queue[n].order.is_buy
    BY <1>2, <1>7
  <2>2. Covered(n) /\ Notional(order_queue[n].order, PriceUsed(order_queue[n].order)) \in Nat
    <3>1. order_queue[n].order.is_buy => Covered(n)
      BY <2>1 DEF CashInv
    <3>2. QED
      BY <2>1, <3>1, MoneyTypes
  <2>3. n \in Int /\ n - 1 \in Int
    BY <1>3, <2>1
  <2>4. Slack(n - 1) \in Int /\ Slack(n - 1)' \in Int /\ Slack(n - 1) <= Slack(n - 1)'
    BY <1>5, <2>3
  <2>5. n - 1 <= backlog'
    BY <1>3, <1>4, <2>2 DEF Covered
  <2>6. balance >= (limits.min_balance
                      + Notional(order_queue[n].order, PriceUsed(order_queue[n].order)))
                     - Slack(n - 1)'
    BY <1>3, <2>2, <2>4 DEF Covered
  <2>7. QED
    BY <1>2, <2>5, <2>6 DEF Covered, Notional, PriceUsed
<1>8. /\ Len(order_queue') <= backlog'
      /\ balance' >= Head(asked').balance - Slack(Len(order_queue))'
  <2>1. Slack(Len(order_queue))' \in Int
    BY <1>2, <1>3, <1>5
  <2>2. QED
    BY <1>2, <1>3, <1>4, <1>6, <2>1
<1>9. balance' >= limits'.min_balance - Slack(0)' - LargestSize * (High - Low)
  <2>1. Slack(0) \in Int /\ Slack(0)' \in Int /\ Slack(0) <= Slack(0)'
    BY <1>5
  <2>2. QED
    BY <1>2, <1>3, <2>1 DEF CashInv
<1>10. QED
  BY <1>7, <1>8, <1>9 DEF CashInv

\* What the gate approves is covered where it is queued.
LEMMA CashGate == ASSUME StateOK, CashInv, Gate PROVE CashInv'
<1> DEFINE a == Head(asked)
           b == [order |-> a.order, owner |-> a.owner]
<1>1. /\ UNCHANGED <<balance, limits, backlog>>
      /\ asked # <<>> /\ asked' = <<>>
      /\ asked \in Seq(Asked) /\ order_queue \in Seq(Owned)
  BY DEF Gate, riskVars, brokerVars, StateOK
<1>2. a \in Asked
  BY <1>1
<1>3. b \in Owned /\ a.order \in Order /\ a.balance \in Int
  BY <1>2 DEF Asked, Owned
<1>4. \A k : Slack(k)' = Slack(k)
  BY <1>1 DEF Slack
<1>5. balance' >= limits'.min_balance - Slack(0)' - LargestSize * (High - Low)
  BY <1>1, <1>4 DEF CashInv
<1>6. CASE order_queue' = order_queue
  <2>1. \A n \in 1 .. Len(order_queue') : order_queue'[n].order.is_buy => Covered(n)'
    BY <1>1, <1>4, <1>6 DEF CashInv, Covered, Notional, PriceUsed
  <2>2. QED
    BY <1>1, <1>5, <2>1 DEF CashInv
<1>7. CASE /\ order_queue' = Append(order_queue, b)
           /\ CanSubmitOrder(a.order, a.balance, PriceUsed(a.order))
  <2>1. PICK K \in Nat : K = Len(order_queue)
    BY <1>1
  <2>2. /\ Len(order_queue') = K + 1
        /\ \A n \in 1 .. K : order_queue'[n] = order_queue[n]
        /\ order_queue'[K + 1] = b
    BY <1>1, <1>3, <1>7, <2>1, QueueAppend
  <2>3. ASSUME NEW n \in 1 .. K, order_queue'[n].order.is_buy PROVE Covered(n)'
    <3>1. Covered(n)
      BY <2>1, <2>2, <2>3 DEF CashInv
    <3>2. QED
      BY <1>1, <1>4, <2>2, <3>1 DEF Covered, Notional, PriceUsed
  <2>4. ASSUME a.order.is_buy PROVE Covered(K + 1)'
    <3>1. a.balance - Notional(a.order, PriceUsed(a.order)) >= limits.min_balance
      BY <1>7, <2>4 DEF CanSubmitOrder, BuyFits
    <3>2. K <= backlog /\ balance >= a.balance - Slack(K)
      BY <1>1, <2>1 DEF CashInv
    <3>3. /\ balance \in Int /\ limits.min_balance \in Int /\ backlog \in Nat
          /\ Notional(a.order, PriceUsed(a.order)) \in Nat
      BY <1>3, MoneyTypes, OrderFacts
    <3>4. Slack(K) \in Int
      BY <3>3, SlackFacts
    <3>5. \A p, q, r, t, u \in Int : p - q >= r /\ t >= p - u => t >= (r + q) - u
      OBVIOUS
    <3>6. balance >= (limits.min_balance + Notional(a.order, PriceUsed(a.order))) - Slack(K)
      BY <1>3, <3>1, <3>2, <3>3, <3>4, <3>5
    <3>7. (K + 1) - 1 = K
      OBVIOUS
    <3>8. b.order = a.order
      OBVIOUS
    <3>9. QED
      BY <1>1, <1>4, <2>2, <3>2, <3>6, <3>7, <3>8 DEF Covered, Notional, PriceUsed
  <2>5. b.order = a.order
    OBVIOUS
  <2>6. \A n \in 1 .. Len(order_queue') : order_queue'[n].order.is_buy => Covered(n)'
    BY <2>2, <2>3, <2>4, <2>5
  <2>7. QED
    BY <1>1, <1>5, <2>6 DEF CashInv
<1>8. QED
  BY <1>6, <1>7 DEF Gate

\* Paying for the head of the queue, or dropping it, leaves one order less
\* ahead of the others.
LEMMA CashPlace ==
  ASSUME StateOK, SizesInv, CashInv, Place
  PROVE  CashInv'
<1> DEFINE a == Head(order_queue)
           q == SignedQuantity(a.order)
           N == Notional(a.order, PriceUsed(a.order))
           R == LargestSize * (High - Low)
<1>1. PICK K \in Nat : K = Len(order_queue)
  BY MoneyTypes
<1>2. PICK L \in Nat : L = Len(order_queue')
  BY PlacedOrder
<1>3. /\ K = L + 1 /\ a = order_queue[1] /\ 1 \in 1 .. K
      /\ \A n \in 1 .. L : order_queue'[n] = order_queue[n + 1] /\ n + 1 \in 1 .. K
  <2>1. order_queue \in Seq(Owned) /\ order_queue # <<>> /\ order_queue' = Tail(order_queue)
    BY DEF StateOK, Place
  <2>2. QED
    BY <1>1, <1>2, <2>1, QueueTail
<1>4. /\ a.order \in Order /\ a.owner \in Strategies /\ price \in Low .. High
      /\ price \in Nat /\ a.order.is_buy \in BOOLEAN
  BY PlacedOrder, OrderFacts DEF StateOK
<1>5. a.order.quantity = Size(a.owner) /\ a.order.price \in Low .. High
  BY <1>1, <1>3 DEF SizesInv, Sized
<1>6. /\ a.order.quantity * price \in Nat /\ a.order.quantity * price <= LargestCost
      /\ N \in Nat /\ R \in Nat /\ a.order.quantity * price <= N + R
  BY <1>4, <1>5, CostBounds
<1>7. /\ balance \in Int /\ limits.min_balance \in Int /\ backlog \in Nat
      /\ LargestCost \in Int
  BY MoneyTypes, LargestCostType
<1>8. UNCHANGED <<limits, backlog, asked>>
  BY DEF Place, riskVars
<1>9. balance' \in Int
  BY PlaceStateOK, MoneyTypes DEF StateOK
\* The balance falls by the cost of a buy, if at all.
<1>10. \/ balance' >= balance
       \/ a.order.is_buy /\ balance' = balance - a.order.quantity * price
  <2>1. CASE a.order.is_buy
    <3>1. q = a.order.quantity
      BY <2>1 DEF SignedQuantity
    <3>2. balance' = balance \/ balance' = balance - q * price
      BY DEF Place, brokerVars
    <3>3. QED
      BY <1>7, <2>1, <3>1, <3>2
  <2>2. CASE ~a.order.is_buy
    <3>1. q = -a.order.quantity /\ a.order.quantity \in Int
      BY <1>4, <2>2, OrderFacts DEF SignedQuantity
    <3>2. balance' = balance - q * price
      BY <2>2 DEF Place
    <3>3. q * price = -(a.order.quantity * price)
      BY <1>4, <3>1, Products
    <3>4. QED
      BY <1>6, <1>7, <3>2, <3>3
  <2>3. QED
    BY <1>4, <2>1, <2>2
<1> HIDE DEF a, q, N, R
<1>11. balance' >= balance - LargestCost
  BY <1>6, <1>7, <1>9, <1>10
<1>12. \A k \in Int : /\ Slack(k) \in Int /\ Slack(k)' = Slack(k)
                      /\ Slack(k - 1) = Slack(k) + LargestCost
  BY <1>7, <1>8, SlackFacts DEF Slack
\* What was covered with one order more ahead still is.
<1>13. ASSUME NEW k \in Int, NEW m \in Int, balance >= m - Slack(k)
       PROVE  balance' >= m - Slack(k - 1)'
  <2>1. /\ Slack(k) \in Int /\ Slack(k - 1)' = Slack(k) + LargestCost
    BY <1>12
  <2>2. \A x, y, z, u, v \in Int : x >= y - z /\ u >= x - v => u >= y - (z + v)
    OBVIOUS
  <2>3. QED
    BY <1>7, <1>9, <1>11, <1>13, <2>1, <2>2
<1>14. ASSUME NEW n \in 1 .. L, order_queue'[n].order.is_buy PROVE Covered(n)'
  <2> DEFINE o == order_queue[n + 1].order
             m == limits.min_balance + Notional(o, PriceUsed(o))
  <2>1. order_queue'[n].order = o /\ n + 1 \in 1 .. K /\ n \in Int /\ n - 1 \in Int
    BY <1>3
  <2>2. Covered(n + 1) /\ Notional(o, PriceUsed(o)) \in Nat
    BY <1>1, <1>14, <2>1, MoneyTypes DEF CashInv
  <2>3. (n + 1) - 1 = n /\ n - 1 <= n /\ m \in Int
    BY <1>7, <2>1, <2>2
  <2>4. n <= backlog /\ balance >= m - Slack(n)
    <3>1. (n + 1) - 1 <= backlog /\ balance >= m - Slack((n + 1) - 1)
      BY <2>2 DEF Covered
    <3>2. QED
      BY <2>3, <3>1
  <2>5. balance' >= m - Slack(n - 1)'
    BY <1>13, <2>1, <2>3, <2>4
  <2>6. n - 1 <= backlog'
    BY <1>7, <1>8, <2>1, <2>4
  <2>7. balance' >= (limits'.min_balance
                     + Notional(order_queue'[n].order, PriceUsed(order_queue'[n].order)))
                    - Slack(n - 1)'
    BY <1>8, <2>1, <2>5 DEF Notional, PriceUsed
  <2>8. QED
    BY <2>6, <2>7 DEF Covered, Notional, PriceUsed
<1>15. asked # <<>> => /\ L <= backlog
                      /\ balance' >= Head(asked).balance - Slack(L)'
  <2> SUFFICES ASSUME asked # <<>>
               PROVE  L <= backlog /\ balance' >= Head(asked).balance - Slack(L)'
    OBVIOUS
  <2>1. K <= backlog /\ balance >= Head(asked).balance - Slack(K)
    BY <1>1 DEF CashInv
  <2>2. Head(asked).balance \in Int
    <3>1. Head(asked) \in Asked
      BY DEF StateOK
    <3>2. QED
      BY <3>1 DEF Asked
  <2>3. K - 1 = L /\ L <= K
    BY <1>3
  <2>4. balance' >= Head(asked).balance - Slack(K - 1)'
    BY <1>13, <2>1, <2>2
  <2>5. QED
    BY <1>7, <2>1, <2>3, <2>4
\* The head was covered with nothing ahead of it: what it costs more than its
\* price says is what the price moved.
<1>16. balance' >= limits.min_balance - Slack(0)' - R
  <2>1. Slack(0) \in Int /\ Slack(0)' = Slack(0)
    BY <1>12
  <2>2. CASE balance' >= balance
    <3>1. balance >= limits.min_balance - Slack(0) - R
      BY DEF CashInv, R
    <3>2. QED
      BY <1>6, <1>7, <1>9, <2>1, <2>2, <3>1
  <2>3. CASE a.order.is_buy /\ balance' = balance - a.order.quantity * price
    <3>1. Covered(1)
      BY <1>1, <1>3, <2>3 DEF CashInv
    <3>2. balance >= (limits.min_balance + N) - Slack(0)
      BY <1>3, <3>1 DEF Covered, N
    <3>3. \A x, y, z, u, v, w \in Int :
            x >= (y + z) - u /\ v <= z + w => x - v >= y - u - w
      OBVIOUS
    <3>4. QED
      BY <1>6, <1>7, <2>1, <2>3, <3>2, <3>3
  <2>4. QED
    BY <1>10, <2>2, <2>3
<1>17. QED
  BY <1>2, <1>8, <1>14, <1>15, <1>16 DEF CashInv, R

\* Every approval looks at a balance from which the orders approved before it
\* are not paid yet: cash falls below min_balance by at most the backlog at
\* the highest price, and what the price moved before the last fill.
THEOREM CashBounded == Spec => []CashOvershoot
<1>1. Init => SizesInv /\ CashInv
  <2> SUFFICES ASSUME Init PROVE SizesInv /\ CashInv
    OBVIOUS
  <2>1. SizesInv
    BY DEF Init, SizesInv
  <2>2. asked = <<>> /\ Len(order_queue) = 0
    BY DEF Init
  <2>3. balance \in Int /\ limits.min_balance \in Int /\ balance >= limits.min_balance
    BY StartAssumption, LimitsAssumption DEF Init, RiskInit, LimitRecord
  <2>4. LargestSize * (High - Low) \in Nat
    BY InitState, MoneyTypes
  <2>5. Slack(0) \in Int /\ Slack(0) >= 0
    <3>1. backlog \in Nat /\ 0 <= backlog
      BY DEF Init
    <3>2. QED
      BY <3>1, SlackFacts
  <2>6. balance >= limits.min_balance - Slack(0) - LargestSize * (High - Low)
    BY <2>3, <2>4, <2>5
  <2>7. QED
    BY <2>1, <2>2, <2>6 DEF CashInv
<1>2. ASSUME StateOK, SizesInv, CashInv, [Next]_vars PROVE SizesInv' /\ CashInv'
  <2>1. SizesInv'
    BY <1>2, SizesStep
  <2>2. CASE NextRound \/ NoSignal \/ Book \/ UNCHANGED vars
    <3>1. UNCHANGED <<order_queue, asked, balance, backlog, limits>>
      BY <2>2 DEF NextRound, NoSignal, Book, OnOrderFilled, vars, riskVars, brokerVars
    <3>2. QED
      BY <1>2, <2>1, <3>1 DEF CashInv, Covered, Slack, Notional, PriceUsed
  <2>3. QED
    BY <1>2, <2>1, <2>2, CashAsk, CashGate, CashPlace DEF Next
<1>3. StateOK /\ CashInv => CashOvershoot
  <2> SUFFICES ASSUME StateOK, CashInv PROVE CashOvershoot
    OBVIOUS
  <2>1. balance >= limits.min_balance - Slack(0) - LargestSize * (High - Low)
    BY DEF CashInv
  <2>2. Slack(0) = backlog * LargestSize * High
    <3>1. \A x, y, z \in Int : (x - 0) * (y * z) = x * y * z
      OBVIOUS
    <3>2. backlog \in Int /\ LargestSize \in Int /\ High \in Int
      BY MoneyTypes, LargestSizeFacts, WalkAssumption
    <3>3. QED
      BY <3>1, <3>2 DEF Slack, LargestCost
  <2>3. QED
    BY <2>1, <2>2 DEF CashOvershoot
<1>4. QED
  BY StateInvariance, <1>1, <1>2, <1>3, PTL DEF Spec
=============================================================================
