-------------------------- MODULE StrategiesProofs --------------------------
(***************************************************************************)
(* The strategies keep the one-lot protocol, and what they believe matches *)
(* what the exchange holds: MomentumStrategy with its callbacks wired, and *)
(* the three strategies built on LotMachine, for any prices, indicators,   *)
(* percentages, windows and numbers of entries and rejections; the scores  *)
(* of the weighted strategy are fractions, and the sizes of the enhanced   *)
(* one are what its Kelly sizer and its regime detector allow.             *)
(***************************************************************************)
EXTENDS MomentumStrategy, SequenceTheorems, FiniteSetTheorems, WellFoundedInduction, TLAPS

\* The constants and variables of MCStrategies that MomentumStrategy has not.
CONSTANTS
  OneSymbol, TwoSymbols,
  WeightedPrices, Indicators, WeightSets, EntryThreshold, ExitThreshold, Enough,
  VwapPrices, VwapVolumes, MaxVolume,
  EnhancedPrices, EnhancedVolumes, Results, Capital, HalfSize, MinReturns, KeepReturns

VARIABLES
  strategy, positions, lot, weights, weighted_score,
  cumulative_pv, cumulative_v, bought,
  last_price, returns, volumes, kelly_returns, closed

----------------------------------------------------------------------------
(***************************************************************************)
(* MomentumStrategy.                                                       *)
(***************************************************************************)
BuyOrder == [is_buy |-> TRUE]
SellOrder == [is_buy |-> FALSE]

\* The four situations between two ticks or answers: nothing on its way, the
\* entry, the exit, or the exit emitted behind an entry not yet resolved.
Settled ==
  outstanding = <<>> /\ ~pending_exit /\ (in_position <=> holding = 1)
Entering ==
  outstanding = <<BuyOrder>> /\ ~pending_exit /\ in_position /\ holding = 0
Leaving ==
  outstanding = <<SellOrder>> /\ pending_exit /\ (in_position <=> holding = 1)
EnteringLeaving ==
  outstanding = <<BuyOrder, SellOrder>> /\ pending_exit /\ in_position /\ holding = 0

LotInv ==
  /\ holding \in {0, 1} /\ position = holding
  /\ Settled \/ Entering \/ Leaving \/ EnteringLeaving

\* The stop is the one that belongs to the highest price.
StopInv == in_position => trailing_stop = StopFor(highest_price)

----------------------------------------------------------------------------
\* Queues of one or two orders.
LEMMA ShortQueues ==
  ASSUME NEW a, NEW b
  PROVE  /\ Append(<<>>, a) = <<a>> /\ Append(<<a>>, b) = <<a, b>>
         /\ Head(<<a>>) = a /\ Tail(<<a>>) = <<>>
         /\ Head(<<a, b>>) = a /\ Tail(<<a, b>>) = <<b>>
         /\ <<a>> # <<>> /\ <<a, b>> # <<>>
<1>1. <<a>> \in Seq({a, b}) /\ <<a, b>> \in Seq({a, b}) /\ Len(<<a, b>>) = 2
  OBVIOUS
<1>2. /\ Append(<<a>>, b) \in Seq({a, b}) /\ Len(Append(<<a>>, b)) = 2
      /\ \A n \in 1 .. 2 : Append(<<a>>, b)[n] = <<a, b>>[n]
  BY <1>1
<1>3. Append(<<a>>, b) = <<a, b>>
  BY <1>1, <1>2, SeqEqual
<1>4. QED
  BY <1>3

\* A higher price has a stop at least as high.
LEMMA StopMonotone ==
  ASSUME NEW low \in Nat, NEW high \in Nat, low <= high
  PROVE  /\ StopFor(low) \in Nat /\ StopFor(high) \in Nat
         /\ StopFor(low) <= StopFor(high)
<1>1. PICK d \in Nat : high = low + d
  <2>1. high - low \in Nat /\ high = low + (high - low)
    OBVIOUS
  <2>2. QED
    BY <2>1
<1>2. 100 - StopPct \in Nat
  BY PctAssumption
<1>3. \A x, y, z \in Nat : (x + y) * z = x * z + y * z /\ x * z \in Nat /\ y * z \in Nat
  OBVIOUS
<1>4. QED
  BY <1>1, <1>2, <1>3 DEF StopFor


\* The tick that leaves flags and orders alone, and the one that exits.
LEMMA TickCases ==
  ASSUME Tick
  PROVE  /\ UNCHANGED <<position, holding>>
         /\ \/ UNCHANGED <<in_position, pending_exit, outstanding>>
            \/ /\ in_position /\ ~pending_exit /\ in_position'
               /\ pending_exit' = TRUE
               /\ outstanding' = Append(outstanding, SellOrder)
            \/ /\ ~in_position /\ ~pending_exit /\ in_position' = TRUE
               /\ pending_exit' = pending_exit
               /\ outstanding' = Append(outstanding, BuyOrder)
<1> USE DEF worldVars, dataVars, BuyOrder, SellOrder
<1>1. CASE TickCold
  BY <1>1 DEF TickCold
<1>2. CASE TickInPosition
  BY <1>2 DEF TickInPosition
<1>3. CASE TickEntry
  BY <1>3 DEF TickEntry
<1>4. CASE TickFlat
  BY <1>4 DEF TickFlat
<1>5. QED
  BY <1>1, <1>2, <1>3, <1>4 DEF Tick

\* How many buys and sells a queue of one of the four shapes holds.
Count(q) == Cardinality({n \in DOMAIN q : q[n].is_buy})
CountRest(q) == Cardinality(DOMAIN q \ {n \in DOMAIN q : q[n].is_buy})

LEMMA CountsOfShort ==
  ASSUME NEW b, NEW x, b.is_buy = TRUE, x.is_buy = FALSE
  PROVE  /\ Count(<< >>) = 0 /\ CountRest(<< >>) = 0
         /\ Count(<<b>>) = 1 /\ CountRest(<<b>>) = 0
         /\ Count(<<x>>) = 0 /\ CountRest(<<x>>) = 1
         /\ Count(<<b, x>>) = 1 /\ CountRest(<<b, x>>) = 1
<1>0. Cardinality({}) = 0 /\ Cardinality({1}) = 1 /\ Cardinality({2}) = 1
  BY FS_EmptySet, FS_Singleton
<1>1. DOMAIN << >> = {}
  OBVIOUS
<1>2. /\ DOMAIN <<b>> = {1} /\ <<b>>[1] = b
      /\ DOMAIN <<x>> = {1} /\ <<x>>[1] = x
  OBVIOUS
<1>3. DOMAIN <<b, x>> = {1, 2} /\ <<b, x>>[1] = b /\ <<b, x>>[2] = x
  OBVIOUS
<1>4. Count(<< >>) = 0 /\ CountRest(<< >>) = 0
  BY <1>0, <1>1 DEF Count, CountRest
<1>5. {n \in DOMAIN <<b>> : <<b>>[n].is_buy} = {1}
  BY <1>2
<1>6. {n \in DOMAIN <<x>> : <<x>>[n].is_buy} = {}
  BY <1>2
<1>7. {n \in DOMAIN <<b, x>> : <<b, x>>[n].is_buy} = {1}
  BY <1>3
<1>8. Count(<<b>>) = 1 /\ CountRest(<<b>>) = 0
  BY <1>0, <1>2, <1>5 DEF Count, CountRest
<1>9. Count(<<x>>) = 0 /\ CountRest(<<x>>) = 1
  BY <1>0, <1>2, <1>6 DEF Count, CountRest
<1>10. Count(<<b, x>>) = 1 /\ CountRest(<<b, x>>) = 1
  <2>1. {1, 2} \ {1} = {2}
    OBVIOUS
  <2>2. QED
    BY <1>0, <1>3, <1>7, <2>1 DEF Count, CountRest
<1>11. QED
  BY <1>4, <1>8, <1>9, <1>10

\* What the protocol sees in each situation.
Counted(buys, sells) == Cardinality(Buys) = buys /\ Cardinality(Sells) = sells

View ==
  /\ Settled => Counted(0, 0)
  /\ Entering => Counted(1, 0)
  /\ Leaving => Counted(0, 1)
  /\ EnteringLeaving => Counted(1, 1)

LEMMA ProtocolView == View
<1>1. BuyOrder.is_buy = TRUE /\ SellOrder.is_buy = FALSE
  BY DEF BuyOrder, SellOrder
<1>2. Cardinality(Buys) = Count(outstanding) /\ Cardinality(Sells) = CountRest(outstanding)
  BY DEF Buys, Sells, Count, CountRest
<1>3. QED
  BY <1>1, <1>2, CountsOfShort
  DEF View, Counted, Settled, Entering, Leaving, EnteringLeaving

LEMMA ProtocolViewNext == View'
  BY ProtocolView, PTL

\* How a step moves between the situations, in the protocol's order.
Transition ==
  \/ /\ holding' = holding
     /\ \/ Settled /\ Settled'
        \/ Entering /\ Entering'
        \/ Leaving /\ Leaving'
        \/ EnteringLeaving /\ EnteringLeaving'
  \/ Settled /\ holding = 0 /\ Entering'
  \/ Settled /\ holding = 1 /\ holding' = 1 /\ Leaving'
  \/ Entering /\ EnteringLeaving'
  \/ Entering /\ Settled'
  \/ EnteringLeaving /\ Leaving'
  \/ Leaving /\ Settled' /\ (holding' = holding \/ (holding = 1 /\ holding' = 0))

LEMMA LotStep ==
  ASSUME CallbacksWired, TypeOK, TypeOK', LotInv, [Next]_vars
  PROVE  LotInv' /\ Transition
<1> USE DEF Settled, Entering, Leaving, EnteringLeaving
<1>0. /\ in_position \in BOOLEAN /\ pending_exit \in BOOLEAN
      /\ in_position' \in BOOLEAN /\ pending_exit' \in BOOLEAN
  BY DEF TypeOK
<1>1. CASE Tick
  <2>1. CASE UNCHANGED <<in_position, pending_exit, outstanding>>
    BY <1>0, <1>1, <2>1, TickCases DEF LotInv, Transition
  <2>2. CASE /\ in_position /\ ~pending_exit /\ in_position'
             /\ pending_exit' = TRUE
             /\ outstanding' = Append(outstanding, SellOrder)
    <3>1. (Settled /\ holding = 1) \/ Entering
      BY <2>2 DEF LotInv
    <3>2. (Settled /\ Leaving') \/ (Entering /\ EnteringLeaving')
      BY <1>0, <1>1, <2>2, <3>1, TickCases, ShortQueues
    <3>3. holding' = holding /\ position' = position
      BY <1>0, <1>1, TickCases
    <3>4. QED
      BY <3>1, <3>2, <3>3 DEF LotInv, Transition
  <2>3. CASE /\ ~in_position /\ ~pending_exit /\ in_position' = TRUE
             /\ pending_exit' = pending_exit
             /\ outstanding' = Append(outstanding, BuyOrder)
    <3>1. Settled /\ holding = 0
      BY <2>3 DEF LotInv
    <3>2. Entering'
      BY <1>0, <1>1, <2>3, <3>1, TickCases, ShortQueues
    <3>3. QED
      BY <1>0, <1>1, <3>1, <3>2, TickCases DEF LotInv, Transition
  <2>4. QED
    BY <1>0, <1>1, <2>1, <2>2, <2>3, TickCases
<1>2. CASE Clock \/ UNCHANGED vars
  BY <1>0, <1>2 DEF Clock, vars, worldVars, dataVars, LotInv, Transition
<1>3. CASE Fill \/ Reject
  <2> USE DEF LotInv, Fill, Reject, OnOrderFilled, OnOrderRejected
  <2>1. CASE Entering
    <3>1. Head(outstanding) = BuyOrder /\ Tail(outstanding) = <<>>
      BY <2>1, ShortQueues
    <3>2. Settled' /\ holding' \in {0, 1} /\ position' = holding'
      BY <1>0, <1>3, <2>1, <3>1 DEF BuyOrder
    <3>3. QED
      BY <2>1, <3>2 DEF Transition
  <2>2. CASE Leaving
    <3>1. Head(outstanding) = SellOrder /\ Tail(outstanding) = <<>>
      BY <2>2, ShortQueues
    <3>2. /\ Settled' /\ holding' \in {0, 1} /\ position' = holding'
          /\ holding' = holding \/ (holding = 1 /\ holding' = 0)
      BY <1>0, <1>3, <2>2, <3>1 DEF SellOrder
    <3>3. QED
      BY <2>2, <3>2 DEF Transition
  <2>3. CASE EnteringLeaving
    <3>1. Head(outstanding) = BuyOrder /\ Tail(outstanding) = <<SellOrder>>
      BY <2>3, ShortQueues
    <3>2. Leaving' /\ holding' \in {0, 1} /\ position' = holding'
      BY <1>0, <1>3, <2>3, <3>1 DEF BuyOrder
    <3>3. QED
      BY <2>3, <3>2 DEF Transition
  <2>4. QED
    BY <1>0, <1>3, <2>1, <2>2, <2>3
<1>4. QED
  BY <1>0, <1>1, <1>2, <1>3 DEF Next

\* Every step is one the protocol allows, or leaves what it sees alone.
LEMMA ProtocolStep ==
  ASSUME LotInv, LotInv', Transition
  PROVE  [Protocol!Next]_(Protocol!vars)
<1>1. View /\ View' /\ holding \in {0, 1} /\ holding' \in {0, 1}
  BY ProtocolView, ProtocolViewNext DEF LotInv
<1>2. CASE /\ holding' = holding
           /\ \/ Settled /\ Settled'
              \/ Entering /\ Entering'
              \/ Leaving /\ Leaving'
              \/ EnteringLeaving /\ EnteringLeaving'
  BY <1>1, <1>2 DEF View, Counted, Protocol!vars
<1>3. CASE Settled /\ holding = 0 /\ Entering'
  <2>1. Counted(0, 0) /\ Counted(1, 0)' /\ holding' = 0
    BY <1>1, <1>3 DEF View, Entering
  <2>2. Protocol!EmitBuy
    BY <1>3, <2>1 DEF Protocol!EmitBuy, Counted
  <2>3. QED
    BY <2>2 DEF Protocol!Next
<1>4. CASE \/ Settled /\ holding = 1 /\ holding' = 1 /\ Leaving'
           \/ Entering /\ EnteringLeaving'
  <2>1. \/ holding = 1 /\ holding' = 1 /\ Counted(0, 0) /\ Counted(0, 1)'
        \/ holding = 0 /\ holding' = 0 /\ Counted(1, 0) /\ Counted(1, 1)'
    BY <1>1, <1>4 DEF View, Entering, EnteringLeaving
  <2>2. Protocol!EmitSell
    BY <2>1 DEF Protocol!EmitSell, Counted
  <2>3. QED
    BY <2>2 DEF Protocol!Next
<1>5. CASE (Entering /\ Settled') \/ (EnteringLeaving /\ Leaving')
  <2>1. /\ holding = 0 /\ holding' \in {0, 1}
        /\ \/ Counted(1, 0) /\ Counted(0, 0)'
           \/ Counted(1, 1) /\ Counted(0, 1)'
    BY <1>1, <1>5 DEF View, Entering, EnteringLeaving
  <2>2. Protocol!BuyFilled \/ Protocol!BuyRejected
    BY <2>1 DEF Protocol!BuyFilled, Protocol!BuyRejected, Counted
  <2>3. QED
    BY <2>2 DEF Protocol!Next
<1>6. CASE Leaving /\ Settled' /\ (holding' = holding \/ (holding = 1 /\ holding' = 0))
  <2>1. Counted(0, 1) /\ Counted(0, 0)'
    BY <1>1, <1>6 DEF View
  <2>2. Protocol!SellFilled \/ Protocol!SellRejected
    BY <1>6, <2>1 DEF Protocol!SellFilled, Protocol!SellRejected, Counted
  <2>3. QED
    BY <2>2 DEF Protocol!Next
<1>7. QED
  BY <1>2, <1>3, <1>4, <1>5, <1>6 DEF Transition

\* Every step keeps the state well typed.
LEMMA TypeStep == ASSUME TypeOK, [Next]_vars PROVE TypeOK'
<1>1. \A price \in Prices : price \in Nat /\ StopFor(price) \in Nat
  BY StopMonotone, PricesAssumption
<1>2. SeenAfterTick \in 0 .. Window
  BY CountsAssumption DEF TypeOK, SeenAfterTick
<1>3. /\ Append(outstanding, [is_buy |-> FALSE]) \in Seq(OrderType)
      /\ Append(outstanding, [is_buy |-> TRUE]) \in Seq(OrderType)
  BY DEF TypeOK, OrderType
<1> USE DEF TypeOK, dataVars, worldVars
<1>4. CASE TickCold \/ TickFlat
  BY <1>2, <1>4 DEF TickCold, TickFlat
<1>5. CASE Clock
  BY CountsAssumption, <1>5 DEF Clock
<1>6. CASE TickInPosition
  <2>1. PICK price \in Prices :
          /\ highest_price' = IF NewHigh(price) THEN price ELSE highest_price
          /\ trailing_stop' = IF NewHigh(price) THEN StopFor(price) ELSE trailing_stop
          /\ \/ /\ outstanding' = Append(outstanding, [is_buy |-> FALSE])
                /\ pending_exit' = TRUE
                /\ pnl' = pnl + (price - entry_price)
             \/ UNCHANGED <<outstanding, pending_exit, pnl>>
    BY <1>6 DEF TickInPosition
  <2>2. /\ seen' = SeenAfterTick
        /\ UNCHANGED <<in_position, entry_price, age, position, worldVars, entries>>
    BY <1>6 DEF TickInPosition
  <2>3. highest_price' \in Nat /\ trailing_stop' \in Nat
    BY <1>1, <2>1
  <2>4. outstanding' \in Seq(OrderType) /\ pending_exit' \in BOOLEAN /\ pnl' \in Int
    <3>1. CASE UNCHANGED <<outstanding, pending_exit, pnl>>
      BY <3>1
    <3>2. CASE /\ outstanding' = Append(outstanding, [is_buy |-> FALSE])
               /\ pending_exit' = TRUE
               /\ pnl' = pnl + (price - entry_price)
      BY <1>1, <1>3, <3>2
    <3>3. QED
      BY <2>1, <3>1, <3>2
  <2>5. QED
    BY <1>2, <2>2, <2>3, <2>4
<1>7. CASE TickEntry
  BY <1>1, <1>2, <1>3, <1>7, CountsAssumption DEF TickEntry
<1>8. CASE Fill \/ Reject
  <2>1. outstanding' = Tail(outstanding) /\ outstanding # <<>>
    BY <1>8 DEF Fill, Reject
  <2>2. outstanding' \in Seq(OrderType) /\ Head(outstanding) \in OrderType
    BY <2>1
  <2>3. Head(outstanding).is_buy \in BOOLEAN
    BY <2>2 DEF OrderType
  <2>4. UNCHANGED <<seen, age, pnl, entries, entry_price, highest_price, trailing_stop>>
    BY <1>8 DEF Fill, Reject, OnOrderFilled, OnOrderRejected
  <2>5. rejections' \in Nat
    <3>1. rejections' = rejections \/ rejections' = rejections + 1
      BY <1>8 DEF Fill, Reject
    <3>2. QED
      BY <3>1
  <2>6. holding' \in Int /\ position' \in Int
    <3>1. \/ holding' = holding \/ holding' = holding + 1 \/ holding' = holding - 1
      BY <1>8 DEF Fill, Reject
    <3>2. \/ position' = position \/ position' = position + 1 \/ position' = position - 1
      BY <1>8 DEF Fill, Reject, OnOrderFilled, OnOrderRejected
    <3>3. QED
      BY <3>1, <3>2
  <2>7. in_position' \in BOOLEAN /\ pending_exit' \in BOOLEAN
    BY <1>8, <2>3 DEF Fill, Reject, OnOrderFilled, OnOrderRejected
  <2>8. QED
    BY <2>2, <2>4, <2>5, <2>6, <2>7
<1>9. CASE UNCHANGED vars
  BY <1>9 DEF vars
<1>10. QED
  BY <1>4, <1>5, <1>6, <1>7, <1>8, <1>9 DEF Next, Tick

\* The stop follows the highest price, and so only rises while in position.
LEMMA StopStep ==
  ASSUME TypeOK, StopInv, [Next]_vars
  PROVE  /\ StopInv'
         /\ in_position /\ in_position' => trailing_stop' >= trailing_stop
<1> USE DEF StopInv, dataVars, worldVars
<1>0. trailing_stop \in Nat /\ highest_price \in Nat
  BY DEF TypeOK
<1>1. CASE TickInPosition
  <2>1. PICK price \in Prices :
          /\ trailing_stop' = IF NewHigh(price) THEN StopFor(price) ELSE trailing_stop
          /\ highest_price' = IF NewHigh(price) THEN price ELSE highest_price
    BY <1>1 DEF TickInPosition
  <2>2. price \in Nat /\ in_position /\ in_position'
    BY <1>1, PricesAssumption DEF TickInPosition
  <2>3. CASE NewHigh(price)
    <3>1. highest_price <= price
      BY <1>0, <2>2, <2>3 DEF NewHigh
    <3>2. QED
      BY <1>0, <2>1, <2>2, <2>3, <3>1, StopMonotone
  <2>4. CASE ~NewHigh(price)
    BY <1>0, <2>1, <2>2, <2>4
  <2>5. QED
    BY <2>3, <2>4
<1>2. CASE TickEntry
  BY <1>2 DEF TickEntry
<1>3. CASE Fill \/ Reject
  <2>1. /\ UNCHANGED <<highest_price, trailing_stop>>
        /\ in_position' => in_position
    BY <1>3 DEF Fill, Reject, OnOrderFilled, OnOrderRejected
  <2>2. QED
    BY <1>0, <2>1 DEF StopFor
<1>4. CASE TickCold \/ TickFlat \/ Clock \/ UNCHANGED vars
  BY <1>0, <1>4 DEF TickCold, TickFlat, Clock, vars
<1>5. QED
  BY <1>1, <1>2, <1>3, <1>4 DEF Next, Tick

----------------------------------------------------------------------------
\* TypeOK holds in every behaviour.
THEOREM TypeCorrect == Spec => []TypeOK
<1>1. Init => TypeOK
  <2> SUFFICES ASSUME Init PROVE TypeOK
    OBVIOUS
  <2>1. outstanding \in Seq(OrderType)
    BY DEF Init
  <2>2. seen \in 0 .. Window /\ age \in 0 .. MaxHold + 1
    BY CountsAssumption DEF Init
  <2>3. in_position \in BOOLEAN /\ pending_exit \in BOOLEAN
    BY DEF Init
  <2>4. /\ entry_price \in Nat /\ highest_price \in Nat /\ trailing_stop \in Nat
        /\ pnl \in Int /\ position \in Int /\ holding \in Int
        /\ entries \in Nat /\ rejections \in Nat
    BY DEF Init
  <2>5. QED
    BY <2>1, <2>2, <2>3, <2>4 DEF TypeOK
<1>2. TypeOK /\ [Next]_vars => TypeOK'
  BY TypeStep
<1>3. QED
  BY <1>1, <1>2, PTL DEF Spec

\* While a position is held the trailing stop never falls, wired or not: the
\* ratchet of generate_signal is the only writer between entry and exit.
THEOREM StopRises == Spec => StopOnlyRises
<1>1. Init => StopInv
  BY DEF Init, StopInv
<1>2. TypeOK /\ StopInv /\ [Next]_vars => StopInv'
  BY StopStep
<1>3. TypeOK /\ StopInv /\ [Next]_vars
        => [in_position /\ in_position' => trailing_stop' >= trailing_stop]_vars
  BY StopStep
<1>4. QED
  BY TypeCorrect, <1>1, <1>2, <1>3, PTL DEF Spec, StopOnlyRises

\* Wired, the four situations are all there are.
LEMMA LotInvariance == CallbacksWired => (Spec => []LotInv)
<1> SUFFICES ASSUME CallbacksWired PROVE Spec => []LotInv
  OBVIOUS
<1>1. Init => LotInv
  BY DEF Init, LotInv, Settled
<1>2. TypeOK /\ TypeOK' /\ LotInv /\ [Next]_vars => LotInv'
  BY LotStep
<1>3. QED
  BY TypeCorrect, <1>1, <1>2, PTL DEF Spec

\* With the callbacks wired the strategy's belief and bookkeeping match the
\* exchange's holding whenever no order is on its way.
THEOREM BeliefHolds == CallbacksWired => (Spec => []BeliefMatchesHolding)
<1> SUFFICES ASSUME CallbacksWired PROVE Spec => []BeliefMatchesHolding
  OBVIOUS
<1>1. LotInv => BeliefMatchesHolding
  BY ShortQueues
  DEF LotInv, BeliefMatchesHolding, Settled, Entering, Leaving, EnteringLeaving
<1>2. QED
  BY LotInvariance, <1>1, PTL

\* With the callbacks wired generate_signal, on_order_filled and
\* on_order_rejected implement the one-lot protocol.
THEOREM ProtocolKept == CallbacksWired => (Spec => FollowsProtocol)
<1> SUFFICES ASSUME CallbacksWired PROVE Spec => FollowsProtocol
  OBVIOUS
<1>1. Init => Protocol!Init
  BY ProtocolView DEF View, Counted, Settled, Init, Protocol!Init
<1>2. /\ TypeOK /\ TypeOK' /\ LotInv /\ LotInv' /\ [Next]_vars
      => [Protocol!Next]_(Protocol!vars)
  BY LotStep, ProtocolStep
<1>3. Spec => []LotInv
  BY LotInvariance
<1>4. QED
  BY TypeCorrect, <1>1, <1>2, <1>3, PTL DEF Spec, FollowsProtocol, Protocol!Spec

----------------------------------------------------------------------------
(***************************************************************************)
(* The strategies built on LotMachine.  They differ in when they enter and *)
(* exit; what their steps do to flags, orders and holdings is the same.    *)
(***************************************************************************)
Strategies == INSTANCE MCStrategies
Lots == INSTANCE LotMachine WITH Symbols <- TwoSymbols

\* A step of any of the strategies, as far as the lot is concerned.
LotMove ==
  \/ UNCHANGED Lots!lotVars
  \/ \E s, q : Lots!Enter(s, q)
  \/ \E s, q : Lots!Exit(s, q)
  \/ Lots!Filled /\ Lots!SellFillClears(Lots!Oldest)
  \/ Lots!Rejected /\ Lots!RejectClears(Lots!Oldest)

\* The same, for orders of symbols of S in quantities of Q.
LotMoveOf(S, Q) ==
  \/ UNCHANGED Lots!lotVars
  \/ \E s \in S, q \in Q : Lots!Enter(s, q)
  \/ \E s \in S, q \in Q : Lots!Exit(s, q)
  \/ Lots!Filled /\ Lots!SellFillClears(Lots!Oldest)
  \/ Lots!Rejected /\ Lots!RejectClears(Lots!Oldest)

LEMMA WeightedMoves == Strategies!Weighted!Next => LotMoveOf(OneSymbol, {1})
<1> USE DEF Lots!lotVars, Lots!worldVars,
      Strategies!Weighted!lotVars, Strategies!Weighted!worldVars, Strategies!Weighted!Quiet
<1>1. ASSUME NEW s, NEW q, Strategies!Weighted!Enter(s, q)
      PROVE  Lots!Enter(s, q)
  BY <1>1 DEF Lots!Enter, Strategies!Weighted!Enter, Lots!Emit, Strategies!Weighted!Emit
<1>2. ASSUME NEW s, NEW q, Strategies!Weighted!Exit(s, q)
      PROVE  Lots!Exit(s, q)
  BY <1>2 DEF Lots!Exit, Strategies!Weighted!Exit, Lots!Emit, Strategies!Weighted!Emit
<1>3. CASE Strategies!Weighted!TickCold \/ Strategies!Weighted!Clock
  BY <1>3 DEF LotMoveOf, Strategies!Weighted!TickCold, Strategies!Weighted!Clock
<1>4. CASE Strategies!Weighted!Tick
  BY <1>1, <1>2, <1>4
  DEF LotMoveOf, Strategies!Weighted!Tick, Strategies!Weighted!TickInPosition,
      Strategies!Weighted!TickFlat
<1>5. CASE Strategies!Weighted!OnOrderFilled
  BY <1>5
  DEF LotMoveOf, Strategies!Weighted!OnOrderFilled, Lots!Filled, Strategies!Weighted!Filled,
      Lots!SellFillClears, Strategies!Weighted!SellFillClears, Lots!Oldest,
      Strategies!Weighted!Oldest, Lots!Fillable, Strategies!Weighted!Fillable,
      Lots!UpdatePosition, Strategies!Weighted!UpdatePosition
<1>6. CASE Strategies!Weighted!OnOrderRejected
  BY <1>6
  DEF LotMoveOf, Strategies!Weighted!OnOrderRejected, Lots!Rejected,
      Strategies!Weighted!Rejected, Lots!RejectClears, Strategies!Weighted!RejectClears,
      Lots!Oldest, Strategies!Weighted!Oldest, Lots!Fillable, Strategies!Weighted!Fillable
<1>7. QED
  BY <1>3, <1>4, <1>5, <1>6 DEF Strategies!Weighted!Next

LEMMA VwapMoves == Strategies!Vwap!Next => LotMoveOf(TwoSymbols, {1})
<1> USE DEF Lots!lotVars, Lots!worldVars,
      Strategies!Vwap!lotVars, Strategies!Vwap!worldVars, Strategies!Vwap!Quiet
<1>1. ASSUME NEW s, NEW q, Strategies!Vwap!Enter(s, q)
      PROVE  Lots!Enter(s, q)
  BY <1>1 DEF Lots!Enter, Strategies!Vwap!Enter, Lots!Emit, Strategies!Vwap!Emit
<1>2. ASSUME NEW s, NEW q, Strategies!Vwap!Exit(s, q)
      PROVE  Lots!Exit(s, q)
  BY <1>2 DEF Lots!Exit, Strategies!Vwap!Exit, Lots!Emit, Strategies!Vwap!Emit
<1>3. CASE Strategies!Vwap!ResetVwap
  BY <1>3 DEF LotMoveOf, Strategies!Vwap!ResetVwap
<1>4. CASE Strategies!Vwap!Tick
  BY <1>1, <1>2, <1>4 DEF LotMoveOf, Strategies!Vwap!Tick
<1>5. CASE Strategies!Vwap!OnOrderFilled
  BY <1>5
  DEF LotMoveOf, Strategies!Vwap!OnOrderFilled, Lots!Filled, Strategies!Vwap!Filled,
      Lots!SellFillClears, Strategies!Vwap!SellFillClears, Lots!Oldest,
      Strategies!Vwap!Oldest, Lots!Fillable, Strategies!Vwap!Fillable,
      Lots!UpdatePosition, Strategies!Vwap!UpdatePosition
<1>6. CASE Strategies!Vwap!OnOrderRejected
  BY <1>6
  DEF LotMoveOf, Strategies!Vwap!OnOrderRejected, Lots!Rejected,
      Strategies!Vwap!Rejected, Lots!RejectClears, Strategies!Vwap!RejectClears,
      Lots!Oldest, Strategies!Vwap!Oldest, Lots!Fillable, Strategies!Vwap!Fillable
<1>7. QED
  BY <1>3, <1>4, <1>5, <1>6 DEF Strategies!Vwap!Next

LEMMA EnhancedMoves == Strategies!Enhanced!Next => LotMove
<1> USE DEF Lots!lotVars, Lots!worldVars,
      Strategies!Enhanced!lotVars, Strategies!Enhanced!worldVars, Strategies!Enhanced!Quiet
<1>1. ASSUME NEW s, NEW q, Strategies!Enhanced!Enter(s, q)
      PROVE  Lots!Enter(s, q)
  BY <1>1 DEF Lots!Enter, Strategies!Enhanced!Enter, Lots!Emit, Strategies!Enhanced!Emit
<1>2. ASSUME NEW s, NEW q, Strategies!Enhanced!Exit(s, q)
      PROVE  Lots!Exit(s, q)
  BY <1>2 DEF Lots!Exit, Strategies!Enhanced!Exit, Lots!Emit, Strategies!Enhanced!Emit
<1>3. CASE Strategies!Enhanced!UpdatePnl
  BY <1>3 DEF LotMove, Strategies!Enhanced!UpdatePnl
<1>4. CASE Strategies!Enhanced!Tick
  BY <1>1, <1>2, <1>4 DEF LotMove, Strategies!Enhanced!Tick, Strategies!Enhanced!Decide
<1>5. CASE Strategies!Enhanced!OnOrderFilled
  BY <1>5
  DEF LotMove, Strategies!Enhanced!OnOrderFilled, Lots!Filled, Strategies!Enhanced!Filled,
      Lots!SellFillClears, Strategies!Enhanced!SellFillClears, Lots!Oldest,
      Strategies!Enhanced!Oldest, Lots!Fillable, Strategies!Enhanced!Fillable,
      Lots!UpdatePosition, Strategies!Enhanced!UpdatePosition
<1>6. CASE Strategies!Enhanced!OnOrderRejected
  BY <1>6
  DEF LotMove, Strategies!Enhanced!OnOrderRejected, Lots!Rejected,
      Strategies!Enhanced!Rejected, Lots!RejectClears, Strategies!Enhanced!RejectClears,
      Lots!Oldest, Strategies!Enhanced!Oldest, Lots!Fillable, Strategies!Enhanced!Fillable
<1>7. QED
  BY <1>3, <1>4, <1>5, <1>6 DEF Strategies!Enhanced!Next

LEMMA LotMoves ==
  ASSUME [Strategies!Next]_(Strategies!vars)
  PROVE  LotMove
<1>1. CASE Strategies!Next
  <2>1. ASSUME NEW S, NEW Q, LotMoveOf(S, Q) PROVE LotMove
    BY <2>1 DEF LotMove, LotMoveOf
  <2>2. QED
    BY <1>1, <2>1, WeightedMoves, VwapMoves, EnhancedMoves DEF Strategies!Next
<1>2. CASE UNCHANGED Strategies!vars
  BY <1>2 DEF Strategies!vars, Strategies!lotVars, LotMove, Lots!lotVars, Lots!worldVars
<1>3. QED
  BY <1>1, <1>2

----------------------------------------------------------------------------
\* The situations of the position machine, as above; here the lot may also be
\* gone (its buy rejected) while its sell is on its way.
IsBuy(o) == o.is_buy = TRUE
IsSell(o) == o.is_buy = FALSE

NoOrder == outstanding = <<>> /\ ~pending_exit /\ lot # "ordered"
BuyOrdered ==
  \E b : IsBuy(b) /\ outstanding = <<b>> /\ ~pending_exit /\ lot = "ordered"
SellOrdered ==
  \E x : IsSell(x) /\ outstanding = <<x>> /\ pending_exit /\ lot # "ordered"
BothOrdered ==
  \E b, x : /\ IsBuy(b) /\ IsSell(x) /\ outstanding = <<b, x>>
            /\ pending_exit /\ lot = "ordered"

LotMachineInv ==
  /\ lot \in {"none", "ordered", "held"}
  /\ in_position <=> lot # "none"
  /\ positions = holding
  /\ NoOrder \/ BuyOrdered \/ SellOrdered \/ BothOrdered

\* What the protocol counts of the orders outstanding.
OnOrder == Strategies!Weighted!Cardinality(Strategies!Weighted!Buys)
OnSale == Strategies!Weighted!Cardinality(Strategies!Weighted!Sells)

CountsMean ==
  /\ OnOrder = IF lot = "ordered" THEN 1 ELSE 0
  /\ OnSale = IF pending_exit THEN 1 ELSE 0

\* A buy is on its way exactly when the lot is ordered, a sell exactly when
\* pending_exit is set, and never two of either.
LEMMA CountsAre ==
  ASSUME LotMachineInv
  PROVE  CountsMean
<1>0. OnOrder = Count(outstanding) /\ OnSale = CountRest(outstanding)
  <2>1. /\ OnOrder = Cardinality(Strategies!Weighted!Buys)
        /\ OnSale = Cardinality(Strategies!Weighted!Sells)
    BY DEF OnOrder, OnSale, Strategies!Weighted!Cardinality, Cardinality
  <2>2. QED
    BY <2>1 DEF Count, CountRest, Strategies!Weighted!Buys, Strategies!Weighted!Sells
<1>1. CASE NoOrder
  <2>1. IsBuy([is_buy |-> TRUE]) /\ IsSell([is_buy |-> FALSE])
    BY DEF IsBuy, IsSell
  <2>2. QED
    BY <1>0, <1>1, <2>1, CountsOfShort DEF NoOrder, CountsMean, IsBuy, IsSell
<1>2. CASE BuyOrdered
  <2>1. PICK b : b.is_buy = TRUE /\ outstanding = <<b>> /\ ~pending_exit /\ lot = "ordered"
    BY <1>2 DEF BuyOrdered, IsBuy
  <2>2. [is_buy |-> FALSE].is_buy = FALSE
    OBVIOUS
  <2>3. QED
    BY <1>0, <2>1, <2>2, CountsOfShort DEF CountsMean
<1>3. CASE SellOrdered
  <2>1. PICK x : x.is_buy = FALSE /\ outstanding = <<x>> /\ pending_exit /\ lot # "ordered"
    BY <1>3 DEF SellOrdered, IsSell
  <2>2. [is_buy |-> TRUE].is_buy = TRUE
    OBVIOUS
  <2>3. QED
    BY <1>0, <2>1, <2>2, CountsOfShort DEF CountsMean
<1>4. CASE BothOrdered
  <2>1. PICK b, x : /\ b.is_buy = TRUE /\ x.is_buy = FALSE /\ outstanding = <<b, x>>
                    /\ pending_exit /\ lot = "ordered"
    BY <1>4 DEF BothOrdered, IsBuy, IsSell
  <2>2. QED
    BY <1>0, <2>1, CountsOfShort DEF CountsMean
<1>5. QED
  BY <1>1, <1>2, <1>3, <1>4 DEF LotMachineInv

LEMMA CountsAreNext == LotMachineInv' => CountsMean'
  BY CountsAre, PTL

\* How a step moves the lot and the sell, in the order of the protocol.
LotTransition ==
  \/ UNCHANGED lot /\ (pending_exit' <=> pending_exit)
  \/ lot = "none" /\ ~pending_exit /\ lot' = "ordered" /\ ~pending_exit'
  \/ lot # "none" /\ ~pending_exit /\ lot' = lot /\ pending_exit'
  \/ lot = "ordered" /\ lot' \in {"held", "none"} /\ (pending_exit' <=> pending_exit)
  \/ lot = "held" /\ pending_exit /\ lot' = "none" /\ ~pending_exit'
  \/ pending_exit /\ ~pending_exit' /\ lot' = lot

LEMMA LotMachineStep ==
  ASSUME LotMachineInv, LotMove
  PROVE  LotMachineInv' /\ LotTransition
<1> USE DEF NoOrder, BuyOrdered, SellOrdered, BothOrdered, IsBuy, IsSell
<1>1. CASE UNCHANGED Lots!lotVars
  BY <1>1 DEF Lots!lotVars, Lots!worldVars, LotMachineInv, LotTransition
<1>2. ASSUME NEW s, NEW q, Lots!Enter(s, q)
      PROVE  LotMachineInv' /\ LotTransition
  <2>1. NoOrder /\ lot = "none"
    BY <1>2 DEF Lots!Enter, LotMachineInv
  <2> DEFINE o == [symbol |-> s, is_buy |-> TRUE, quantity |-> q]
  <2>2. outstanding' = <<o>> /\ IsBuy(o)
    BY <1>2, <2>1, ShortQueues DEF Lots!Enter, Lots!Emit
  <2> HIDE DEF o
  <2>3. BuyOrdered'
    BY <1>2, <2>1, <2>2 DEF Lots!Enter
  <2>4. QED
    BY <1>2, <2>1, <2>3 DEF Lots!Enter, LotMachineInv, LotTransition
<1>3. ASSUME NEW s, NEW q, Lots!Exit(s, q)
      PROVE  LotMachineInv' /\ LotTransition
  <2> DEFINE o == [symbol |-> s, is_buy |-> FALSE, quantity |-> q]
  <2>1. /\ in_position /\ ~pending_exit /\ pending_exit' = TRUE
        /\ outstanding' = Append(outstanding, o)
        /\ UNCHANGED <<in_position, positions, holding, lot>>
    BY <1>3 DEF Lots!Exit, Lots!Emit, Lots!worldVars
  <2>2. IsSell(o)
    OBVIOUS
  <2> HIDE DEF o
  <2>3. CASE NoOrder
    BY <2>1, <2>2, <2>3, ShortQueues DEF LotMachineInv, LotTransition
  <2>4. CASE BuyOrdered
    <3>1. PICK b : IsBuy(b) /\ outstanding = <<b>> /\ lot = "ordered"
      BY <2>4
    <3>2. outstanding' = <<b, o>>
      BY <2>1, <3>1, ShortQueues
    <3>3. BothOrdered'
      BY <2>1, <2>2, <3>1, <3>2
    <3>4. QED
      BY <2>1, <3>1, <3>3 DEF LotMachineInv, LotTransition
  <2>5. QED
    BY <2>1, <2>3, <2>4 DEF LotMachineInv
<1>4. ASSUME Lots!Filled, Lots!SellFillClears(Lots!Oldest)
      PROVE  LotMachineInv' /\ LotTransition
  <2>1. /\ outstanding # <<>> /\ outstanding' = Tail(outstanding)
        /\ lot' = (IF Lots!Oldest.is_buy THEN "held" ELSE "none")
        /\ in_position' = (Lots!Oldest.is_buy /\ in_position)
        /\ pending_exit' = (Lots!Oldest.is_buy /\ pending_exit)
        /\ positions' = holding'
    BY <1>4 DEF Lots!Filled, Lots!SellFillClears, Lots!UpdatePosition, LotMachineInv
  <2>2. CASE BuyOrdered
    BY <2>1, <2>2, ShortQueues DEF Lots!Oldest, LotMachineInv, LotTransition
  <2>3. CASE SellOrdered
    BY <2>1, <2>3, ShortQueues DEF Lots!Oldest, LotMachineInv, LotTransition
  <2>4. CASE BothOrdered
    <3>1. PICK b, x : IsBuy(b) /\ IsSell(x) /\ outstanding = <<b, x>>
      BY <2>4
    <3>2. Lots!Oldest = b /\ outstanding' = <<x>>
      BY <2>1, <3>1, ShortQueues DEF Lots!Oldest
    <3>3. SellOrdered'
      BY <2>1, <2>4, <3>1, <3>2
    <3>4. QED
      BY <2>1, <2>4, <3>1, <3>2, <3>3 DEF LotMachineInv, LotTransition
  <2>5. QED
    BY <2>1, <2>2, <2>3, <2>4 DEF LotMachineInv
<1>5. ASSUME Lots!Rejected, Lots!RejectClears(Lots!Oldest)
      PROVE  LotMachineInv' /\ LotTransition
  <2>1. /\ outstanding # <<>> /\ outstanding' = Tail(outstanding)
        /\ lot' = (IF Lots!Oldest.is_buy THEN "none" ELSE lot)
        /\ in_position' = (~Lots!Oldest.is_buy /\ in_position)
        /\ pending_exit' = (Lots!Oldest.is_buy /\ pending_exit)
        /\ positions' = holding'
    BY <1>5 DEF Lots!Rejected, Lots!RejectClears, LotMachineInv
  <2>2. CASE BuyOrdered
    BY <2>1, <2>2, ShortQueues DEF Lots!Oldest, LotMachineInv, LotTransition
  <2>3. CASE SellOrdered
    BY <2>1, <2>3, ShortQueues DEF Lots!Oldest, LotMachineInv, LotTransition
  <2>4. CASE BothOrdered
    <3>1. PICK b, x : IsBuy(b) /\ IsSell(x) /\ outstanding = <<b, x>>
      BY <2>4
    <3>2. Lots!Oldest = b /\ outstanding' = <<x>>
      BY <2>1, <3>1, ShortQueues DEF Lots!Oldest
    <3>3. SellOrdered'
      BY <2>1, <2>4, <3>1, <3>2
    <3>4. QED
      BY <2>1, <2>4, <3>1, <3>2, <3>3 DEF LotMachineInv, LotTransition
  <2>5. QED
    BY <2>1, <2>2, <2>3, <2>4 DEF LotMachineInv
<1>6. QED
  BY <1>1, <1>2, <1>3, <1>4, <1>5 DEF LotMove

\* Every transition is a step of the protocol, or a stutter.
LEMMA LotProtocolStep ==
  ASSUME LotMachineInv, LotMachineInv', LotTransition
  PROVE  [Strategies!Weighted!Protocol!Next]_(Strategies!Weighted!Protocol!vars)
<1>1. CountsMean /\ CountsMean'
  BY CountsAre, CountsAreNext
<1> USE DEF CountsMean, OnOrder, OnSale, Strategies!Weighted!Protocol!Next,
      Strategies!Weighted!Protocol!vars
<1>3. CASE lot = "none" /\ ~pending_exit /\ lot' = "ordered" /\ ~pending_exit'
  BY <1>1, <1>3 DEF Strategies!Weighted!Protocol!EmitBuy
<1>4. CASE lot # "none" /\ ~pending_exit /\ lot' = lot /\ pending_exit'
  BY <1>1, <1>4 DEF Strategies!Weighted!Protocol!EmitSell, LotMachineInv
<1>5. CASE lot = "ordered" /\ lot' \in {"held", "none"} /\ (pending_exit' <=> pending_exit)
  BY <1>1, <1>5 DEF Strategies!Weighted!Protocol!BuyFilled,
     Strategies!Weighted!Protocol!BuyRejected
<1>6. CASE lot = "held" /\ pending_exit /\ lot' = "none" /\ ~pending_exit'
  BY <1>1, <1>6 DEF Strategies!Weighted!Protocol!SellFilled
<1>7. CASE pending_exit /\ ~pending_exit' /\ lot' = lot
  BY <1>1, <1>7 DEF Strategies!Weighted!Protocol!SellRejected
<1>8. CASE UNCHANGED lot /\ (pending_exit' <=> pending_exit)
  BY <1>1, <1>8
<1>9. QED
  BY <1>3, <1>4, <1>5, <1>6, <1>7, <1>8 DEF LotTransition

LEMMA LotMachineInit ==
  ASSUME Strategies!Init
  PROVE  LotMachineInv /\ Strategies!Weighted!Protocol!Init
<1>1. /\ in_position = FALSE /\ pending_exit = FALSE /\ positions = holding
      /\ outstanding = <<>> /\ lot = "none"
  <2>1. CASE strategy = "weighted" /\ Strategies!Weighted!Init
    BY <2>1 DEF Strategies!Weighted!Init, Strategies!Weighted!LotInit
  <2>2. CASE strategy = "vwap" /\ Strategies!Vwap!Init
    BY <2>2 DEF Strategies!Vwap!Init, Strategies!Vwap!LotInit
  <2>3. CASE strategy = "enhanced" /\ Strategies!Enhanced!Init
    BY <2>3 DEF Strategies!Enhanced!Init, Strategies!Enhanced!LotInit
  <2>4. QED
    BY <2>1, <2>2, <2>3 DEF Strategies!Init
<1>2. LotMachineInv
  BY <1>1 DEF LotMachineInv, NoOrder
<1>3. QED
  BY <1>1, <1>2, CountsAre
  DEF CountsMean, OnOrder, OnSale, Strategies!Weighted!Protocol!Init

LEMMA BeliefTrue == LotMachineInv => Strategies!Weighted!BeliefIsTrue
<1>1. ASSUME NEW a, NEW b
      PROVE  <<a>> # << >> /\ <<a, b>> # << >>
  OBVIOUS
<1>2. QED
  BY <1>1 DEF LotMachineInv, NoOrder, BuyOrdered, SellOrdered, BothOrdered,
     Strategies!Weighted!BeliefIsTrue

----------------------------------------------------------------------------
\* The VWAP strategy on top: every order is for one share, nothing is held but
\* the share of the symbol bought, and that only while the lot is held.
OneShare == [symbol : TwoSymbols, is_buy : BOOLEAN, quantity : {1}]

BoughtInv ==
  strategy = "vwap" =>
    /\ outstanding \in Seq(OneShare)
    /\ bought = {} \/ \E s \in TwoSymbols : bought = {s}
    /\ lot = "held" <=> bought # {}
    /\ holding = [s \in TwoSymbols |-> IF s \in bought THEN 1 ELSE 0]

\* A buy is resolved only while no lot is held.
LEMMA OldestBuy ==
  ASSUME LotMachineInv, outstanding # <<>>, Lots!Oldest.is_buy = TRUE
  PROVE  lot = "ordered"
  BY ShortQueues DEF LotMachineInv, NoOrder, BuyOrdered, SellOrdered, BothOrdered, IsBuy, IsSell,
     Lots!Oldest

LEMMA BoughtStep ==
  ASSUME LotMachineInv, BoughtInv, [Strategies!Next]_(Strategies!vars)
  PROVE  BoughtInv'
<1> SUFFICES ASSUME strategy' = "vwap", strategy = "vwap",
                    Strategies!Vwap!Next \/ UNCHANGED Strategies!vars
             PROVE  BoughtInv'
  BY DEF Strategies!Next, Strategies!vars, BoughtInv
<1> USE DEF BoughtInv
<1>1. CASE UNCHANGED Strategies!vars \/ Strategies!Vwap!ResetVwap
  BY <1>1 DEF Strategies!vars, Strategies!lotVars, Strategies!vwapVars,
     Strategies!Vwap!ResetVwap, Strategies!Vwap!Quiet, Strategies!Vwap!lotVars,
     Strategies!Vwap!worldVars
<1>2. CASE Strategies!Vwap!Tick
  <2>1. /\ UNCHANGED <<bought, holding>>
        /\ lot' = lot \/ (lot' = "ordered" /\ ~in_position)
        /\ \/ UNCHANGED outstanding
           \/ \E o \in OneShare : outstanding' = Append(outstanding, o)
    BY <1>2 DEF Strategies!Vwap!Tick, Strategies!Vwap!Enter, Strategies!Vwap!Exit,
       Strategies!Vwap!Emit, Strategies!Vwap!Quiet, Strategies!Vwap!lotVars,
       Strategies!Vwap!worldVars, OneShare
  <2>2. outstanding' \in Seq(OneShare)
    BY <2>1
  <2>3. QED
    BY <2>1, <2>2 DEF LotMachineInv
<1>3. CASE Strategies!Vwap!OnOrderFilled
  <2> DEFINE o == Lots!Oldest
  <2>1. /\ outstanding # <<>> /\ outstanding' = Tail(outstanding)
        /\ o.is_buy \/ holding[o.symbol] >= o.quantity
        /\ holding' = [holding EXCEPT ![o.symbol] =
                         IF o.is_buy THEN @ + o.quantity ELSE @ - o.quantity]
        /\ lot' = (IF o.is_buy THEN "held" ELSE "none")
        /\ bought' = (IF o.is_buy THEN {o.symbol} ELSE {})
    BY <1>3 DEF Strategies!Vwap!OnOrderFilled, Strategies!Vwap!Filled, Strategies!Vwap!Oldest,
       Lots!Oldest, Strategies!Vwap!Fillable
  <2>2. o \in OneShare /\ outstanding' \in Seq(OneShare)
    BY <2>1 DEF Lots!Oldest
  <2>3. o.is_buy => bought = {}
    BY <2>1, <2>2, OldestBuy DEF OneShare
  <2> HIDE DEF o
  <2>4. o.symbol \in TwoSymbols /\ o.is_buy \in BOOLEAN /\ o.quantity = 1
    BY <2>2 DEF OneShare
  <2>5. CASE o.is_buy
    <3>1. holding = [s \in TwoSymbols |-> 0]
      BY <2>3, <2>5
    <3>2. holding' = [holding EXCEPT ![o.symbol] = holding[o.symbol] + 1]
      BY <2>1, <2>4, <2>5
    <3>3. holding' = [s \in TwoSymbols |-> IF s \in {o.symbol} THEN 1 ELSE 0]
      BY <2>4, <3>1, <3>2
    <3>4. QED
      BY <2>1, <2>2, <2>4, <2>5, <3>3
  <2>6. CASE ~o.is_buy
    <3>1. bought = {o.symbol}
      BY <2>1, <2>4, <2>6
    <3>2. holding = [s \in TwoSymbols |-> IF s = o.symbol THEN 1 ELSE 0]
      BY <3>1
    <3>3. holding' = [holding EXCEPT ![o.symbol] = holding[o.symbol] - 1]
      BY <2>1, <2>4, <2>6
    <3>4. holding' = [s \in TwoSymbols |-> 0]
      BY <2>4, <3>2, <3>3
    <3>5. QED
      BY <2>1, <2>2, <2>6, <3>4
  <2>7. QED
    BY <2>5, <2>6
<1>4. CASE Strategies!Vwap!OnOrderRejected
  <2> DEFINE o == Lots!Oldest
  <2>1. /\ outstanding # <<>> /\ outstanding' = Tail(outstanding)
        /\ lot' = (IF o.is_buy THEN "none" ELSE lot)
        /\ UNCHANGED <<holding, bought>>
    BY <1>4 DEF Strategies!Vwap!OnOrderRejected, Strategies!Vwap!Rejected,
       Strategies!Vwap!Oldest, Lots!Oldest
  <2>2. o \in OneShare /\ outstanding' \in Seq(OneShare)
    BY <2>1 DEF Lots!Oldest
  <2>3. o.is_buy \in BOOLEAN /\ (o.is_buy => lot = "ordered")
    BY <2>1, <2>2, OldestBuy DEF OneShare
  <2> HIDE DEF o
  <2>4. QED
    BY <2>1, <2>2, <2>3
<1>5. QED
  BY <1>1, <1>2, <1>3, <1>4 DEF Strategies!Vwap!Next

LEMMA LotsInvariance == Strategies!Spec => [](LotMachineInv /\ BoughtInv)
<1>1. Strategies!Init => LotMachineInv /\ BoughtInv
  <2>1. Strategies!Init => LotMachineInv
    BY LotMachineInit
  <2>2. ASSUME Strategies!Init PROVE BoughtInv
    BY <2>2 DEF BoughtInv, Strategies!Init, Strategies!Vwap!Init, Strategies!Vwap!LotInit
  <2>3. QED
    BY <2>1, <2>2
<1>2. LotMachineInv /\ BoughtInv /\ [Strategies!Next]_(Strategies!vars)
        => LotMachineInv' /\ BoughtInv'
  BY LotMoves, LotMachineStep, BoughtStep
<1>3. QED
  BY <1>1, <1>2, PTL DEF Strategies!Spec

\* WeightedStrategy, VWAPStrategy and EnhancedIntradayStrategy keep the
\* one-lot protocol, believe what is so when nothing is on order, and a VWAP
\* strategy fed with two symbols holds what it bought.
THEOREM LotsAreKept == Strategies!Spec => Strategies!LotsKept
<1>1. Strategies!Init => Strategies!Weighted!Protocol!Init
  BY LotMachineInit
<1>2. LotMachineInv /\ [Strategies!Next]_(Strategies!vars)
        => [Strategies!Weighted!Protocol!Next]_(Strategies!Weighted!Protocol!vars)
  BY LotMoves, LotMachineStep, LotProtocolStep
<1>3. BoughtInv => (strategy = "vwap" => Strategies!Vwap!HoldsWhatWasBought)
  BY DEF BoughtInv, Strategies!Vwap!HoldsWhatWasBought
<1>4. Strategies!Spec => Strategies!Weighted!Protocol!Spec
  BY LotsInvariance, <1>1, <1>2, PTL DEF Strategies!Spec, Strategies!Weighted!Protocol!Spec
<1>5. Strategies!Spec => [](/\ Strategies!Weighted!BeliefIsTrue
                            /\ strategy = "vwap" => Strategies!Vwap!HoldsWhatWasBought)
  BY LotsInvariance, BeliefTrue, <1>3, PTL
<1>6. QED
  BY <1>4, <1>5, PTL DEF Strategies!LotsKept, Strategies!Weighted!FollowsProtocol

----------------------------------------------------------------------------
(***************************************************************************)
(* The weighted score: an average of part scores between 0 and 1.          *)
(***************************************************************************)
Scores == 0 .. Strategies!Weighted!One

LEMMA Distributes ==
  \A x, y, z \in Nat : (x + y) * z = x * z + y * z /\ x * z \in Nat /\ y * z \in Nat
  OBVIOUS

\* A part counts for no more than its weight.
LEMMA PartBounds ==
  \A score \in Scores, weight \in Nat :
    score * weight \in Nat /\ score * weight <= 10000 * weight
<1> SUFFICES ASSUME NEW score \in Scores, NEW weight \in Nat
             PROVE  score * weight \in Nat /\ score * weight <= 10000 * weight
  OBVIOUS
<1>1. PICK rest \in Nat : 10000 = score + rest
  <2>1. 10000 - score \in Nat /\ 10000 = score + (10000 - score)
    BY DEF Scores, Strategies!Weighted!One
  <2>2. QED
    BY <2>1
<1>2. score \in Nat
  BY DEF Scores, Strategies!Weighted!One
<1>3. (score + rest) * weight = score * weight + rest * weight
        /\ score * weight \in Nat /\ rest * weight \in Nat
  BY <1>2, Distributes
<1>4. 10000 * weight = score * weight + rest * weight
  BY <1>1, <1>3
<1>5. QED
  BY <1>3, <1>4

\* What is no more than One times the total is, divided by it, no more than One.
LEMMA QuotientBounds ==
  \A sum \in Nat, total \in Nat \ {0} :
    sum <= 10000 * total => sum \div total \in Scores
<1> SUFFICES ASSUME NEW sum \in Nat, NEW total \in Nat \ {0}, sum <= 10000 * total
             PROVE  sum \div total \in Scores
  OBVIOUS
<1>1. /\ sum \div total \in Nat
      /\ total * (sum \div total) <= sum
  OBVIOUS
<1> DEFINE q == sum \div total
<1>2. ASSUME q > 10000 PROVE FALSE
  <2>1. PICK e \in Nat : q = 10001 + e
    <3>1. q - 10001 \in Nat /\ q = 10001 + (q - 10001)
      BY <1>1, <1>2
    <3>2. QED
      BY <3>1
  <2>2. (10001 + e) * total = 10001 * total + e * total /\ e * total \in Nat
    BY Distributes
  <2>3. q * total = total * q
    BY <1>1
  <2>4. 10001 * total = 10000 * total + total
    OBVIOUS
  <2> HIDE DEF q
  <2>5. (10001 + e) * total <= sum
    BY <1>1, <2>1, <2>3 DEF q
  <2>6. QED
    BY <2>2, <2>4, <2>5
<1>3. QED
  BY <1>1, <1>2 DEF Scores, Strategies!Weighted!One

Readings == Strategies!Weighted!WeightsAssumption /\ Strategies!Weighted!ReadingsAssumption

LEMMA PartScores ==
  ASSUME Readings, NEW i \in Indicators
  PROVE  /\ Strategies!Weighted!MomentumScore(i.momentum) \in Scores
         /\ Strategies!Weighted!SmaScore(i) \in Scores
         /\ Strategies!Weighted!RsiScore(i.rsi) \in Scores
         /\ Strategies!Weighted!VolumeScore(i.volume_ratio) \in Scores
         /\ Strategies!Weighted!VwapScore(i.vwap_distance) \in Scores
<1>1. /\ i.momentum \in Int /\ i.vwap_distance \in Int
      /\ i.rsi \in 0 .. 100 /\ i.volume_ratio \in Nat
  BY DEF Readings, Strategies!Weighted!ReadingsAssumption
<1>2. ASSUME NEW x \in Int
      PROVE  /\ Strategies!Weighted!MomentumScore(x) \in Scores
             /\ Strategies!Weighted!VwapScore(x) \in Scores
  BY DEF Scores, Strategies!Weighted!One, Strategies!Weighted!LeastOf,
     Strategies!Weighted!MomentumScore, Strategies!Weighted!VwapScore
<1>3. Strategies!Weighted!SmaScore(i) \in Scores
  BY DEF Scores, Strategies!Weighted!One, Strategies!Weighted!SmaScore
<1>4. ASSUME NEW x \in 0 .. 100
      PROVE  Strategies!Weighted!RsiScore(x) \in Scores
  <2>1. x < 30 => (x * 10000) \div 30 \in 0 .. 10000
    OBVIOUS
  <2>2. CASE x < 30
    <3>1. Strategies!Weighted!RsiScore(x) = 10000 - ((x * 10000) \div 30)
      BY <2>2 DEF Strategies!Weighted!RsiScore, Strategies!Weighted!One
    <3>2. QED
      BY <2>1, <2>2, <3>1 DEF Scores, Strategies!Weighted!One
  <2>3. CASE ~(x < 30)
    BY <2>3 DEF Scores, Strategies!Weighted!One, Strategies!Weighted!RsiScore
  <2>4. QED
    BY <2>2, <2>3
<1>5. ASSUME NEW x \in Nat
      PROVE  Strategies!Weighted!VolumeScore(x) \in Scores
  BY DEF Scores, Strategies!Weighted!One, Strategies!Weighted!LeastOf,
     Strategies!Weighted!VolumeScore
<1>6. QED
  BY <1>1, <1>2, <1>3, <1>4, <1>5

\* The weights a strategy has come to something.
LEMMA TotalPositive ==
  ASSUME Readings, NEW w \in WeightSets
  PROVE  /\ w.momentum \in Int /\ w.sma \in Int /\ w.rsi \in Int
         /\ w.volume \in Int /\ w.vwap \in Int
         /\ Strategies!Weighted!NonNegative(w) =>
              /\ w.momentum \in Nat /\ w.sma \in Nat /\ w.rsi \in Nat
              /\ w.volume \in Nat /\ w.vwap \in Nat
         /\ Strategies!Weighted!TotalOf(w) \in Nat \ {0}
<1>1. w \in [{"momentum", "rsi", "volume", "vwap", "sma"} -> Int]
        /\ Strategies!Weighted!TotalOf(w) > 0
  BY DEF Readings, Strategies!Weighted!WeightsAssumption
<1>2. /\ w.momentum \in Int /\ w.sma \in Int /\ w.rsi \in Int
      /\ w.volume \in Int /\ w.vwap \in Int
  BY <1>1
<1>3. ASSUME Strategies!Weighted!NonNegative(w)
      PROVE  /\ w.momentum >= 0 /\ w.sma >= 0 /\ w.rsi >= 0 /\ w.volume >= 0 /\ w.vwap >= 0
  BY <1>1, <1>3 DEF Strategies!Weighted!NonNegative
<1>4. QED
  BY <1>1, <1>2, <1>3 DEF Strategies!Weighted!TotalOf

\* The sum and the total that WeightedSum divides.
Sum(m, s, r, v, d, wm, ws, wr, wv, wd) == m * wm + s * ws + r * wr + v * wv + d * wd
Total(wm, wr, wv, wd, ws) == wm + wr + wv + wd + ws

LEMMA AverageBounds ==
  \A m, s, r, v, d \in Scores, wm, ws, wr, wv, wd \in Nat :
    Total(wm, wr, wv, wd, ws) > 0 =>
      Sum(m, s, r, v, d, wm, ws, wr, wv, wd) \div Total(wm, wr, wv, wd, ws) \in Scores
<1> SUFFICES ASSUME NEW m \in Scores, NEW s \in Scores, NEW r \in Scores,
                    NEW v \in Scores, NEW d \in Scores,
                    NEW wm \in Nat, NEW ws \in Nat, NEW wr \in Nat,
                    NEW wv \in Nat, NEW wd \in Nat,
                    wm + wr + wv + wd + ws > 0
             PROVE  (m * wm + s * ws + r * wr + v * wv + d * wd) \div (wm + wr + wv + wd + ws)
                      \in Scores
  BY DEF Sum, Total
<1>1. PICK mm \in Nat : mm = m * wm /\ mm <= 10000 * wm
  BY PartBounds
<1>2. PICK ss \in Nat : ss = s * ws /\ ss <= 10000 * ws
  BY PartBounds
<1>3. PICK rr \in Nat : rr = r * wr /\ rr <= 10000 * wr
  BY PartBounds
<1>4. PICK vv \in Nat : vv = v * wv /\ vv <= 10000 * wv
  BY PartBounds
<1>5. PICK dd \in Nat : dd = d * wd /\ dd <= 10000 * wd
  BY PartBounds
<1>6. PICK total \in Nat \ {0} : total = wm + wr + wv + wd + ws
  OBVIOUS
<1>7. PICK sum \in Nat : sum = mm + ss + rr + vv + dd
  OBVIOUS
<1>8. sum <= 10000 * total
  BY <1>1, <1>2, <1>3, <1>4, <1>5, <1>6, <1>7
<1>9. sum \div total \in Scores
  BY <1>8, QuotientBounds
<1>10. QED
  BY <1>1, <1>2, <1>3, <1>4, <1>5, <1>6, <1>7, <1>9

LEMMA AverageTyped ==
  \A m, s, r, v, d \in Scores, wm, ws, wr, wv, wd \in Int :
    Total(wm, wr, wv, wd, ws) > 0 =>
      Sum(m, s, r, v, d, wm, ws, wr, wv, wd) \div Total(wm, wr, wv, wd, ws) \in Int
<1> SUFFICES ASSUME NEW m \in Scores, NEW s \in Scores, NEW r \in Scores,
                    NEW v \in Scores, NEW d \in Scores,
                    NEW wm \in Int, NEW ws \in Int, NEW wr \in Int,
                    NEW wv \in Int, NEW wd \in Int,
                    wm + wr + wv + wd + ws > 0
             PROVE  (m * wm + s * ws + r * wr + v * wv + d * wd) \div (wm + wr + wv + wd + ws)
                      \in Int
  BY DEF Sum, Total
<1>1. \A x \in Scores, y \in Int : x * y \in Int
  BY DEF Scores, Strategies!Weighted!One
<1>2. m * wm \in Int /\ s * ws \in Int /\ r * wr \in Int /\ v * wv \in Int /\ d * wd \in Int
  BY <1>1
<1>3. PICK sum \in Int : sum = m * wm + s * ws + r * wr + v * wv + d * wd
  BY <1>2
<1>4. PICK total \in Nat \ {0} : total = wm + wr + wv + wd + ws
  OBVIOUS
<1>5. sum \div total \in Int
  OBVIOUS
<1>6. QED
  BY <1>3, <1>4, <1>5

LEMMA ScoreBounds ==
  ASSUME Readings, weights \in WeightSets, NEW i \in Indicators
  PROVE  /\ Strategies!Weighted!Score(i) \in Int
         /\ Strategies!Weighted!NonNegative(weights) => Strategies!Weighted!Score(i) \in Scores
<1> DEFINE m == Strategies!Weighted!MomentumScore(i.momentum)
           s == Strategies!Weighted!SmaScore(i)
           r == Strategies!Weighted!RsiScore(i.rsi)
           v == Strategies!Weighted!VolumeScore(i.volume_ratio)
           d == Strategies!Weighted!VwapScore(i.vwap_distance)
           wm == weights.momentum
           ws == weights.sma
           wr == weights.rsi
           wv == weights.volume
           wd == weights.vwap
           average == Sum(m, s, r, v, d, wm, ws, wr, wv, wd) \div Total(wm, wr, wv, wd, ws)
<1>1. m \in Scores /\ s \in Scores /\ r \in Scores /\ v \in Scores /\ d \in Scores
  BY PartScores
<1>2. /\ wm \in Int /\ ws \in Int /\ wr \in Int /\ wv \in Int /\ wd \in Int
      /\ Total(wm, wr, wv, wd, ws) > 0
      /\ Strategies!Weighted!NonNegative(weights) =>
           wm \in Nat /\ ws \in Nat /\ wr \in Nat /\ wv \in Nat /\ wd \in Nat
  BY TotalPositive DEF Strategies!Weighted!TotalOf, Total
<1>3. Strategies!Weighted!Score(i) \in {average, Strategies!Weighted!Bonus(average)}
  BY DEF Strategies!Weighted!Score, Strategies!Weighted!WeightedSum,
     Strategies!Weighted!TotalOf, Sum, Total
<1> HIDE DEF m, s, r, v, d, wm, ws, wr, wv, wd
<1>4. average \in Int
  BY <1>1, <1>2, AverageTyped
<1>5. ASSUME Strategies!Weighted!NonNegative(weights) PROVE average \in Scores
  BY <1>1, <1>2, <1>5, AverageBounds
<1> HIDE DEF average
<1>6. Strategies!Weighted!Bonus(average) \in Int
  <2>1. \A x \in Int : (x * 12) \div 10 \in Int
    OBVIOUS
  <2>2. QED
    BY <1>4, <2>1 DEF Strategies!Weighted!Bonus, Strategies!Weighted!LeastOf,
       Strategies!Weighted!One
<1>7. ASSUME average \in Scores PROVE Strategies!Weighted!Bonus(average) \in Scores
  <2>1. \A x \in 0 .. 10000 : (x * 12) \div 10 \in Nat
    OBVIOUS
  <2>2. QED
    BY <1>7, <2>1 DEF Scores, Strategies!Weighted!Bonus, Strategies!Weighted!LeastOf,
       Strategies!Weighted!One
<1>8. QED
  BY <1>3, <1>4, <1>5, <1>6, <1>7

----------------------------------------------------------------------------
(***************************************************************************)
(* The types of the lot machine, whatever the strategy orders.             *)
(***************************************************************************)
Orders(S, Q) == [symbol : S, is_buy : BOOLEAN, quantity : Q]

LotTypes(S, Q) ==
  /\ in_position \in BOOLEAN /\ pending_exit \in BOOLEAN
  /\ positions \in [S -> Int]
  /\ outstanding \in Seq(Orders(S, Q))
  /\ holding \in [S -> Nat] /\ lot \in {"none", "ordered", "held"}
  /\ entries \in 0 .. MaxEntries /\ rejections \in 0 .. MaxRejections

LEMMA OrderEmitted ==
  ASSUME NEW S, NEW Q, NEW s \in S, NEW q \in Q, NEW is_buy \in BOOLEAN,
         outstanding \in Seq(Orders(S, Q)), Lots!Emit(s, is_buy, q)
  PROVE  outstanding' \in Seq(Orders(S, Q))
<1>1. [symbol |-> s, is_buy |-> is_buy, quantity |-> q] \in Orders(S, Q)
  BY DEF Orders
<1>2. QED
  BY <1>1 DEF Lots!Emit

LEMMA LotTypesKept ==
  ASSUME NEW S, NEW Q \in SUBSET Nat, LotTypes(S, Q), LotMoveOf(S, Q)
  PROVE  LotTypes(S, Q)'
<1>1. CASE UNCHANGED Lots!lotVars
  BY <1>1 DEF Lots!lotVars, Lots!worldVars, LotTypes
<1>2. ASSUME NEW s \in S, NEW q \in Q, Lots!Enter(s, q)
      PROVE  LotTypes(S, Q)'
  <2>1. outstanding' \in Seq(Orders(S, Q))
    BY <1>2, OrderEmitted DEF Lots!Enter, LotTypes
  <2>2. entries' \in 0 .. MaxEntries
    BY <1>2, CountsAssumption DEF Lots!Enter, LotTypes
  <2>3. QED
    BY <1>2, <2>1, <2>2 DEF Lots!Enter, LotTypes
<1>3. ASSUME NEW s \in S, NEW q \in Q, Lots!Exit(s, q)
      PROVE  LotTypes(S, Q)'
  <2>1. outstanding' \in Seq(Orders(S, Q))
    BY <1>3, OrderEmitted DEF Lots!Exit, LotTypes
  <2>2. QED
    BY <1>3, <2>1 DEF Lots!Exit, Lots!worldVars, LotTypes
<1>4. ASSUME outstanding # <<>>, outstanding' = Tail(outstanding), LotTypes(S, Q)
      PROVE  /\ outstanding' \in Seq(Orders(S, Q)) /\ Lots!Oldest \in Orders(S, Q)
             /\ Lots!Oldest.symbol \in S /\ Lots!Oldest.is_buy \in BOOLEAN
             /\ Lots!Oldest.quantity \in Nat
  <2>1. outstanding' \in Seq(Orders(S, Q)) /\ Lots!Oldest \in Orders(S, Q)
    BY <1>4 DEF LotTypes, Lots!Oldest
  <2>2. QED
    BY <2>1 DEF Orders
<1>5. CASE Lots!Filled /\ Lots!SellFillClears(Lots!Oldest)
  <2> DEFINE o == Lots!Oldest
  <2>1. /\ outstanding # <<>> /\ outstanding' = Tail(outstanding)
        /\ o.is_buy \/ holding[o.symbol] >= o.quantity
        /\ holding' = [holding EXCEPT ![o.symbol] =
                         IF o.is_buy THEN holding[o.symbol] + o.quantity
                                     ELSE holding[o.symbol] - o.quantity]
        /\ positions' = [positions EXCEPT ![o.symbol] =
                           IF o.is_buy THEN positions[o.symbol] + o.quantity
                                       ELSE positions[o.symbol] - o.quantity]
        /\ lot' \in {"held", "none"} /\ UNCHANGED <<rejections, entries>>
        /\ in_position' = (o.is_buy /\ in_position)
        /\ pending_exit' = (o.is_buy /\ pending_exit)
    BY <1>5 DEF Lots!Filled, Lots!Fillable, Lots!UpdatePosition, Lots!SellFillClears
  <2>2. /\ outstanding' \in Seq(Orders(S, Q)) /\ o.symbol \in S
        /\ o.is_buy \in BOOLEAN /\ o.quantity \in Nat
    BY <1>4, <2>1
  <2>3. /\ holding \in [S -> Nat] /\ positions \in [S -> Int]
        /\ in_position \in BOOLEAN /\ pending_exit \in BOOLEAN
        /\ entries \in 0 .. MaxEntries /\ rejections \in 0 .. MaxRejections
    BY DEF LotTypes
  <2> HIDE DEF o
  <2>4. holding' \in [S -> Nat]
    BY <2>1, <2>2, <2>3
  <2>5. positions' \in [S -> Int]
    BY <2>1, <2>2, <2>3
  <2>6. QED
    BY <2>1, <2>2, <2>3, <2>4, <2>5 DEF LotTypes
<1>6. CASE Lots!Rejected /\ Lots!RejectClears(Lots!Oldest)
  <2> DEFINE o == Lots!Oldest
  <2>1. /\ outstanding # <<>> /\ outstanding' = Tail(outstanding)
        /\ rejections' = rejections \/ (/\ rejections < MaxRejections
                                        /\ rejections' = rejections + 1)
        /\ lot' \in {"none", lot} /\ UNCHANGED <<positions, holding, entries>>
        /\ in_position' = (~o.is_buy /\ in_position)
        /\ pending_exit' = (o.is_buy /\ pending_exit)
    BY <1>6 DEF Lots!Rejected, Lots!RejectClears
  <2>2. outstanding' \in Seq(Orders(S, Q)) /\ o.is_buy \in BOOLEAN
    BY <1>4, <2>1
  <2> HIDE DEF o
  <2>3. rejections' \in 0 .. MaxRejections
    BY <2>1, CountsAssumption DEF LotTypes
  <2>4. QED
    BY <2>1, <2>2, <2>3 DEF LotTypes
<1>7. QED
  BY <1>1, <1>2, <1>3, <1>5, <1>6 DEF LotMoveOf

LEMMA LotTypesInit ==
  ASSUME NEW S, NEW Q,
         in_position = FALSE, pending_exit = FALSE, positions = [s \in S |-> 0],
         outstanding = <<>>, holding = [s \in S |-> 0], lot = "none",
         entries = 0, rejections = 0
  PROVE  LotTypes(S, Q)
<1>1. 0 \in 0 .. MaxEntries /\ 0 \in 0 .. MaxRejections
  BY CountsAssumption
<1>2. << >> \in Seq(Orders(S, Q))
  OBVIOUS
<1>3. positions \in [S -> Int] /\ holding \in [S -> Nat]
  OBVIOUS
<1>4. in_position \in BOOLEAN /\ pending_exit \in BOOLEAN /\ lot \in {"none", "ordered", "held"}
  OBVIOUS
<1>5. QED
  BY <1>1, <1>2, <1>3, <1>4 DEF LotTypes

\* Orders of particular quantities are orders.
LEMMA LotTypesWiden ==
  ASSUME NEW S, NEW Q \in SUBSET Nat, LotTypes(S, Q)
  PROVE  LotTypes(S, Nat)
<1>1. \A o \in Orders(S, Q) : o \in Orders(S, Nat)
  BY DEF Orders
<1>2. outstanding \in Seq(Orders(S, Nat))
  BY <1>1 DEF LotTypes
<1>3. QED
  BY <1>2 DEF LotTypes

----------------------------------------------------------------------------
\* The types of the weighted strategy, its score's among them.
WeightedTypes == strategy = "weighted" => Strategies!Weighted!TypeOK

LEMMA WeightedLotTypes ==
  Strategies!Weighted!LotTypeOK <=> LotTypes(OneSymbol, Nat)
  BY DEF Strategies!Weighted!LotTypeOK, Strategies!Weighted!OrderType, LotTypes, Orders

LEMMA WeightedLotTypesKept ==
  ASSUME Strategies!Weighted!LotTypeOK, Strategies!Weighted!Next
  PROVE  Strategies!Weighted!LotTypeOK'
<1>1. LotMoveOf(OneSymbol, Nat)
  <2>1. \A q \in {1} : q \in Nat
    OBVIOUS
  <2>2. LotMoveOf(OneSymbol, {1})
    BY WeightedMoves
  <2>3. QED
    BY <2>1, <2>2 DEF LotMoveOf
<1>2. LotTypes(OneSymbol, Nat)'
  BY <1>1, WeightedLotTypes, LotTypesKept
<1>3. QED
  BY <1>2 DEF Strategies!Weighted!LotTypeOK, Strategies!Weighted!OrderType, LotTypes, Orders

LEMMA WeightedTypesKept ==
  ASSUME Readings, Strategies!Weighted!TypeOK, Strategies!Weighted!Next
  PROVE  Strategies!Weighted!TypeOK'
<1>1. /\ Strategies!Weighted!LotTypeOK /\ seen \in 0 .. Window /\ weights \in WeightSets
      /\ weighted_score \in Int
      /\ Strategies!Weighted!NonNegative(weights) => weighted_score \in Scores
      /\ entry_price \in Nat /\ highest_price \in Nat
      /\ trailing_stop \in Nat /\ age \in 0 .. MaxHold + 1
  BY DEF Strategies!Weighted!TypeOK, Strategies!Weighted!NonNegative,
     Scores
<1>2. Strategies!Weighted!SeenAfter \in 0 .. Window
  BY <1>1, CountsAssumption DEF Strategies!Weighted!SeenAfter, Strategies!Weighted!LeastOf
<1>3. Strategies!Weighted!LotTypeOK'
  BY <1>1, WeightedLotTypesKept
<1>4. CASE Strategies!Weighted!TickCold
  BY <1>1, <1>2, <1>3, <1>4 DEF Strategies!Weighted!TickCold, Strategies!Weighted!stopVars,
     Strategies!Weighted!TypeOK, Strategies!Weighted!NonNegative,
     Scores
<1>5. CASE Strategies!Weighted!Clock
  <2>1. age' \in 0 .. MaxHold + 1
    BY <1>1, <1>5, CountsAssumption DEF Strategies!Weighted!Clock
  <2>2. QED
    BY <1>1, <1>3, <1>5, <2>1 DEF Strategies!Weighted!Clock, Strategies!Weighted!TypeOK, Strategies!Weighted!NonNegative,
     Scores
<1>6. CASE Strategies!Weighted!Tick
  <2>1. PICK price \in WeightedPrices, i \in Indicators :
          /\ weighted_score' = Strategies!Weighted!Score(i)
          /\ \/ Strategies!Weighted!TickInPosition(price, Strategies!Weighted!Score(i))
             \/ Strategies!Weighted!TickFlat(price, Strategies!Weighted!Score(i))
    BY <1>6 DEF Strategies!Weighted!Tick
  <2>2. /\ weighted_score' \in Int
        /\ Strategies!Weighted!NonNegative(weights') => weighted_score' \in Scores
        /\ seen' \in 0 .. Window /\ weights' \in WeightSets
    BY <1>1, <1>2, <1>6, <2>1, ScoreBounds DEF Strategies!Weighted!Tick
  <2>3. price \in Nat /\ Strategies!Weighted!StopFor(price) \in Nat
    <3>1. price \in Nat
      BY DEF Readings, Strategies!Weighted!ReadingsAssumption
    <3>2. 100 - StopPct \in Nat
      BY PctAssumption
    <3>3. QED
      BY <3>1, <3>2, Distributes DEF Strategies!Weighted!StopFor
  <2>4. CASE Strategies!Weighted!TickInPosition(price, Strategies!Weighted!Score(i))
    <3>1. /\ highest_price' \in {price, highest_price} /\ UNCHANGED <<entry_price, age>>
          /\ trailing_stop' \in {Strategies!Weighted!StopFor(price), trailing_stop}
      BY <2>4 DEF Strategies!Weighted!TickInPosition
    <3>2. QED
      BY <1>1, <1>3, <2>2, <2>3, <3>1 DEF Strategies!Weighted!TypeOK, Strategies!Weighted!NonNegative,
     Scores
  <2>5. CASE Strategies!Weighted!TickFlat(price, Strategies!Weighted!Score(i))
    <3>1. /\ entry_price' \in {price, entry_price} /\ highest_price' \in {price, highest_price}
          /\ trailing_stop' \in {Strategies!Weighted!StopFor(price), trailing_stop}
          /\ age' \in {0, age}
      BY <2>5 DEF Strategies!Weighted!TickFlat, Strategies!Weighted!stopVars
    <3>2. age' \in 0 .. MaxHold + 1
      BY <1>1, <3>1, CountsAssumption
    <3>3. QED
      BY <1>1, <1>3, <2>2, <2>3, <3>1, <3>2 DEF Strategies!Weighted!TypeOK, Strategies!Weighted!NonNegative,
     Scores
  <2>6. QED
    BY <2>1, <2>4, <2>5
<1>7. CASE Strategies!Weighted!OnOrderFilled \/ Strategies!Weighted!OnOrderRejected
  <2>1. UNCHANGED <<seen, weights, weighted_score, entry_price, highest_price, trailing_stop, age>>
    BY <1>7 DEF Strategies!Weighted!OnOrderFilled, Strategies!Weighted!OnOrderRejected,
       Strategies!Weighted!stopVars
  <2>2. QED
    BY <1>1, <1>3, <2>1 DEF Strategies!Weighted!TypeOK, Strategies!Weighted!NonNegative,
     Scores
<1>8. QED
  BY <1>4, <1>5, <1>6, <1>7 DEF Strategies!Weighted!Next

\* weighted_strategy.hpp: the weighted score is between 0 and 1 whatever
\* non-negative weights are configured and however many indicators confirm,
\* and with any weights that set_weights accepts everything keeps its type.
THEOREM ScoreIsFraction ==
  Readings => (Strategies!Spec => [](strategy = "weighted" => Strategies!Weighted!TypeOK))
<1> SUFFICES ASSUME Readings
             PROVE  Strategies!Spec => [](strategy = "weighted" => Strategies!Weighted!TypeOK)
  OBVIOUS
<1>1. Strategies!Init => WeightedTypes
  <2> SUFFICES ASSUME Strategies!Init, strategy = "weighted"
               PROVE  Strategies!Weighted!TypeOK
    BY DEF WeightedTypes
  <2>1. Strategies!Weighted!Init
    BY DEF Strategies!Init
  <2>2. Strategies!Weighted!LotTypeOK
    <3>1. LotTypes(OneSymbol, Nat)
      BY <2>1, LotTypesInit DEF Strategies!Weighted!Init, Strategies!Weighted!LotInit
    <3>2. QED
      BY <3>1, WeightedLotTypes
  <2>3. QED
    BY <2>1, <2>2, CountsAssumption DEF Strategies!Weighted!Init, Strategies!Weighted!TypeOK,
       Strategies!Weighted!One
<1>2. WeightedTypes /\ [Strategies!Next]_(Strategies!vars) => WeightedTypes'
  <2> SUFFICES ASSUME WeightedTypes, [Strategies!Next]_(Strategies!vars),
                      strategy' = "weighted"
               PROVE  Strategies!Weighted!TypeOK'
    BY DEF WeightedTypes
  <2>1. strategy = "weighted" /\ Strategies!Weighted!TypeOK
    BY DEF WeightedTypes, Strategies!Next, Strategies!vars
  <2>2. CASE Strategies!Next
    <3>1. Strategies!Weighted!Next
      BY <2>1, <2>2 DEF Strategies!Next
    <3>2. QED
      BY <2>1, <3>1, WeightedTypesKept
  <2>3. CASE UNCHANGED Strategies!vars
    BY <2>1, <2>3 DEF Strategies!vars, Strategies!lotVars, Strategies!weightedVars,
       Strategies!Weighted!TypeOK, Strategies!Weighted!LotTypeOK,
       Strategies!Weighted!NonNegative
  <2>4. QED
    BY <2>2, <2>3
<1>3. QED
  BY <1>1, <1>2, PTL DEF Strategies!Spec, WeightedTypes

----------------------------------------------------------------------------
(***************************************************************************)
(* Sums over finite sets, as the community modules define them, with the   *)
(* proofs that LibraryProofs has for the books.                            *)
(***************************************************************************)
LEMMA LeastNatural ==
  ASSUME NEW T \in SUBSET Nat, T # {}
  PROVE  \E n \in T : \A m \in T : n <= m
<1> DEFINE Less == {p \in Nat \X Nat : p[1] < p[2]}
<1>1. IsWellFoundedOn(Less, Nat)
  BY NatLessThanWellFounded DEF OpToRel
<1>2. \A m, n \in T : m < n => <<m, n>> \in Less
  OBVIOUS
<1> HIDE DEF Less
<1>3. PICK n \in T : \A m \in T : ~ (<<m, n>> \in Less)
  BY <1>1, WFMin
<1>4. ASSUME NEW m \in T PROVE n <= m
  <2>1. m \in Nat /\ n \in Nat /\ ~(m < n)
    BY <1>2, <1>3
  <2>2. QED
    BY <2>1
<1>5. QED
  BY <1>4

\* Induction over the naturals, for a set.
LEMMA NaturalInduction ==
  ASSUME NEW Good, 0 \in Good, \A n \in Nat : n \in Good => n + 1 \in Good
  PROVE  \A n \in Nat : n \in Good
<1> SUFFICES ASSUME Nat \ Good # {} PROVE FALSE
  OBVIOUS
<1>1. PICK n \in Nat \ Good : \A m \in Nat \ Good : n <= m
  BY LeastNatural
<1>2. n # 0 /\ n - 1 \in Nat
  BY <1>1
<1>3. n - 1 \in Good
  <2>1. ~(n <= n - 1)
    BY <1>1
  <2>2. QED
    BY <1>1, <1>2, <2>1
<1>4. (n - 1) + 1 = n
  BY <1>1
<1>5. QED
  BY <1>1, <1>2, <1>3, <1>4

\* The subsets of S of at most n members.
Small(S, n) == {s \in SUBSET S : Cardinality(s) <= n}

LEMMA SmallSubsets ==
  ASSUME NEW S, IsFiniteSet(S), NEW n \in Nat
  PROVE  /\ Small(S, 0) = {{}}
         /\ \A s \in Small(S, n + 1) : \A x \in s : s \ {x} \in Small(S, n)
         /\ Small(S, n) \subseteq Small(S, n + 1)
         /\ \A s \in SUBSET S : s \in Small(S, Cardinality(S))
         /\ \A s \in SUBSET S : IsFiniteSet(s) /\ Cardinality(s) \in Nat
<1>1. \A s \in SUBSET S : IsFiniteSet(s) /\ Cardinality(s) \in Nat
  BY FS_Subset, FS_CardinalityType
<1>2. Small(S, 0) = {{}}
  <2>1. \A s \in SUBSET S : Cardinality(s) <= 0 <=> s = {}
    BY <1>1, FS_EmptySet
  <2>2. QED
    BY <2>1 DEF Small
<1>3. ASSUME NEW s \in Small(S, n + 1), NEW x \in s
      PROVE  s \ {x} \in Small(S, n)
  <2>1. s \in SUBSET S /\ IsFiniteSet(s) /\ Cardinality(s) <= n + 1
    BY <1>1 DEF Small
  <2>2. Cardinality(s \ {x}) = Cardinality(s) - 1
    BY <2>1, FS_RemoveElement
  <2>3. Cardinality(s) \in Nat
    BY <1>1, <2>1
  <2>4. Cardinality(s \ {x}) <= n
    BY <2>1, <2>2, <2>3
  <2>5. QED
    BY <2>1, <2>4 DEF Small
<1>4. Small(S, n) \subseteq Small(S, n + 1)
  <2>1. \A c \in Nat : c <= n => c <= n + 1
    OBVIOUS
  <2>2. QED
    BY <1>1, <2>1 DEF Small
<1>5. \A s \in SUBSET S : s \in Small(S, Cardinality(S))
  BY <1>1, FS_Subset DEF Small
<1>6. QED
  BY <1>1, <1>2, <1>3, <1>4, <1>5

LEMMA SubsetIsSmall ==
  ASSUME NEW S, IsFiniteSet(S), NEW s \in SUBSET S
  PROVE  Cardinality(s) \in Nat /\ s \in Small(S, Cardinality(s))
<1>1. IsFiniteSet(s) /\ Cardinality(s) \in Nat
  BY FS_Subset, FS_CardinalityType
<1>2. QED
  BY <1>1 DEF Small

\* Which member is taken off.
Takes(take, S) == \A s \in SUBSET S : s # {} => take[s] \in s

\* A fold over the subsets of S: one member is taken off at a time.
IsFold(g, T, base, take, F) ==
  g = [s \in T |-> IF s = {} THEN base ELSE F[take[s]][g[s \ {take[s]}]]]

LEMMA FoldExists ==
  ASSUME NEW S, IsFiniteSet(S), NEW A, NEW base \in A,
         NEW take, Takes(take, S),
         NEW F \in [S -> [A -> A]]
  PROVE  \E g \in [SUBSET S -> A] : IsFold(g, SUBSET S, base, take, F)
<1> DEFINE Fold(T, g) == IsFold(g, T, base, take, F)
           Good == {n \in Nat : \E g \in [Small(S, n) -> A] : Fold(Small(S, n), g)}
<1>1. 0 \in Good
  <2>1. Small(S, 0) = {{}}
    BY SmallSubsets
  <2>2. [s \in {{}} |-> base] \in [Small(S, 0) -> A] /\ Fold(Small(S, 0), [s \in {{}} |-> base])
    BY <2>1 DEF IsFold
  <2>3. QED
    BY <2>2
<1>2. ASSUME NEW n \in Nat, n \in Good PROVE n + 1 \in Good
  <2>1. PICK g \in [Small(S, n) -> A] : Fold(Small(S, n), g)
    BY <1>2
  <2> DEFINE h == [s \in Small(S, n + 1) |-> IF s = {} THEN base
                                             ELSE F[take[s]][g[s \ {take[s]}]]]
  <2>2. ASSUME NEW s \in Small(S, n + 1), s # {}
        PROVE  take[s] \in S /\ take[s] \in s /\ s \ {take[s]} \in Small(S, n)
    <3>1. s \in SUBSET S
      BY DEF Small
    <3>2. take[s] \in s
      BY <2>2, <3>1 DEF Takes
    <3>3. QED
      BY <3>1, <3>2, SmallSubsets
  <2>3. h \in [Small(S, n + 1) -> A]
    BY <2>2
  <2>4. \A s \in Small(S, n) : h[s] = g[s]
    BY <2>1, SmallSubsets DEF IsFold
  <2>5. \A s \in Small(S, n + 1) : s # {} => g[s \ {take[s]}] = h[s \ {take[s]}]
    BY <2>2, <2>4
  <2>6. Fold(Small(S, n + 1), h)
    BY <2>5 DEF IsFold
  <2>7. \E k \in [Small(S, n + 1) -> A] : Fold(Small(S, n + 1), k)
    <3> HIDE DEF h
    <3>1. QED
      BY <2>3, <2>6
  <2>8. n + 1 \in Nat
    OBVIOUS
  <2>9. QED
    BY <2>7, <2>8, Zenon
<1> HIDE DEF Good
<1>3. \A n \in Nat : n \in Good
  BY <1>1, <1>2, NaturalInduction
<1>4. Cardinality(S) \in Good /\ Cardinality(S) \in Nat
  BY <1>3, FS_CardinalityType
<1>5. Small(S, Cardinality(S)) = SUBSET S
  BY <1>4, SmallSubsets DEF Small
<1>6. \E g \in [Small(S, Cardinality(S)) -> A] : Fold(Small(S, Cardinality(S)), g)
  BY <1>4 DEF Good
<1>7. QED
  BY <1>5, <1>6

\* The sum of the values of a function over a set of its arguments, as the
\* fold of the community modules makes it: w[x] for one member x of a set
\* and the sum over the rest.
IsSum(g, w, S) ==
  g = [s \in SUBSET S |-> IF s = {} THEN 0
                          ELSE w[CHOOSE x \in s : TRUE] + g[s \ {CHOOSE x \in s : TRUE}]]
Ints(w, S) == \A x \in S : w[x] \in Int
SumOver(w, S) == (CHOOSE g : IsSum(g, w, S))[S]

LEMMA SumExists ==
  ASSUME NEW S, IsFiniteSet(S), NEW w, Ints(w, S)
  PROVE  \E g \in [SUBSET S -> Int] : IsSum(g, w, S)
<1> DEFINE take == [s \in SUBSET S |-> CHOOSE x \in s : TRUE]
           F == [x \in S |-> [a \in Int |-> w[x] + a]]
<1>1. \A s \in SUBSET S : s # {} => take[s] \in s /\ take[s] = CHOOSE x \in s : TRUE
  OBVIOUS
<1>2. F \in [S -> [Int -> Int]]
  BY DEF Ints
<1>3. \A x \in S, a \in Int : F[x][a] = w[x] + a
  OBVIOUS
<1> HIDE DEF take, F
<1>4. PICK g \in [SUBSET S -> Int] :
        IsFold(g, SUBSET S, 0, take, F)
  <2>1. Takes(take, S)
    BY <1>1 DEF Takes
  <2>2. 0 \in Int
    OBVIOUS
  <2>3. QED
    BY <1>2, <2>1, <2>2, FoldExists, Zenon
<1>5. ASSUME NEW s \in SUBSET S, s # {}
      PROVE  g[s] = w[CHOOSE x \in s : TRUE] + g[s \ {CHOOSE x \in s : TRUE}]
  <2>1. take[s] \in S /\ s \ {take[s]} \in SUBSET S
    BY <1>1, <1>5
  <2>2. g[s] = F[take[s]][g[s \ {take[s]}]]
    BY <1>4, <1>5 DEF IsFold
  <2>3. g[s] = w[take[s]] + g[s \ {take[s]}]
    BY <1>3, <2>1, <2>2
  <2>4. QED
    BY <1>1, <1>5, <2>3
<1>6. g[{}] = 0
  BY <1>4 DEF IsFold
<1>7. IsSum(g, w, S)
  BY <1>5, <1>6 DEF IsSum
<1>8. QED
  BY <1>7

\* What the equation says of each subset.
LEMMA SumUnfolds ==
  ASSUME NEW S, NEW w, NEW g, IsSum(g, w, S)
  PROVE  /\ g[{}] = 0
         /\ \A s \in SUBSET S : s # {} =>
              \E x \in s : g[s] = w[x] + g[s \ {x}] /\ x = CHOOSE y \in s : TRUE
<1>1. \A s \in SUBSET S :
        g[s] = IF s = {} THEN 0
               ELSE w[CHOOSE x \in s : TRUE] + g[s \ {CHOOSE x \in s : TRUE}]
  BY DEF IsSum
<1>2. \A s \in SUBSET S : s # {} => (CHOOSE x \in s : TRUE) \in s
  OBVIOUS
<1>3. g[{}] = 0
  BY <1>1
<1>4. QED
  BY <1>1, <1>2, <1>3

\* A property of subsets that holds of the empty set, and of a set when it
\* holds of the set without one member, holds of every subset.
LEMMA SubsetInduction ==
  ASSUME NEW S, IsFiniteSet(S), NEW Good,
         {} \in Good,
         \A s \in SUBSET S : (\A x \in s : s \ {x} \in Good) => s \in Good
  PROVE  \A s \in SUBSET S : s \in Good
<1> DEFINE Done == {n \in Nat : Small(S, n) \subseteq Good}
<1>1. 0 \in Done
  BY SmallSubsets
<1>2. ASSUME NEW n \in Nat, n \in Done PROVE n + 1 \in Done
  <2>1. ASSUME NEW s \in Small(S, n + 1) PROVE s \in Good
    <3>1. s \in SUBSET S
      BY DEF Small
    <3>2. \A x \in s : s \ {x} \in Good
      BY <1>2, SmallSubsets
    <3>3. QED
      BY <3>1, <3>2
  <2>2. n + 1 \in Nat
    OBVIOUS
  <2>3. QED
    BY <2>1, <2>2
<1> HIDE DEF Done
<1>3. \A n \in Nat : n \in Done
  BY <1>1, <1>2, NaturalInduction
<1>4. ASSUME NEW s \in SUBSET S PROVE s \in Good
  <2>1. \A t \in SUBSET S : Cardinality(t) \in Nat /\ t \in Small(S, Cardinality(t))
    BY SubsetIsSmall
  <2>2. QED
    BY <1>3, <2>1 DEF Done
<1>5. QED
  BY <1>4

\* Sums of functions that agree are the same, over whatever larger sets.
LEMMA SumsAgree ==
  ASSUME NEW S, NEW R \in SUBSET S, IsFiniteSet(R), NEW w, NEW v,
         \A x \in R : w[x] = v[x],
         NEW g, IsSum(g, w, S), NEW h, IsSum(h, v, R)
  PROVE  \A s \in SUBSET R : g[s] = h[s]
<1> DEFINE Good == {s \in SUBSET R : g[s] = h[s]}
<1>1. {} \in Good
  BY SumUnfolds
<1>2. ASSUME NEW s \in SUBSET R, \A x \in s : s \ {x} \in Good PROVE s \in Good
  <2>1. CASE s = {}
    BY <1>1, <2>1
  <2>2. CASE s # {}
    <3>1. PICK x \in s : g[s] = w[x] + g[s \ {x}] /\ x = CHOOSE y \in s : TRUE
      BY <2>2, SumUnfolds
    <3>2. PICK z \in s : h[s] = v[z] + h[s \ {z}] /\ z = CHOOSE y \in s : TRUE
      BY <2>2, SumUnfolds
    <3>3. x = z /\ w[x] = v[x] /\ g[s \ {x}] = h[s \ {x}]
      BY <1>2, <3>1, <3>2
    <3>4. QED
      BY <3>1, <3>2, <3>3
  <2>3. QED
    BY <2>1, <2>2
<1> HIDE DEF Good
<1>3. \A s \in SUBSET R : s \in Good
  BY <1>1, <1>2, SubsetInduction
<1>4. QED
  BY <1>3 DEF Good

\* Any member may be the one taken off.
TakenOff(g, w, S, x) == g[S] = w[x] + g[S \ {x}]

LEMMA SumTakesAny ==
  ASSUME NEW S, IsFiniteSet(S), NEW w, Ints(w, S),
         NEW g \in [SUBSET S -> Int], IsSum(g, w, S), NEW z \in S
  PROVE  TakenOff(g, w, S, z)
<1> DEFINE Good == {s \in SUBSET S : \A x \in s : g[s] = w[x] + g[s \ {x}]}
<1>1. {} \in Good
  OBVIOUS
<1>2. ASSUME NEW s \in SUBSET S, \A x \in s : s \ {x} \in Good PROVE s \in Good
  <2>1. ASSUME NEW x \in s PROVE g[s] = w[x] + g[s \ {x}]
    <3>1. PICK y \in s : g[s] = w[y] + g[s \ {y}]
      <4>1. s # {}
        OBVIOUS
      <4>2. \E y \in s : g[s] = w[y] + g[s \ {y}] /\ y = CHOOSE v \in s : TRUE
        BY <4>1, SumUnfolds
      <4>3. QED
        BY <4>2
    <3>2. CASE x = y
      BY <3>1, <3>2
    <3>3. CASE x # y
      <4>1. g[s \ {y}] = w[x] + g[(s \ {y}) \ {x}]
        BY <1>2, <3>3
      <4>2. g[s \ {x}] = w[y] + g[(s \ {x}) \ {y}]
        BY <1>2, <3>3
      <4>3. (s \ {y}) \ {x} = (s \ {x}) \ {y}
        OBVIOUS
      <4>4. PICK a, b, r \in Int : a = w[x] /\ b = w[y] /\ r = g[(s \ {x}) \ {y}]
        BY DEF Ints
      <4>5. g[s] = b + (a + r) /\ g[s \ {x}] = b + r
        BY <3>1, <4>1, <4>2, <4>3, <4>4
      <4>6. b + (a + r) = a + (b + r)
        OBVIOUS
      <4>7. QED
        BY <4>4, <4>5, <4>6
    <3>4. QED
      BY <3>2, <3>3
  <2>2. QED
    BY <2>1
<1> HIDE DEF Good
<1>3. \A s \in SUBSET S : s \in Good
  BY <1>1, <1>2, SubsetInduction
<1>4. QED
  BY <1>3 DEF Good, TakenOff

LEMMA SumIs ==
  ASSUME NEW S, IsFiniteSet(S), NEW w, Ints(w, S), NEW g, IsSum(g, w, S)
  PROVE  SumOver(w, S) = g[S]
<1> DEFINE h == CHOOSE h : IsSum(h, w, S)
<1>1. IsSum(h, w, S) /\ SumOver(w, S) = h[S]
  BY DEF SumOver
<1> HIDE DEF h
<1>2. \A s \in SUBSET S : g[s] = h[s]
  BY <1>1, SumsAgree
<1>3. QED
  BY <1>1, <1>2

\* The facts about sums used below.
TakenOffSum(w, S, x) == SumOver(w, S) = w[x] + SumOver(w, S \ {x})

LEMMA SumFacts ==
  ASSUME NEW S, IsFiniteSet(S), NEW w, Ints(w, S)
  PROVE  /\ SumOver(w, S) \in Int
         /\ S = {} => SumOver(w, S) = 0
         /\ \A x \in S : TakenOffSum(w, S, x)
<1> DEFINE g == CHOOSE g : IsSum(g, w, S)
<1>1. PICK h \in [SUBSET S -> Int] : IsSum(h, w, S)
  BY SumExists
<1>2. IsSum(g, w, S) /\ SumOver(w, S) = g[S]
  BY <1>1 DEF SumOver
<1> HIDE DEF g
<1>3. \A s \in SUBSET S : g[s] = h[s]
  BY <1>1, <1>2, SumsAgree
<1>4. SumOver(w, S) = h[S]
  BY <1>2, <1>3
<1>5. ASSUME NEW x \in S PROVE TakenOffSum(w, S, x)
  <2> DEFINE k == CHOOSE k : IsSum(k, w, S \ {x})
  <2>1. IsFiniteSet(S \ {x}) /\ Ints(w, S \ {x})
    BY FS_RemoveElement DEF Ints
  <2>2. \E v : IsSum(v, w, S \ {x})
    BY <2>1, SumExists
  <2>3. IsSum(k, w, S \ {x}) /\ SumOver(w, S \ {x}) = k[S \ {x}]
    BY <2>2 DEF SumOver
  <2> HIDE DEF k
  <2>4. h[S \ {x}] = k[S \ {x}]
    BY <1>1, <2>1, <2>3, SumsAgree
  <2>5. h[S] = w[x] + h[S \ {x}]
    <3>1. TakenOff(h, w, S, x)
      BY <1>1, SumTakesAny
    <3>2. QED
      BY <3>1 DEF TakenOff
  <2>6. QED
    BY <1>4, <2>3, <2>4, <2>5 DEF TakenOffSum
<1>6. S = {} => h[S] = 0
  BY <1>1, SumUnfolds
<1>7. QED
  BY <1>1, <1>4, <1>5, <1>6

LEMMA SumCongruent ==
  ASSUME NEW S, IsFiniteSet(S), NEW w, NEW v, Ints(w, S), \A x \in S : w[x] = v[x]
  PROVE  SumOver(w, S) = SumOver(v, S)
<1> DEFINE g == CHOOSE g : IsSum(g, w, S)
           h == CHOOSE h : IsSum(h, v, S)
<1>1. Ints(v, S)
  BY DEF Ints
<1>2. IsSum(g, w, S) /\ IsSum(h, v, S)
  BY <1>1, SumExists
<1> HIDE DEF g, h
<1>3. \A s \in SUBSET S : g[s] = h[s]
  BY <1>2, SumsAgree
<1>4. g[S] = h[S]
  BY <1>3
<1>5. QED
  BY <1>4 DEF SumOver, g, h

Nats(w, S) == \A x \in S : w[x] \in Nat

LEMMA SumNat ==
  ASSUME NEW S, IsFiniteSet(S), NEW w, Nats(w, S)
  PROVE  SumOver(w, S) \in Nat
<1> DEFINE Good == {s \in SUBSET S : SumOver(w, s) \in Nat}
<1>1. ASSUME NEW s \in SUBSET S, \A x \in s : s \ {x} \in Good PROVE s \in Good
  <2>1. IsFiniteSet(s) /\ Ints(w, s)
    BY FS_Subset DEF Nats, Ints
  <2>2. CASE s = {}
    BY <2>1, <2>2, SumFacts
  <2>3. CASE s # {}
    <3>1. PICK x \in s : TRUE
      BY <2>3
    <3>2. TakenOffSum(w, s, x)
      BY <2>1, SumFacts
    <3>3. SumOver(w, s \ {x}) \in Nat /\ w[x] \in Nat
      BY <1>1 DEF Nats
    <3>4. QED
      BY <3>2, <3>3 DEF TakenOffSum
  <2>4. QED
    BY <2>2, <2>3
<1>2. {} \in Good
  BY <1>1
<1> HIDE DEF Good
<1>3. \A s \in SUBSET S : s \in Good
  BY <1>1, <1>2, SubsetInduction
<1>4. QED
  BY <1>3 DEF Good

SumMoves(w, v, S, x) ==
  SumOver(w, S) \in Int /\ SumOver(v, S) = (SumOver(w, S) - w[x]) + v[x]

LEMMA SumReplaces ==
  ASSUME NEW S, IsFiniteSet(S), NEW w, Ints(w, S), NEW v, Ints(v, S), NEW x \in S,
         \A y \in S : y # x => v[y] = w[y]
  PROVE  SumMoves(w, v, S, x)
<1>1. IsFiniteSet(S \ {x}) /\ Ints(w, S \ {x}) /\ \A y \in S \ {x} : w[y] = v[y]
  BY FS_RemoveElement DEF Ints
<1>2. SumOver(w, S \ {x}) = SumOver(v, S \ {x}) /\ SumOver(w, S \ {x}) \in Int
  BY <1>1, SumCongruent, SumFacts
<1>3. TakenOffSum(w, S, x) /\ TakenOffSum(v, S, x) /\ SumOver(w, S) \in Int
  BY SumFacts
<1>4. w[x] \in Int /\ v[x] \in Int
  BY DEF Ints
<1>5. PICK a, b, r \in Int : a = w[x] /\ b = v[x] /\ r = SumOver(w, S \ {x})
  BY <1>2, <1>4
<1>6. SumOver(w, S) = a + r /\ SumOver(v, S) = b + r
  BY <1>2, <1>3, <1>5 DEF TakenOffSum
<1>7. b + r = ((a + r) - a) + b
  OBVIOUS
<1>8. QED
  BY <1>3, <1>5, <1>6, <1>7 DEF SumMoves

----------------------------------------------------------------------------
(***************************************************************************)
(* The sizes of the enhanced strategy: what the Kelly sizer allows.        *)
(***************************************************************************)
Amounts ==
  /\ Strategies!Vwap!VolumesAssumption
  /\ Strategies!Enhanced!AmountsAssumption
  /\ Strategies!Enhanced!Sizing!ReturnsAssumption

\* What the returns at some places add up to.
LEMMA TotalsAreSums ==
  ASSUME NEW r, NEW at
  PROVE  Strategies!Enhanced!Sizing!TotalAt(r, at) = SumOver(r, at)
  BY DEF Strategies!Enhanced!Sizing!TotalAt, Strategies!Enhanced!Sizing!MapThenSumSet,
     Strategies!Enhanced!Sizing!MapThenFoldSet, SumOver, IsSum

\* A total is a whole number, and a natural one where nothing was lost.
LEMMA TotalTypes ==
  ASSUME NEW r \in Seq(Int), NEW at \in SUBSET (DOMAIN r)
  PROVE  /\ Strategies!Enhanced!Sizing!TotalAt(r, at) \in Int
         /\ Nats(r, at) => Strategies!Enhanced!Sizing!TotalAt(r, at) \in Nat
         /\ Cardinality(at) \in Nat
<1>1. IsFiniteSet(at)
  <2>1. DOMAIN r = 1 .. Len(r) /\ Len(r) \in Int
    OBVIOUS
  <2>2. IsFiniteSet(1 .. Len(r))
    BY <2>1, FS_Interval
  <2>3. QED
    BY <2>1, <2>2, FS_Subset
<1>2. Ints(r, at)
  BY DEF Ints
<1>3. SumOver(r, at) \in Int /\ (Nats(r, at) => SumOver(r, at) \in Nat)
  BY <1>1, <1>2, SumFacts, SumNat
<1>4. QED
  BY <1>1, <1>3, TotalsAreSums, FS_CardinalityType

\* calculate_kelly risks at least 1%, whatever the returns were.
LEMMA KellyRisks ==
  ASSUME Amounts, NEW r \in Seq(Int)
  PROVE  Strategies!Enhanced!Sizing!CalculateKelly(r) \in 100 .. 2500
<1> DEFINE n == Len(r)
           wins == Strategies!Enhanced!Sizing!Wins(r)
           losses == Strategies!Enhanced!Sizing!Losses(r)
           won == Strategies!Enhanced!Sizing!TotalAt(r, wins)
           lost == -Strategies!Enhanced!Sizing!TotalAt(r, losses)
           w == Cardinality(wins)
           fraction == (5000 * w * (won - lost)) \div (n * won)
<1>1. wins \in SUBSET (DOMAIN r) /\ losses \in SUBSET (DOMAIN r) /\ Nats(r, wins)
  BY DEF Strategies!Enhanced!Sizing!Wins, Strategies!Enhanced!Sizing!Losses, Nats
<1>2. MinReturns \in Nat \ {0}
  BY DEF Amounts, Strategies!Enhanced!Sizing!ReturnsAssumption
<1>3. /\ won \in Nat /\ Strategies!Enhanced!Sizing!TotalAt(r, losses) \in Int
      /\ w \in Nat /\ n \in Nat
  <2> HIDE DEF wins, losses
  <2>1. QED
    BY <1>1, TotalTypes
<1>4. lost \in Int
  BY <1>3
<1>5. Strategies!Enhanced!Sizing!CalculateKelly(r) =
        IF n < MinReturns THEN 200
        ELSE IF lost = 0 THEN 2500
        ELSE IF won = 0 THEN 100
        ELSE Strategies!Enhanced!Sizing!HalfKelly(fraction)
  <2>1. Strategies!Enhanced!Sizing!Cardinality(wins) = w
    BY DEF Strategies!Enhanced!Sizing!Cardinality, Cardinality
  <2>2. QED
    BY <2>1 DEF Strategies!Enhanced!Sizing!CalculateKelly
<1> HIDE DEF n, wins, losses, won, lost, w, fraction
<1>6. CASE n >= MinReturns /\ won # 0
  <2>1. n \in Nat \ {0} /\ won \in Nat \ {0}
    BY <1>2, <1>3, <1>6
  <2>2. PICK d \in Nat \ {0} : d = n * won
    <3>1. \A x, y \in Nat \ {0} : x * y \in Nat \ {0}
      OBVIOUS
    <3>2. QED
      BY <2>1, <3>1
  <2>3. PICK a \in Int : a = 5000 * w * (won - lost)
    BY <1>3, <1>4
  <2>4. fraction \in Int
    <3>1. a \div d \in Int
      OBVIOUS
    <3>2. QED
      BY <2>2, <2>3, <3>1 DEF fraction
  <2>5. Strategies!Enhanced!Sizing!HalfKelly(fraction) \in 100 .. 2500
    BY <2>4 DEF Strategies!Enhanced!Sizing!HalfKelly, Strategies!Enhanced!Sizing!Clip
  <2>6. ~(n < MinReturns)
    BY <1>2, <1>3, <1>6
  <2>7. QED
    BY <1>5, <1>6, <2>5, <2>6
<1>7. CASE ~(n >= MinReturns /\ won # 0)
  BY <1>2, <1>3, <1>5, <1>7
<1>8. QED
  BY <1>6, <1>7

\* What dividing by something positive gives.
LEMMA DivisionBounds ==
  ASSUME NEW a \in Nat, NEW d \in Nat \ {0}
  PROVE  /\ a \div d \in Nat /\ d * (a \div d) <= a
         /\ d <= a => a \div d >= 1
  OBVIOUS

\* What fits into a whole number of times is no more than the quotient.
LEMMA QuotientAtLeast ==
  ASSUME NEW a \in Nat, NEW d \in Nat \ {0}, NEW m \in Nat, d * m <= a
  PROVE  m <= a \div d
<1>1. PICK q \in Nat : q = a \div d /\ a < d * q + d
  OBVIOUS
<1>2. ASSUME ~(m <= q) PROVE FALSE
  <2>1. PICK more \in Nat : m = (q + 1) + more
    <3>1. m - (q + 1) \in Nat /\ m = (q + 1) + (m - (q + 1))
      BY <1>2
    <3>2. QED
      BY <3>1
  <2>2. ((q + 1) + more) * d = (q + 1) * d + more * d /\ more * d \in Nat
    BY Distributes
  <2>3. (q + 1) * d = q * d + d /\ q * d \in Nat
    OBVIOUS
  <2>4. d * m = m * d /\ d * q = q * d
    OBVIOUS
  <2>5. QED
    BY <1>1, <2>1, <2>2, <2>3, <2>4
<1>3. QED
  BY <1>1, <1>2

\* calculate_position_size is a quarter of the capital, for any returns: what
\* is risked over the stop is never less.
LEMMA SizeIsQuarter ==
  ASSUME Amounts, NEW r \in Seq(Int), NEW price \in EnhancedPrices
  PROVE  /\ Strategies!Enhanced!Sizing!CalculatePositionSize(r, Capital, price)
              = Capital \div (4 * price)
         /\ Capital \div (4 * price) \in Nat
         /\ 4 * price * (Capital \div (4 * price)) <= Capital
<1>1. price \in Nat \ {0} /\ Capital \in Nat
  BY DEF Amounts, Strategies!Enhanced!AmountsAssumption
<1>2. PICK kelly \in Nat : /\ kelly = Strategies!Enhanced!Sizing!CalculateKelly(r)
                           /\ kelly >= 100
  BY KellyRisks
<1>3. PICK most \in Nat : /\ most = Capital \div (4 * price)
                          /\ 4 * price * most <= Capital
  <2>1. 4 * price \in Nat \ {0}
    BY <1>1
  <2>2. QED
    BY <1>1, <2>1, DivisionBounds
<1>4. PICK risked \in Nat : risked = Capital * kelly /\ 50 * Capital <= risked
  <2>1. PICK more \in Nat : kelly = 50 + more
    <3>1. kelly - 50 \in Nat /\ kelly = 50 + (kelly - 50)
      BY <1>2
    <3>2. QED
      BY <3>1
  <2>2. (50 + more) * Capital = 50 * Capital + more * Capital /\ more * Capital \in Nat
    BY <1>1, Distributes
  <2>3. Capital * kelly = kelly * Capital /\ Capital * kelly \in Nat
    BY <1>1
  <2>4. QED
    BY <1>1, <2>1, <2>2, <2>3
<1>5. (200 * price) * most <= risked
  <2>1. PICK spent \in Nat : spent = 4 * price * most
    BY <1>1
  <2>2. (200 * price) * most = 50 * (4 * price * most)
    BY <1>1
  <2>3. (200 * price) * most = 50 * spent
    BY <2>1, <2>2
  <2>4. spent <= Capital
    BY <1>3, <2>1
  <2>5. 50 * spent <= 50 * Capital
    BY <1>1, <2>1, <2>4
  <2>6. 50 * spent <= risked
    BY <1>1, <1>4, <2>1, <2>5
  <2>7. QED
    BY <2>3, <2>6
<1>6. most <= risked \div (200 * price) /\ risked \div (200 * price) \in Nat
  <2>1. 200 * price \in Nat \ {0}
    BY <1>1
  <2>2. QED
    BY <1>5, <2>1, QuotientAtLeast, DivisionBounds
<1>7. Strategies!Enhanced!Sizing!CalculatePositionSize(r, Capital, price) = most
  BY <1>2, <1>3, <1>4, <1>6 DEF Strategies!Enhanced!Sizing!CalculatePositionSize
<1>8. QED
  BY <1>3, <1>7

----------------------------------------------------------------------------
\* The types of the VWAP strategy, which orders one share at a time.
VwapTypes ==
  strategy = "vwap" =>
    /\ LotTypes(TwoSymbols, {1})
    /\ cumulative_pv \in Nat /\ cumulative_v \in 0 .. MaxVolume
    /\ bought \subseteq TwoSymbols

LEMMA VwapTypesStep ==
  ASSUME Amounts, VwapTypes, [Strategies!Next]_(Strategies!vars)
  PROVE  VwapTypes'
<1> SUFFICES ASSUME strategy' = "vwap", strategy = "vwap",
                    Strategies!Vwap!Next \/ UNCHANGED Strategies!vars
             PROVE  VwapTypes'
  BY DEF Strategies!Next, Strategies!vars, VwapTypes
<1>1. /\ LotTypes(TwoSymbols, {1}) /\ cumulative_pv \in Nat
      /\ cumulative_v \in 0 .. MaxVolume /\ bought \subseteq TwoSymbols
  BY DEF VwapTypes
<1>2. CASE UNCHANGED Strategies!vars
  BY <1>1, <1>2 DEF Strategies!vars, Strategies!lotVars, Strategies!vwapVars, LotTypes, VwapTypes
<1>3. CASE Strategies!Vwap!Next
  <2>1. LotTypes(TwoSymbols, {1})'
    BY <1>1, <1>3, VwapMoves, LotTypesKept
  <2>2. /\ VwapPrices \subseteq Nat /\ VwapVolumes \subseteq Nat /\ MaxVolume \in Nat
    BY DEF Amounts, Strategies!Vwap!VolumesAssumption
  <2>3. cumulative_pv' \in Nat /\ cumulative_v' \in 0 .. MaxVolume /\ bought' \subseteq TwoSymbols
    <3>1. CASE Strategies!Vwap!Tick
      <4>1. PICK price \in VwapPrices, volume \in VwapVolumes : Strategies!Vwap!Update(price, volume)
        BY <3>1 DEF Strategies!Vwap!Tick
      <4>2. price \in Nat /\ volume \in Nat /\ price * volume \in Nat
        <5>1. \A x, y \in Nat : x * y \in Nat
          OBVIOUS
        <5>2. QED
          BY <2>2, <5>1
      <4>3. cumulative_pv' \in Nat /\ cumulative_v' \in 0 .. MaxVolume
        BY <1>1, <2>2, <4>1, <4>2 DEF Strategies!Vwap!Update
      <4>4. QED
        BY <1>1, <3>1, <4>3 DEF Strategies!Vwap!Tick
    <3>2. CASE Strategies!Vwap!ResetVwap
      BY <1>1, <2>2, <3>2 DEF Strategies!Vwap!ResetVwap
    <3>3. CASE Strategies!Vwap!OnOrderFilled
      <4>1. Head(outstanding) \in Orders(TwoSymbols, {1})
        BY <1>1, <3>3 DEF Strategies!Vwap!OnOrderFilled, Strategies!Vwap!Filled, LotTypes
      <4>2. Head(outstanding).symbol \in TwoSymbols
        BY <4>1 DEF Orders
      <4>3. QED
        BY <1>1, <3>3, <4>2 DEF Strategies!Vwap!OnOrderFilled, Strategies!Vwap!Oldest
    <3>4. CASE Strategies!Vwap!OnOrderRejected
      BY <1>1, <3>4 DEF Strategies!Vwap!OnOrderRejected
    <3>5. QED
      BY <1>3, <3>1, <3>2, <3>3, <3>4 DEF Strategies!Vwap!Next
  <2>4. QED
    BY <2>1, <2>3 DEF VwapTypes
<1>4. QED
  BY <1>2, <1>3

LEMMA VwapTypesMean ==
  ASSUME VwapTypes
  PROVE  strategy = "vwap" => Strategies!Vwap!TypeOK
<1> SUFFICES ASSUME strategy = "vwap" PROVE Strategies!Vwap!TypeOK
  OBVIOUS
<1>1. LotTypes(TwoSymbols, Nat)
  BY LotTypesWiden DEF VwapTypes
<1>2. Strategies!Vwap!LotTypeOK
  BY <1>1 DEF Strategies!Vwap!LotTypeOK, Strategies!Vwap!OrderType, LotTypes, Orders
<1>3. QED
  BY <1>2 DEF VwapTypes, Strategies!Vwap!TypeOK

----------------------------------------------------------------------------
(***************************************************************************)
(* The enhanced strategy: a round trip leaves at most the difference of    *)
(* two sizes behind, and no buy is for more than a quarter of the capital. *)
(***************************************************************************)
Least == Strategies!Enhanced!SmallestSize
Most == Strategies!Enhanced!LargestSize
Sizes == Least .. Most

LEMMA SizeLimits ==
  ASSUME Amounts
  PROVE  /\ Least \in Nat /\ Most \in Nat /\ Least <= HalfSize /\ Most = 3 * HalfSize
         /\ \A p \in EnhancedPrices : Least <= Capital \div (4 * p)
         /\ Sizes \in SUBSET Nat
<1> DEFINE S == {HalfSize} \cup {Capital \div (4 * p) : p \in EnhancedPrices}
<1>1. HalfSize \in Nat /\ Capital \in Nat /\ \A p \in EnhancedPrices : p \in Nat \ {0}
  BY DEF Amounts, Strategies!Enhanced!AmountsAssumption
<1>2. \A p \in EnhancedPrices : Capital \div (4 * p) \in Nat
  <2>1. \A p \in EnhancedPrices : 4 * p \in Nat \ {0}
    BY <1>1
  <2>2. QED
    BY <1>1, <2>1, DivisionBounds
<1>3. S \in SUBSET Nat /\ S # {} /\ HalfSize \in S
      /\ \A p \in EnhancedPrices : Capital \div (4 * p) \in S
  BY <1>1, <1>2
<1>4. Least = CHOOSE x \in S : \A y \in S : x <= y
  BY DEF Least, Strategies!Enhanced!SmallestSize, Strategies!Enhanced!Min
<1> HIDE DEF S
<1>5. Least \in S /\ \A y \in S : Least <= y
  <2>1. \E x \in S : \A y \in S : x <= y
    BY <1>3, LeastNatural
  <2>2. QED
    BY <1>4, <2>1
<1>6. Most = 3 * HalfSize
  BY DEF Most, Strategies!Enhanced!LargestSize, Strategies!Enhanced!MaxMultiplier
<1>7. Least \in Nat /\ Least <= HalfSize /\ Most \in Nat
  BY <1>1, <1>3, <1>5, <1>6
<1>8. \A p \in EnhancedPrices : Least <= Capital \div (4 * p)
  BY <1>3, <1>5
<1>9. Sizes \in SUBSET Nat
  <2>1. PICK l \in Nat, m \in Nat : l = Least /\ m = Most
    BY <1>7
  <2>2. l .. m \in SUBSET Nat
    OBVIOUS
  <2>3. QED
    BY <2>1, <2>2 DEF Sizes
<1>10. QED
  BY <1>6, <1>7, <1>8, <1>9

\* Less for the same price costs less.
LEMMA LessCostsLess ==
  ASSUME NEW price \in Nat, NEW low \in Nat, NEW high \in Nat, low <= high
  PROVE  4 * price * low \in Nat /\ 4 * price * low <= 4 * price * high
<1>1. PICK more \in Nat : high = low + more
  <2>1. high - low \in Nat /\ high = low + (high - low)
    OBVIOUS
  <2>2. QED
    BY <2>1
<1>2. /\ (low + more) * price = low * price + more * price
      /\ low * price \in Nat /\ more * price \in Nat
  BY Distributes
<1>3. 4 * price * low = 4 * (low * price) /\ 4 * price * high = 4 * (high * price)
  OBVIOUS
<1>4. QED
  BY <1>1, <1>2, <1>3

\* The regime's multiplier is one of four, and not none unless trading halts.
LEMMA FinalSizes ==
  ASSUME Amounts, kelly_returns \in Seq(Int), NEW price \in EnhancedPrices,
         NEW can_trade, ~Strategies!Enhanced!Halted(can_trade)
  PROVE  /\ Strategies!Enhanced!FinalSize(price) \in Sizes
         /\ 4 * price * Strategies!Enhanced!FinalSize(price) <= Capital
<1> DEFINE multiplier == Strategies!Enhanced!Sizing!Multiplier(returns', volumes')
           kelly == Strategies!Enhanced!Sizing!CalculatePositionSize(kelly_returns, Capital, price)
           regime == HalfSize * multiplier
<1>1. multiplier \in {1, 2, 3}
  <2>1. multiplier \in {0, 1, 2, 3}
    BY DEF Strategies!Enhanced!Sizing!Multiplier
  <2>2. multiplier # 0
    BY DEF Strategies!Enhanced!Halted
  <2> HIDE DEF multiplier
  <2>3. QED
    BY <2>1, <2>2
<1>2. kelly = Capital \div (4 * price) /\ kelly \in Nat /\ 4 * price * kelly <= Capital
  BY SizeIsQuarter
<1>3. Strategies!Enhanced!FinalSize(price) = IF regime < kelly THEN regime ELSE kelly
  BY DEF Strategies!Enhanced!FinalSize
<1>4. price \in Nat /\ Capital \in Nat /\ HalfSize \in Nat
  BY DEF Amounts, Strategies!Enhanced!AmountsAssumption
<1>5. /\ Least \in Nat /\ Most = 3 * HalfSize /\ Least <= HalfSize
      /\ Least <= Capital \div (4 * price)
  BY SizeLimits
<1> HIDE DEF kelly, multiplier
<1>6. regime \in Nat /\ HalfSize <= regime /\ regime <= 3 * HalfSize
  <2>1. regime \in {HalfSize, 2 * HalfSize, 3 * HalfSize}
    BY <1>1, <1>4
  <2>2. QED
    BY <1>4, <2>1
<1> HIDE DEF regime
<1>7. PICK k, m \in Nat : k = kelly /\ m = Most
  BY <1>2, <1>4, <1>5
<1>8. CASE regime < kelly
  <2>1. 4 * price * regime \in Nat /\ 4 * price * regime <= 4 * price * k
    BY <1>4, <1>6, <1>7, <1>8, LessCostsLess
  <2>2. 4 * price * k \in Nat
    BY <1>4, <1>7
  <2>3. 4 * price * regime <= Capital
    BY <1>2, <1>4, <1>7, <2>1, <2>2
  <2>4. regime \in Least .. Most
    BY <1>4, <1>5, <1>6, <1>7
  <2>5. QED
    BY <1>3, <1>8, <2>3, <2>4 DEF Sizes
<1>9. CASE ~(regime < kelly)
  <2>1. kelly \in Least .. Most
    BY <1>2, <1>4, <1>5, <1>6, <1>7, <1>9
  <2>2. QED
    BY <1>2, <1>3, <1>9, <2>1 DEF Sizes
<1>10. QED
  BY <1>8, <1>9

EnhancedTypes ==
  strategy = "enhanced" =>
    /\ LotTypes(OneSymbol, Sizes)
    /\ seen \in 0 .. Enough /\ last_price \in EnhancedPrices \cup {0}
    /\ returns \in Seq(Int) /\ Len(returns) <= KeepReturns
    /\ volumes \in Seq(EnhancedVolumes) /\ Len(volumes) = Len(returns)
    /\ kelly_returns \in Seq(Results) /\ Len(kelly_returns) <= KeepReturns
    /\ entry_price \in EnhancedPrices \cup {0} /\ closed \in Nat

\* add_return and add_data keep at most KeepReturns.
LEMMA KeepTypes ==
  ASSUME KeepReturns \in Nat \ {0}, NEW A, NEW h \in Seq(A), Len(h) <= KeepReturns, NEW x \in A
  PROVE  /\ Strategies!Enhanced!Sizing!Keep(h, x) \in Seq(A)
         /\ Len(Strategies!Enhanced!Sizing!Keep(h, x)) <= KeepReturns
         /\ Len(Strategies!Enhanced!Sizing!Keep(h, x)) =
              IF Len(h) < KeepReturns THEN Len(h) + 1 ELSE Len(h)
<1>1. CASE Len(h) < KeepReturns
  <2>1. Append(h, x) \in Seq(A) /\ Len(Append(h, x)) = Len(h) + 1 /\ Len(h) \in Nat
    OBVIOUS
  <2>2. QED
    BY <1>1, <2>1 DEF Strategies!Enhanced!Sizing!Keep
<1>2. CASE ~(Len(h) < KeepReturns)
  <2>1. Len(h) \in Nat /\ h # <<>>
    BY <1>2
  <2>2. Tail(h) \in Seq(A) /\ Len(Tail(h)) = Len(h) - 1
    BY <2>1
  <2>3. Append(Tail(h), x) \in Seq(A) /\ Len(Append(Tail(h), x)) = Len(h)
    BY <2>1, <2>2
  <2>4. QED
    BY <1>2, <2>3 DEF Strategies!Enhanced!Sizing!Keep
<1>3. QED
  BY <1>1, <1>2

LEMMA DataTyped ==
  ASSUME Amounts, EnhancedTypes, strategy = "enhanced",
         NEW price \in EnhancedPrices, NEW volume \in EnhancedVolumes,
         Strategies!Enhanced!AddData(price, volume)
  PROVE  /\ last_price' \in EnhancedPrices \cup {0}
         /\ returns' \in Seq(Int) /\ Len(returns') <= KeepReturns
         /\ volumes' \in Seq(EnhancedVolumes) /\ Len(volumes') = Len(returns')
<1>1. /\ KeepReturns \in Nat \ {0} /\ EnhancedPrices \subseteq Nat \ {0}
  BY DEF Amounts, Strategies!Enhanced!Sizing!ReturnsAssumption,
     Strategies!Enhanced!AmountsAssumption
<1>2. /\ last_price \in EnhancedPrices \cup {0}
      /\ returns \in Seq(Int) /\ Len(returns) <= KeepReturns
      /\ volumes \in Seq(EnhancedVolumes) /\ Len(volumes) = Len(returns)
  BY DEF EnhancedTypes
<1>3. last_price' = price
  BY DEF Strategies!Enhanced!AddData
<1>4. CASE last_price > 0
  <2> DEFINE change == ((price - last_price) * 1000) \div last_price
  <2>1. change \in Int
    <3>1. \A a \in Int, d \in Nat \ {0} : (a * 1000) \div d \in Int
      OBVIOUS
    <3>2. last_price \in Nat \ {0} /\ price - last_price \in Int
      BY <1>1, <1>2, <1>4
    <3>3. QED
      BY <3>1, <3>2
  <2>2. /\ returns' = Strategies!Enhanced!Sizing!Keep(returns, change)
        /\ volumes' = Strategies!Enhanced!Sizing!Keep(volumes, volume)
    BY <1>4 DEF Strategies!Enhanced!AddData
  <2> HIDE DEF change
  <2>3. /\ returns' \in Seq(Int) /\ Len(returns') <= KeepReturns
        /\ Len(returns') = IF Len(returns) < KeepReturns THEN Len(returns) + 1 ELSE Len(returns)
    BY <1>1, <1>2, <2>1, <2>2, KeepTypes
  <2>4. Len(volumes) <= KeepReturns
    BY <1>2
  <2>5. /\ volumes' \in Seq(EnhancedVolumes)
        /\ Len(volumes') = IF Len(volumes) < KeepReturns THEN Len(volumes) + 1 ELSE Len(volumes)
    BY <1>1, <1>2, <2>2, <2>4, KeepTypes
  <2>6. QED
    BY <1>2, <1>3, <2>3, <2>5
<1>5. CASE ~(last_price > 0)
  BY <1>2, <1>3, <1>5 DEF Strategies!Enhanced!AddData
<1>6. QED
  BY <1>4, <1>5

LEMMA EnhancedMovesTyped ==
  ASSUME Amounts, kelly_returns \in Seq(Int), Strategies!Enhanced!Next
  PROVE  LotMoveOf(OneSymbol, Sizes)
<1> USE DEF Lots!lotVars, Lots!worldVars,
      Strategies!Enhanced!lotVars, Strategies!Enhanced!worldVars, Strategies!Enhanced!Quiet
<1>1. ASSUME NEW s, NEW q, Strategies!Enhanced!Enter(s, q)
      PROVE  Lots!Enter(s, q)
  BY <1>1 DEF Lots!Enter, Strategies!Enhanced!Enter, Lots!Emit, Strategies!Enhanced!Emit
<1>2. ASSUME NEW s, NEW q, Strategies!Enhanced!Exit(s, q)
      PROVE  Lots!Exit(s, q)
  BY <1>2 DEF Lots!Exit, Strategies!Enhanced!Exit, Lots!Emit, Strategies!Enhanced!Emit
<1>3. CASE Strategies!Enhanced!UpdatePnl
  BY <1>3 DEF LotMoveOf, Strategies!Enhanced!UpdatePnl
<1>4. CASE Strategies!Enhanced!Tick
  <2>1. PICK price \in EnhancedPrices, can_trade \in BOOLEAN :
          IF Strategies!Enhanced!Halted(can_trade)
            THEN Strategies!Enhanced!Quiet
            ELSE \E s \in OneSymbol, overbought, buy_signal \in BOOLEAN :
                   Strategies!Enhanced!Decide(s, price, overbought, buy_signal)
    BY <1>4 DEF Strategies!Enhanced!Tick
  <2>2. CASE Strategies!Enhanced!Halted(can_trade)
    BY <2>1, <2>2 DEF LotMoveOf
  <2>3. CASE ~Strategies!Enhanced!Halted(can_trade)
    <3>0. PICK s \in OneSymbol, overbought \in BOOLEAN, buy_signal \in BOOLEAN :
            Strategies!Enhanced!Decide(s, price, overbought, buy_signal)
      BY <2>1, <2>3
    <3>1. Strategies!Enhanced!FinalSize(price) \in Sizes
      BY <2>3, FinalSizes
    <3>2. \/ Strategies!Enhanced!Exit(s, Strategies!Enhanced!FinalSize(price))
          \/ Strategies!Enhanced!Enter(s, Strategies!Enhanced!FinalSize(price))
          \/ Strategies!Enhanced!Quiet
      BY <3>0 DEF Strategies!Enhanced!Decide
    <3>3. QED
      BY <1>1, <1>2, <3>1, <3>2 DEF LotMoveOf
  <2>4. QED
    BY <2>2, <2>3
<1>5. CASE Strategies!Enhanced!OnOrderFilled \/ Strategies!Enhanced!OnOrderRejected
  <2>1. Lots!Oldest = Strategies!Enhanced!Oldest
    BY DEF Lots!Oldest, Strategies!Enhanced!Oldest
  <2>2. QED
    BY <1>5, <2>1
    DEF LotMoveOf, Strategies!Enhanced!OnOrderFilled, Lots!Filled, Strategies!Enhanced!Filled,
        Lots!SellFillClears, Strategies!Enhanced!SellFillClears, Lots!Fillable,
        Strategies!Enhanced!Fillable, Lots!UpdatePosition, Strategies!Enhanced!UpdatePosition,
        Strategies!Enhanced!OnOrderRejected, Lots!Rejected, Strategies!Enhanced!Rejected,
        Lots!RejectClears, Strategies!Enhanced!RejectClears
<1>6. QED
  BY <1>3, <1>4, <1>5 DEF Strategies!Enhanced!Next

LEMMA ResultsAreInt ==
  ASSUME Amounts, kelly_returns \in Seq(Results)
  PROVE  kelly_returns \in Seq(Int)
<1>1. Results \subseteq Int
  BY DEF Amounts, Strategies!Enhanced!AmountsAssumption
<1>2. /\ Len(kelly_returns) \in Nat /\ DOMAIN kelly_returns = 1 .. Len(kelly_returns)
      /\ \A n \in 1 .. Len(kelly_returns) : kelly_returns[n] \in Results
      /\ kelly_returns = [n \in 1 .. Len(kelly_returns) |-> kelly_returns[n]]
  OBVIOUS
<1>3. kelly_returns \in [1 .. Len(kelly_returns) -> Int]
  BY <1>1, <1>2
<1>4. QED
  BY <1>2, <1>3, SeqDef

LEMMA EnhancedTypesStep ==
  ASSUME Amounts, EnhancedTypes, [Strategies!Next]_(Strategies!vars)
  PROVE  EnhancedTypes'
<1> SUFFICES ASSUME strategy' = "enhanced", strategy = "enhanced",
                    Strategies!Enhanced!Next \/ UNCHANGED Strategies!vars
             PROVE  EnhancedTypes'
  BY DEF Strategies!Next, Strategies!vars, EnhancedTypes
<1>1. /\ LotTypes(OneSymbol, Sizes)
      /\ seen \in 0 .. Enough /\ last_price \in EnhancedPrices \cup {0}
      /\ returns \in Seq(Int) /\ Len(returns) <= KeepReturns
      /\ volumes \in Seq(EnhancedVolumes) /\ Len(volumes) = Len(returns)
      /\ kelly_returns \in Seq(Results) /\ Len(kelly_returns) <= KeepReturns
      /\ entry_price \in EnhancedPrices \cup {0} /\ closed \in Nat
  BY DEF EnhancedTypes
<1>2. CASE UNCHANGED Strategies!vars
  BY <1>1, <1>2 DEF Strategies!vars, Strategies!lotVars, Strategies!enhancedVars, LotTypes,
     EnhancedTypes
<1>3. ASSUME Strategies!Enhanced!Next PROVE LotTypes(OneSymbol, Sizes)'
  <2>1. LotMoveOf(OneSymbol, Sizes)
    BY <1>1, <1>3, ResultsAreInt, EnhancedMovesTyped
  <2>2. Sizes \in SUBSET Nat
    BY SizeLimits
  <2>3. QED
    BY <1>1, <2>1, <2>2, LotTypesKept
<1>4. CASE Strategies!Enhanced!Tick
  <2>1. PICK price \in EnhancedPrices, volume \in EnhancedVolumes, can_trade \in BOOLEAN :
          /\ Strategies!Enhanced!AddData(price, volume)
          /\ seen' = IF seen < Enough THEN seen + 1 ELSE seen
          /\ IF Strategies!Enhanced!Halted(can_trade)
               THEN Strategies!Enhanced!Quiet /\ UNCHANGED entry_price
               ELSE \E s \in OneSymbol, overbought, buy_signal \in BOOLEAN :
                      Strategies!Enhanced!Decide(s, price, overbought, buy_signal)
    BY <1>4 DEF Strategies!Enhanced!Tick
  <2>2. entry_price' \in {price, entry_price}
    BY <2>1 DEF Strategies!Enhanced!Decide
  <2>3. seen' \in 0 .. Enough
    <3>1. Enough \in Nat
      BY DEF Amounts, Strategies!Enhanced!AmountsAssumption
    <3>2. QED
      BY <1>1, <2>1, <3>1
  <2>4. /\ last_price' \in EnhancedPrices \cup {0}
        /\ returns' \in Seq(Int) /\ Len(returns') <= KeepReturns
        /\ volumes' \in Seq(EnhancedVolumes) /\ Len(volumes') = Len(returns')
    BY <2>1, DataTyped
  <2>5. UNCHANGED <<kelly_returns, closed>>
    BY <1>4 DEF Strategies!Enhanced!Tick
  <2>6. LotTypes(OneSymbol, Sizes)'
    BY <1>3, <1>4 DEF Strategies!Enhanced!Next
  <2>7. QED
    BY <1>1, <2>2, <2>3, <2>4, <2>5, <2>6 DEF EnhancedTypes
<1>5. CASE Strategies!Enhanced!OnOrderFilled \/ Strategies!Enhanced!OnOrderRejected
  <2>1. /\ UNCHANGED <<seen, last_price, returns, volumes, kelly_returns>>
        /\ entry_price' \in {0, entry_price} /\ closed' \in {closed, closed + 1}
    BY <1>5 DEF Strategies!Enhanced!OnOrderFilled, Strategies!Enhanced!OnOrderRejected
  <2>2. LotTypes(OneSymbol, Sizes)'
    BY <1>3, <1>5 DEF Strategies!Enhanced!Next
  <2>3. closed' \in Nat
    BY <1>1, <2>1
  <2>4. QED
    BY <1>1, <2>1, <2>2, <2>3 DEF EnhancedTypes
<1>6. CASE Strategies!Enhanced!UpdatePnl
  <2>1. PICK result \in Results :
          kelly_returns' = Strategies!Enhanced!Sizing!Keep(kelly_returns, result)
    BY <1>6 DEF Strategies!Enhanced!UpdatePnl
  <2>2. KeepReturns \in Nat \ {0}
    BY DEF Amounts, Strategies!Enhanced!Sizing!ReturnsAssumption
  <2>3. kelly_returns' \in Seq(Results) /\ Len(kelly_returns') <= KeepReturns
    BY <1>1, <2>1, <2>2, KeepTypes
  <2>4. LotTypes(OneSymbol, Sizes)'
    BY <1>3, <1>6 DEF Strategies!Enhanced!Next
  <2>5. UNCHANGED <<seen, last_price, returns, volumes, entry_price, closed>>
    BY <1>6 DEF Strategies!Enhanced!UpdatePnl
  <2>6. QED
    BY <1>1, <2>3, <2>4, <2>5 DEF EnhancedTypes
<1>7. QED
  BY <1>2, <1>4, <1>5, <1>6 DEF Strategies!Enhanced!Next

LEMMA EnhancedTypesMean ==
  ASSUME Amounts, EnhancedTypes
  PROVE  strategy = "enhanced" => Strategies!Enhanced!TypeOK
<1> SUFFICES ASSUME strategy = "enhanced" PROVE Strategies!Enhanced!TypeOK
  OBVIOUS
<1>1. LotTypes(OneSymbol, Nat)
  <2>1. Sizes \in SUBSET Nat
    BY SizeLimits
  <2>2. QED
    BY <2>1, LotTypesWiden DEF EnhancedTypes
<1>2. Strategies!Enhanced!LotTypeOK
  BY <1>1 DEF Strategies!Enhanced!LotTypeOK, Strategies!Enhanced!OrderType, LotTypes, Orders
<1>3. QED
  BY <1>2 DEF EnhancedTypes, Strategies!Enhanced!TypeOK

----------------------------------------------------------------------------
\* No buy for more than a quarter of the capital at the price it was decided
\* at, and what is held beyond the lot is what round trips left behind.
Affordable ==
  \A n \in DOMAIN outstanding :
    outstanding[n].is_buy => 4 * entry_price * outstanding[n].quantity <= Capital

Held == SumOver(holding, OneSymbol)
Allowed(trips) == trips * (Most - Least)
Left == Held <= Allowed(closed) + (IF lot = "held" THEN Most ELSE 0)

SizeInv == strategy = "enhanced" => Affordable /\ Left

\* What is held changes by the order's quantity.
HeldMoves(change) == Held \in Nat /\ Held' = Held + change

LEMMA HoldingMoves ==
  ASSUME IsFiniteSet(OneSymbol), holding \in [OneSymbol -> Nat],
         NEW s \in OneSymbol, NEW d \in Int, holding[s] + d \in Nat,
         holding' = [holding EXCEPT ![s] = holding[s] + d]
  PROVE  HeldMoves(d)
<1>1. PICK after : after = holding'
  OBVIOUS
<1>2. /\ after \in [OneSymbol -> Nat] /\ after[s] = holding[s] + d
      /\ \A x \in OneSymbol : x # s => after[x] = holding[x]
  BY <1>1
<1>3. /\ Ints(holding, OneSymbol) /\ Nats(holding, OneSymbol) /\ Ints(after, OneSymbol)
  <2>1. \A x \in OneSymbol : holding[x] \in Nat /\ after[x] \in Nat
    BY <1>2
  <2>2. QED
    BY <2>1 DEF Ints, Nats
<1>4. SumMoves(holding, after, OneSymbol, s)
  BY <1>2, <1>3, SumReplaces
<1>5. SumOver(holding, OneSymbol) \in Nat
  BY <1>3, SumNat
<1>6. PICK h, k, b \in Int : h = SumOver(holding, OneSymbol) /\ k = SumOver(after, OneSymbol)
                             /\ b = holding[s]
  <2>1. SumOver(after, OneSymbol) \in Int
    BY <1>3, SumFacts
  <2>2. QED
    BY <1>3, <1>5, <2>1 DEF Ints
<1>7. k = (h - b) + (b + d)
  BY <1>2, <1>4, <1>6 DEF SumMoves
<1>8. k = h + d
  BY <1>7
<1>9. Held' = k
  BY <1>1, <1>6 DEF Held
<1>10. QED
  BY <1>5, <1>6, <1>8, <1>9 DEF HeldMoves, Held

\* What remains outstanding was outstanding.
LEMMA RestOutstanding ==
  ASSUME NEW A, outstanding \in Seq(A), outstanding # <<>>, outstanding' = Tail(outstanding)
  PROVE  \A n \in DOMAIN outstanding' :
           n + 1 \in DOMAIN outstanding /\ outstanding'[n] = outstanding[n + 1]
  OBVIOUS

\* An order emitted is the last.
LEMMA LastOutstanding ==
  ASSUME NEW A, outstanding \in Seq(A), NEW o \in A, outstanding' = Append(outstanding, o)
  PROVE  \A n \in DOMAIN outstanding' :
           \/ n \in DOMAIN outstanding /\ outstanding'[n] = outstanding[n]
           \/ outstanding'[n] = o
  OBVIOUS

\* What generate_signal decides, once it does not give up before.
LEMMA SizeDecided ==
  ASSUME Amounts, EnhancedTypes, strategy = "enhanced", LotMachineInv, Affordable, Left,
         NEW s \in OneSymbol, NEW price \in EnhancedPrices, NEW can_trade \in BOOLEAN,
         NEW overbought \in BOOLEAN, NEW buy_signal \in BOOLEAN,
         ~Strategies!Enhanced!Halted(can_trade),
         Strategies!Enhanced!Decide(s, price, overbought, buy_signal), closed' = closed
  PROVE  Affordable' /\ Left'
<1>1. /\ outstanding \in Seq(Orders(OneSymbol, Sizes)) /\ kelly_returns \in Seq(Int)
      /\ closed \in Nat
  BY ResultsAreInt DEF EnhancedTypes, LotTypes
<1>3. closed' = closed
  OBVIOUS
<1>4. CASE Strategies!Enhanced!Quiet /\ UNCHANGED entry_price
  BY <1>3, <1>4 DEF Strategies!Enhanced!Quiet, Strategies!Enhanced!lotVars,
     Strategies!Enhanced!worldVars, Affordable, Left, Held
<1> DEFINE q == Strategies!Enhanced!FinalSize(price)
<1>5. q \in Sizes /\ 4 * price * q <= Capital
  BY <1>1, FinalSizes
<1>6. CASE Strategies!Enhanced!Exit(s, q) /\ UNCHANGED entry_price
  <2> DEFINE o == [symbol |-> s, is_buy |-> FALSE, quantity |-> q]
  <2>1. outstanding' = Append(outstanding, o) /\ UNCHANGED <<holding, lot, entry_price>>
    BY <1>6 DEF Strategies!Enhanced!Exit, Strategies!Enhanced!Emit, Strategies!Enhanced!worldVars
  <2>2. o \in Orders(OneSymbol, Sizes) /\ o.is_buy = FALSE
    BY <1>5, <1>6 DEF Orders
  <2> HIDE DEF o
  <2>3. Affordable'
    <3>1. \A n \in DOMAIN outstanding' :
            \/ n \in DOMAIN outstanding /\ outstanding'[n] = outstanding[n]
            \/ outstanding'[n] = o
      BY <1>1, <2>1, <2>2, LastOutstanding
    <3>2. QED
      BY <2>1, <2>2, <3>1 DEF Affordable
  <2>4. Left'
    BY <1>3, <2>1 DEF Left, Held
  <2>5. QED
    BY <2>3, <2>4
<1>7. CASE Strategies!Enhanced!Enter(s, q) /\ entry_price' = price
  <2> DEFINE o == [symbol |-> s, is_buy |-> TRUE, quantity |-> q]
  <2>1. /\ outstanding' = Append(outstanding, o) /\ ~in_position /\ ~pending_exit
        /\ UNCHANGED holding /\ lot' = "ordered"
    BY <1>7 DEF Strategies!Enhanced!Enter, Strategies!Enhanced!Emit
  <2>2. o.quantity = q
    OBVIOUS
  <2> HIDE DEF o, q
  <2>3. outstanding = <<>> /\ lot = "none"
    <3>1. ~in_position /\ ~pending_exit
      BY <2>1
    <3>2. NoOrder /\ lot = "none"
      BY <3>1 DEF LotMachineInv, BuyOrdered, SellOrdered, BothOrdered
    <3>3. QED
      BY <3>2 DEF NoOrder
  <2>4. outstanding' = <<o>>
    BY <2>1, <2>3, ShortQueues
  <2>5. \A n \in DOMAIN outstanding' : outstanding'[n] = o
    BY <2>4
  <2>6. Affordable'
    BY <1>5, <1>7, <2>2, <2>5 DEF Affordable
  <2>7. Left'
    BY <1>3, <2>1, <2>3 DEF Left, Held
  <2>8. QED
    BY <2>6, <2>7
<1>8. QED
  BY <1>4, <1>6, <1>7 DEF Strategies!Enhanced!Decide

LEMMA SizeTick ==
  ASSUME Amounts, EnhancedTypes, strategy = "enhanced", LotMachineInv, Affordable, Left,
         Strategies!Enhanced!Tick
  PROVE  Affordable' /\ Left'
<1>1. \/ Strategies!Enhanced!Quiet /\ UNCHANGED entry_price
      \/ \E s \in OneSymbol, price \in EnhancedPrices, can_trade \in BOOLEAN,
            overbought, buy_signal \in BOOLEAN :
           /\ ~Strategies!Enhanced!Halted(can_trade)
           /\ Strategies!Enhanced!Decide(s, price, overbought, buy_signal)
  BY DEF Strategies!Enhanced!Tick
<1>2. closed' = closed
  BY DEF Strategies!Enhanced!Tick
<1>3. CASE Strategies!Enhanced!Quiet /\ UNCHANGED entry_price
  BY <1>2, <1>3 DEF Strategies!Enhanced!Quiet, Strategies!Enhanced!lotVars,
     Strategies!Enhanced!worldVars, Affordable, Left, Held
<1>4. QED
  BY <1>1, <1>2, <1>3, SizeDecided

\* Every round trip allows for one difference of sizes more.
LEMMA AllowedGrows ==
  ASSUME Amounts, NEW trips \in Nat
  PROVE  Allowed(trips) \in Nat /\ Allowed(trips + 1) = Allowed(trips) + (Most - Least)
<1>1. PICK gap \in Nat : gap = Most - Least
  <2>1. PICK l \in Nat, m \in Nat, half \in Nat :
          l = Least /\ m = Most /\ l <= half /\ m = 3 * half
    <3>1. HalfSize \in Nat
      BY DEF Amounts, Strategies!Enhanced!AmountsAssumption
    <3>2. /\ Least \in Nat /\ Most \in Nat /\ Least <= HalfSize /\ Most = 3 * HalfSize
      BY SizeLimits
    <3>3. QED
      BY <3>1, <3>2
  <2>2. m - l \in Nat
    BY <2>1
  <2>3. QED
    BY <2>1, <2>2
<1>2. (trips + 1) * gap = trips * gap + 1 * gap /\ trips * gap \in Nat
  BY Distributes
<1>3. QED
  BY <1>1, <1>2 DEF Allowed

\* The sizes are the constants'.
LEMMA LimitsConstant == Least' = Least /\ Most' = Most
  BY DEF Least, Most, Strategies!Enhanced!SmallestSize, Strategies!Enhanced!LargestSize,
     Strategies!Enhanced!MaxMultiplier, Strategies!Enhanced!Min

LEMMA SizeFilled ==
  ASSUME Amounts, EnhancedTypes, strategy = "enhanced", LotMachineInv, Affordable, Left,
         Strategies!Enhanced!OnOrderFilled
  PROVE  Affordable' /\ Left'
<1> DEFINE o == Lots!Oldest
<1>1. /\ outstanding \in Seq(Orders(OneSymbol, Sizes)) /\ closed \in Nat
      /\ holding \in [OneSymbol -> Nat] /\ IsFiniteSet(OneSymbol) /\ Capital \in Nat
  BY DEF EnhancedTypes, LotTypes, Amounts, Strategies!Enhanced!AmountsAssumption,
     Strategies!Enhanced!IsFiniteSet, IsFiniteSet
<1>2. /\ outstanding # <<>> /\ outstanding' = Tail(outstanding)
      /\ o.is_buy \/ holding[o.symbol] >= o.quantity
      /\ holding' = [holding EXCEPT ![o.symbol] =
                       IF o.is_buy THEN holding[o.symbol] + o.quantity
                                   ELSE holding[o.symbol] - o.quantity]
      /\ lot' = (IF o.is_buy THEN "held" ELSE "none")
      /\ entry_price' = (IF o.is_buy THEN entry_price ELSE 0)
      /\ closed' = (IF o.is_buy THEN closed ELSE closed + 1)
  BY DEF Strategies!Enhanced!OnOrderFilled, Strategies!Enhanced!Filled,
     Strategies!Enhanced!Oldest, Lots!Oldest, Strategies!Enhanced!Fillable
<1>3. /\ o.symbol \in OneSymbol /\ o.is_buy \in BOOLEAN /\ o.quantity \in Sizes
      /\ \A n \in DOMAIN outstanding' :
           /\ n + 1 \in DOMAIN outstanding /\ outstanding'[n] = outstanding[n + 1]
           /\ outstanding'[n].quantity \in Sizes
  <2>1. o \in Orders(OneSymbol, Sizes)
    BY <1>1, <1>2 DEF Lots!Oldest
  <2>2. \A n \in DOMAIN outstanding : outstanding[n] \in Orders(OneSymbol, Sizes)
    BY <1>1
  <2>3. \A x \in Orders(OneSymbol, Sizes) :
          x.symbol \in OneSymbol /\ x.is_buy \in BOOLEAN /\ x.quantity \in Sizes
    BY DEF Orders
  <2>4. \A n \in DOMAIN outstanding' :
           n + 1 \in DOMAIN outstanding /\ outstanding'[n] = outstanding[n + 1]
    BY <1>1, <1>2, RestOutstanding
  <2> HIDE DEF o
  <2>5. QED
    BY <2>1, <2>2, <2>3, <2>4
<1>4. o.is_buy => lot = "ordered"
  BY <1>2, <1>3, OldestBuy
<1> HIDE DEF o
<1>8. /\ Allowed(closed) \in Nat /\ Allowed(closed + 1) = Allowed(closed) + (Most - Least)
      /\ Most \in Nat /\ Least \in Nat
      /\ o.quantity \in Nat /\ Least <= o.quantity /\ o.quantity <= Most
  <2>1. Allowed(closed) \in Nat /\ Allowed(closed + 1) = Allowed(closed) + (Most - Least)
    BY <1>1, AllowedGrows
  <2>2. Most \in Nat /\ Least \in Nat
    BY SizeLimits
  <2>3. PICK l \in Nat, m \in Nat : l = Least /\ m = Most /\ o.quantity \in l .. m
    BY <1>3, <2>2 DEF Sizes
  <2>4. o.quantity \in Nat /\ l <= o.quantity /\ o.quantity <= m
    BY <2>3
  <2>5. QED
    BY <2>1, <2>2, <2>3, <2>4
<1>5. CASE o.is_buy
  <2>1. holding[o.symbol] + o.quantity \in Nat /\ o.quantity \in Int
    BY <1>1, <1>3, SizeLimits
  <2>2. holding' = [holding EXCEPT ![o.symbol] = holding[o.symbol] + o.quantity]
    BY <1>2, <1>5
  <2>3. HeldMoves(o.quantity)
    BY <1>1, <1>3, <2>1, <2>2, HoldingMoves
  <2>4. Left'
    <3>1. PICK h \in Nat, a \in Nat, m \in Nat, q \in Nat :
            h = Held /\ a = Allowed(closed) /\ m = Most /\ q = o.quantity /\ q <= m
      BY <1>8, <2>3, Zenon DEF HeldMoves
    <3>2. h <= a
      BY <1>4, <1>5, <3>1 DEF Left
    <3>3. Held' = h + q /\ closed' = closed /\ lot' = "held"
      BY <1>2, <1>5, <2>3, <3>1 DEF HeldMoves
    <3>4. h + q <= a + m
      BY <3>1, <3>2
    <3>5. Allowed(closed)' = a /\ Most' = m
      BY <3>1, <3>3, LimitsConstant DEF Allowed
    <3>6. QED
      BY <3>3, <3>4, <3>5 DEF Left
  <2>5. Affordable'
    BY <1>2, <1>3, <1>5 DEF Affordable
  <2>6. QED
    BY <2>4, <2>5
<1>6. CASE ~o.is_buy
  <2>1. holding[o.symbol] + (-o.quantity) \in Nat /\ -o.quantity \in Int
    BY <1>1, <1>2, <1>3, <1>6, SizeLimits
  <2>2. holding' = [holding EXCEPT ![o.symbol] = holding[o.symbol] + (-o.quantity)]
    <3>1. holding[o.symbol] - o.quantity = holding[o.symbol] + (-o.quantity)
      BY <1>1, <1>3, SizeLimits
    <3>2. QED
      BY <1>2, <1>6, <3>1
  <2>3. HeldMoves(-o.quantity)
    BY <1>1, <1>3, <2>1, <2>2, HoldingMoves
  <2>4. Left'
    <3>1. PICK h \in Nat, a \in Nat, m \in Nat, l \in Nat, q \in Nat :
            /\ h = Held /\ a = Allowed(closed) /\ m = Most /\ l = Least
            /\ q = o.quantity /\ l <= q /\ Allowed(closed + 1) = a + (m - l)
      BY <1>8, <2>3, Zenon DEF HeldMoves
    <3>2. h <= a + m
      BY <3>1 DEF Left
    <3>3. Held' = h + (-q) /\ closed' = closed + 1 /\ lot' = "none"
      BY <1>2, <1>6, <2>3, <3>1 DEF HeldMoves
    <3>4. h + (-q) <= a + (m - l)
      BY <3>1, <3>2
    <3>5. Allowed(closed)' = a + (m - l) /\ a + (m - l) \in Int
      BY <3>1, <3>3, LimitsConstant DEF Allowed
    <3>6. QED
      BY <3>3, <3>4, <3>5 DEF Left
  <2>5. Affordable'
    <3>1. entry_price' = 0
      BY <1>2, <1>6
    <3>2. \A q \in Sizes : 4 * 0 * q <= Capital
      BY <1>1, SizeLimits
    <3>3. QED
      BY <1>3, <3>1, <3>2 DEF Affordable
  <2>6. QED
    BY <2>4, <2>5
<1>7. QED
  BY <1>5, <1>6

LEMMA SizeRejected ==
  ASSUME Amounts, EnhancedTypes, strategy = "enhanced", LotMachineInv, Affordable, Left,
         Strategies!Enhanced!OnOrderRejected
  PROVE  Affordable' /\ Left'
<1> DEFINE o == Lots!Oldest
<1>1. outstanding \in Seq(Orders(OneSymbol, Sizes)) /\ Capital \in Nat
  BY DEF EnhancedTypes, LotTypes, Amounts, Strategies!Enhanced!AmountsAssumption
<1>2. /\ outstanding # <<>> /\ outstanding' = Tail(outstanding)
      /\ lot' = (IF o.is_buy THEN "none" ELSE lot)
      /\ entry_price' = (IF o.is_buy THEN 0 ELSE entry_price)
      /\ UNCHANGED <<holding, closed>>
  BY DEF Strategies!Enhanced!OnOrderRejected, Strategies!Enhanced!Rejected,
     Strategies!Enhanced!Oldest, Lots!Oldest
<1>3. /\ o.is_buy \in BOOLEAN
      /\ \A n \in DOMAIN outstanding' :
           /\ n + 1 \in DOMAIN outstanding /\ outstanding'[n] = outstanding[n + 1]
           /\ outstanding'[n].quantity \in Sizes
  <2>1. o \in Orders(OneSymbol, Sizes)
    BY <1>1, <1>2 DEF Lots!Oldest
  <2>2. \A n \in DOMAIN outstanding : outstanding[n] \in Orders(OneSymbol, Sizes)
    BY <1>1
  <2>3. \A x \in Orders(OneSymbol, Sizes) : x.is_buy \in BOOLEAN /\ x.quantity \in Sizes
    BY DEF Orders
  <2>4. \A n \in DOMAIN outstanding' :
           n + 1 \in DOMAIN outstanding /\ outstanding'[n] = outstanding[n + 1]
    BY <1>1, <1>2, RestOutstanding
  <2> HIDE DEF o
  <2>5. QED
    BY <2>1, <2>2, <2>3, <2>4
<1>4. o.is_buy => lot = "ordered"
  BY <1>2, <1>3, OldestBuy
<1> HIDE DEF o
<1>5. Left'
  BY <1>2, <1>4 DEF Left, Held
<1>6. CASE o.is_buy
  <2>1. entry_price' = 0
    BY <1>2, <1>6
  <2>2. \A q \in Sizes : 4 * 0 * q <= Capital
    BY <1>1, SizeLimits
  <2>3. QED
    BY <1>3, <1>5, <2>1, <2>2 DEF Affordable
<1>7. CASE ~o.is_buy
  BY <1>2, <1>3, <1>5, <1>7 DEF Affordable
<1>8. QED
  BY <1>6, <1>7

LEMMA SizeStep ==
  ASSUME Amounts, EnhancedTypes, LotMachineInv, SizeInv, [Strategies!Next]_(Strategies!vars)
  PROVE  SizeInv'
<1> SUFFICES ASSUME strategy' = "enhanced", strategy = "enhanced", Affordable, Left,
                    Strategies!Enhanced!Next \/ UNCHANGED Strategies!vars
             PROVE  Affordable' /\ Left'
  BY DEF Strategies!Next, Strategies!vars, SizeInv
<1>1. CASE UNCHANGED Strategies!vars \/ Strategies!Enhanced!UpdatePnl
  BY <1>1 DEF Strategies!vars, Strategies!lotVars, Strategies!enhancedVars,
     Strategies!Enhanced!UpdatePnl, Strategies!Enhanced!lotVars, Strategies!Enhanced!worldVars,
     Affordable, Left, Held
<1>2. QED
  BY <1>1, SizeTick, SizeFilled, SizeRejected DEF Strategies!Enhanced!Next

----------------------------------------------------------------------------
LEMMA StrategiesStart ==
  ASSUME Amounts, Strategies!Init
  PROVE  VwapTypes /\ EnhancedTypes /\ SizeInv
<1>1. VwapTypes
  <2> SUFFICES ASSUME strategy = "vwap" PROVE VwapTypes
    BY DEF VwapTypes
  <2>1. Strategies!Vwap!Init
    BY DEF Strategies!Init
  <2>2. LotTypes(TwoSymbols, {1})
    BY <2>1, LotTypesInit DEF Strategies!Vwap!Init, Strategies!Vwap!LotInit
  <2>3. QED
    BY <2>1, <2>2 DEF Strategies!Vwap!Init, VwapTypes, Amounts, Strategies!Vwap!VolumesAssumption
<1>2. ASSUME strategy = "enhanced" PROVE EnhancedTypes /\ SizeInv
  <2>1. Strategies!Enhanced!Init
    BY <1>2 DEF Strategies!Init
  <2>2. /\ in_position = FALSE /\ pending_exit = FALSE /\ positions = [s \in OneSymbol |-> 0]
        /\ outstanding = <<>> /\ holding = [s \in OneSymbol |-> 0] /\ lot = "none"
        /\ entries = 0 /\ rejections = 0
        /\ seen = 0 /\ last_price = 0 /\ returns = <<>> /\ volumes = <<>>
        /\ kelly_returns = <<>> /\ entry_price = 0 /\ closed = 0
    BY <2>1 DEF Strategies!Enhanced!Init, Strategies!Enhanced!LotInit
  <2>3. LotTypes(OneSymbol, Sizes)
    BY <2>2, LotTypesInit
  <2>4. /\ IsFiniteSet(OneSymbol) /\ Enough \in Nat /\ KeepReturns \in Nat
    BY DEF Amounts, Strategies!Enhanced!AmountsAssumption, Strategies!Enhanced!IsFiniteSet,
       IsFiniteSet, Strategies!Enhanced!Sizing!ReturnsAssumption
  <2>5. EnhancedTypes
    BY <2>2, <2>3, <2>4 DEF EnhancedTypes
  <2>6. Held = 0
    <3>1. PICK none \in [OneSymbol -> {0}] : none = holding
      BY <2>2
    <3>2. ASSUME NEW t \in SUBSET OneSymbol, \A x \in t : t \ {x} \in {z \in SUBSET OneSymbol : SumOver(none, z) = 0}
          PROVE  SumOver(none, t) = 0
      <4>1. IsFiniteSet(t) /\ Ints(none, t)
        BY <2>4, FS_Subset DEF Ints
      <4>2. CASE t = {}
        BY <4>1, <4>2, SumFacts
      <4>3. CASE t # {}
        <5>1. PICK x \in t : TRUE
          BY <4>3
        <5>2. TakenOffSum(none, t, x) /\ SumOver(none, t \ {x}) = 0 /\ none[x] = 0
          BY <3>2, <4>1, SumFacts
        <5>3. QED
          BY <5>2 DEF TakenOffSum
      <4>4. QED
        BY <4>2, <4>3
    <3> DEFINE Good == {z \in SUBSET OneSymbol : SumOver(none, z) = 0}
    <3>3. {} \in Good
      BY <3>2
    <3>4. \A t \in SUBSET OneSymbol : (\A x \in t : t \ {x} \in Good) => t \in Good
      BY <3>2
    <3> HIDE DEF Good
    <3>5. \A t \in SUBSET OneSymbol : t \in Good
      BY <2>4, <3>3, <3>4, SubsetInduction
    <3>6. QED
      BY <3>1, <3>5 DEF Good, Held
  <2>7. SizeInv
    <3>1. Allowed(0) \in Nat
      BY AllowedGrows
    <3>2. Held <= Allowed(0)
      BY <2>6, <3>1
    <3>3. Affordable
      BY <2>2 DEF Affordable
    <3>4. Left
      <4>1. Allowed(closed) = Allowed(0) /\ lot # "held"
        BY <2>2
      <4>2. PICK a \in Nat : a = Allowed(closed) /\ Held <= a
        BY <3>1, <3>2, <4>1
      <4>3. a + 0 = a
        OBVIOUS
      <4>4. QED
        BY <4>1, <4>2, <4>3 DEF Left
    <3>5. QED
      BY <3>3, <3>4 DEF SizeInv
  <2>8. QED
    BY <2>5, <2>7
<1>3. QED
  BY <1>1, <1>2 DEF EnhancedTypes, SizeInv

LEMMA SizesInvariance ==
  Amounts => (Strategies!Spec => [](VwapTypes /\ EnhancedTypes /\ SizeInv))
<1> SUFFICES ASSUME Amounts
             PROVE  Strategies!Spec => [](VwapTypes /\ EnhancedTypes /\ SizeInv)
  OBVIOUS
<1>1. Strategies!Init => VwapTypes /\ EnhancedTypes /\ SizeInv
  BY StrategiesStart
<1>2. /\ VwapTypes /\ EnhancedTypes /\ SizeInv /\ LotMachineInv
      /\ [Strategies!Next]_(Strategies!vars)
      => VwapTypes' /\ EnhancedTypes' /\ SizeInv'
  BY VwapTypesStep, EnhancedTypesStep, SizeStep
<1>3. QED
  BY LotsInvariance, <1>1, <1>2, PTL DEF Strategies!Spec

\* enhanced_intraday.hpp sells a size computed when the exit is due: a round
\* trip may leave shares behind, at most the difference of the largest and
\* the smallest size for each; no buy is for more than a quarter of the
\* capital, whatever returns the sizer was given, and the returns decide no
\* size.
THEOREM SizesStayBounded == Amounts => (Strategies!Spec => []Strategies!SizesBounded)
<1> SUFFICES ASSUME Amounts PROVE Strategies!Spec => []Strategies!SizesBounded
  OBVIOUS
<1>1. ASSUME EnhancedTypes, SizeInv, strategy = "enhanced"
      PROVE  /\ Strategies!Enhanced!LeftoverBounded /\ Strategies!Enhanced!OrdersAffordable
             /\ Strategies!Enhanced!KellyNeverDecides
  <2>1. Strategies!Enhanced!Held = Held
    BY DEF Strategies!Enhanced!Held, Strategies!Enhanced!MapThenSumSet,
       Strategies!Enhanced!MapThenFoldSet, Held, SumOver, IsSum
  <2>2. Strategies!Enhanced!LeftoverBounded
    BY <1>1, <2>1 DEF Strategies!Enhanced!LeftoverBounded, SizeInv, Left, Allowed, Least, Most
  <2>3. ASSUME NEW n \in DOMAIN outstanding, outstanding[n].is_buy
        PROVE  4 * outstanding[n].quantity * entry_price <= Capital
    <3>1. outstanding[n] \in Orders(OneSymbol, Sizes)
      BY <1>1 DEF EnhancedTypes, LotTypes
    <3>2. outstanding[n].quantity \in Nat
      BY <3>1, SizeLimits DEF Orders
    <3>3. entry_price \in Nat
      <4>1. entry_price \in EnhancedPrices \cup {0}
        BY <1>1 DEF EnhancedTypes
      <4>2. EnhancedPrices \subseteq Nat
        BY DEF Amounts, Strategies!Enhanced!AmountsAssumption
      <4>3. QED
        BY <4>1, <4>2
    <3>4. PICK q \in Nat : q = outstanding[n].quantity
      BY <3>2
    <3>5. 4 * entry_price * q = 4 * q * entry_price
      BY <3>3
    <3>6. 4 * entry_price * q <= Capital
      BY <1>1, <2>3, <3>4 DEF SizeInv, Affordable
    <3>7. QED
      BY <3>4, <3>5, <3>6
  <2>4. Strategies!Enhanced!KellyNeverDecides
    <3>1. kelly_returns \in Seq(Int)
      BY <1>1, ResultsAreInt DEF EnhancedTypes
    <3>2. QED
      BY <3>1, SizeIsQuarter DEF Strategies!Enhanced!KellyNeverDecides
  <2>5. QED
    BY <2>2, <2>3, <2>4 DEF Strategies!Enhanced!OrdersAffordable
<1>2. VwapTypes /\ EnhancedTypes /\ SizeInv => Strategies!SizesBounded
  BY <1>1 DEF Strategies!SizesBounded
<1>3. QED
  BY SizesInvariance, <1>2, PTL

\* The three strategies keep their types: the weighted score is a fraction,
\* and the histories of the Kelly sizer and of the regime detector stay within
\* their limits and of the same length.
THEOREM StrategiesTyped ==
  Readings /\ Amounts => (Strategies!Spec => []Strategies!TypeOK)
<1> SUFFICES ASSUME Readings, Amounts PROVE Strategies!Spec => []Strategies!TypeOK
  OBVIOUS
<1>1. Strategies!Spec => [](strategy = "weighted" => Strategies!Weighted!TypeOK)
  BY ScoreIsFraction
<1>2. VwapTypes /\ EnhancedTypes /\ SizeInv
        /\ (strategy = "weighted" => Strategies!Weighted!TypeOK)
        => Strategies!TypeOK
  BY VwapTypesMean, EnhancedTypesMean DEF Strategies!TypeOK
<1>3. Strategies!Spec => [](VwapTypes /\ EnhancedTypes /\ SizeInv)
  BY SizesInvariance
<1>4. QED
  BY <1>1, <1>2, <1>3, PTL
=============================================================================
