------------------------- MODULE OrderManagerProofs -------------------------
(***************************************************************************)
(* Theorems about OrderManager, for every set of symbols, orders, signals, *)
(* balances, every limits record and any number of signals.                *)
(***************************************************************************)
EXTENDS OrderManager, SequenceTheorems, TLAPS

----------------------------------------------------------------------------
\* The price used and the notional of an order are natural numbers.
LEMMA NotionalType ==
  ASSUME NEW o \in Orders
  PROVE  /\ o \in Order
         /\ PriceUsed(o) \in Nat
         /\ Notional(o, PriceUsed(o)) \in Nat
<1>1. o \in Order
  BY OrdersAssumption
<1>2. PriceUsed(o) \in Nat /\ o.quantity \in Nat
  BY <1>1 DEF Order, PriceUsed
<1>3. QED
  BY <1>1, <1>2 DEF Notional

\* The order in the processor's hand is one of the orders.
LEMMA HeadType ==
  ASSUME NEW s \in Seq(Orders), Len(s) = 1
  PROVE  Head(s) \in Orders
  OBVIOUS

\* Booking a fill keeps the RiskManager's state well typed.
LEMMA FillType ==
  ASSUME RiskTypeOK, NEW o \in Orders, OnOrderFilled(o, PriceUsed(o))
  PROVE  RiskTypeOK'
<1> DEFINE n == Notional(o, PriceUsed(o))
<1>1. n \in Nat /\ o.quantity \in Nat /\ o.symbol \in Symbols
  BY NotionalType DEF Order
<1>2. \A m \in Int : FloorAtZero(m) \in Nat
  BY DEF FloorAtZero
<1>3. total_exposure' \in Nat
  BY <1>1, <1>2 DEF RiskTypeOK, OnOrderFilled
<1>4. positions' \in [Symbols -> Nat]
  BY <1>1, <1>2 DEF RiskTypeOK, OnOrderFilled
<1>5. QED
  BY <1>3, <1>4 DEF RiskTypeOK, OnOrderFilled

\* The first state is well typed.
LEMMA TypeInit == Init => TypeOK
<1> SUFFICES ASSUME Init PROVE TypeOK
  OBVIOUS
<1>1. RiskTypeOK
  BY LimitsAssumption DEF Init, RiskInit, RiskTypeOK
<1>2. /\ order_queue \in Seq(Orders) /\ active_orders \in Seq(Orders)
      /\ todo \in Seq(Orders) /\ in_hand \in Seq(Orders) /\ sent \in Seq(Orders)
  BY DEF Init
<1>3. broker_position \in [Symbols -> Int]
  BY DEF Init
<1>4. QED
  BY <1>1, <1>2, <1>3 DEF Init, TypeOK

\* The tick thread's steps keep the state well typed.
LEMMA TypeTick ==
  ASSUME TypeOK, TickThread
  PROVE  TypeOK'
<1>1. CASE BeginSignal
  BY <1>1, SignalsAssumption
  DEF BeginSignal, AfterOrder, TypeOK, RiskTypeOK, riskVars, queueVars,
      processorVars, brokerVars, bookVars, stopVars
<1>2. CASE RiskPass
  <2>1. Len(Outstanding) \in Nat
    BY DEF Outstanding, InHand, TypeOK
  <2>2. QED
    BY <1>2, <2>1
    DEF RiskPass, TypeOK, RiskTypeOK, riskVars, queueVars,
        processorVars, brokerVars, bookVars, stopVars
<1>3. CASE RiskBlock
  BY <1>3
  DEF RiskBlock, AfterOrder, TypeOK, RiskTypeOK, riskVars, queueVars,
      processorVars, brokerVars, bookVars, stopVars
<1>4. CASE Push
  BY <1>4
  DEF Push, AfterOrder, TypeOK, RiskTypeOK, riskVars,
      processorVars, brokerVars, bookVars, stopVars
<1>5. CASE Notify
  BY <1>5
  DEF Notify, WakeProcessor, TypeOK, RiskTypeOK, riskVars, queueVars,
      brokerVars, bookVars, stopVars
<1>6. QED
  BY <1>1, <1>2, <1>3, <1>4, <1>5 DEF TickThread

\* A step of the processor that only moves its program counter, to a place
\* where it holds no order, keeps the state well typed.
LEMMA TypeMove ==
  ASSUME TypeOK, NEW from, NEW to, ProcessorMoves(from, to),
         to \in {"head", "acquire", "test", "block", "waiting", "drain", "done"}
  PROVE  TypeOK'
  BY DEF ProcessorMoves, TypeOK, RiskTypeOK, riskVars, queueVars, tickVars,
         brokerVars, bookVars, stopVars

\* So does what the exchange makes of an order.
LEMMA TypePlace ==
  ASSUME TypeOK, NEW taken \in BOOLEAN, NEW answered \in BOOLEAN,
         Place(taken, answered)
  PROVE  TypeOK'
<1>1. Head(in_hand) \in Orders
  BY HeadType DEF TypeOK, Place
<1>2. Head(in_hand).symbol \in Symbols /\ SignedQuantity(Head(in_hand)) \in Int
  BY <1>1, NotionalType DEF Order, SignedQuantity
<1>3. broker_position' \in [Symbols -> Int]
  BY <1>2 DEF TypeOK, Place
<1>4. lost' \in BOOLEAN /\ sent' \in Seq(Orders)
  BY <1>1 DEF TypeOK, Place
<1>5. QED
  BY <1>3, <1>4
  DEF Place, TypeOK, RiskTypeOK, riskVars, queueVars, tickVars, bookVars, stopVars

\* The processor's steps keep the state well typed.
LEMMA TypeProcessor ==
  ASSUME TypeOK, Processor \/ SpuriousWakeup
  PROVE  TypeOK'
<1>1. CASE LoopHead
  BY <1>1, TypeMove DEF LoopHead
<1>2. CASE Acquire
  BY <1>2, TypeMove DEF Acquire
<1>3. CASE TestPredicate
  BY <1>3, TypeMove DEF TestPredicate
<1>4. CASE Block
  BY <1>4, TypeMove DEF Block
<1>5. CASE SpuriousWakeup
  BY <1>5, TypeMove DEF SpuriousWakeup
<1>6. CASE Pop
  BY <1>6
  DEF Pop, TypeOK, RiskTypeOK, riskVars, tickVars, brokerVars, bookVars, stopVars
<1>7. CASE LeaveDrain
  BY <1>7, TypeMove DEF LeaveDrain
<1>8. CASE Accept \/ Refuse \/ LoseReply
  BY <1>8, TypePlace DEF Accept, Refuse, LoseReply
<1>9. CASE Confirm
  <2>1. Head(in_hand) \in Orders
    BY <1>9, HeadType DEF Confirm, TypeOK
  <2>2. RiskTypeOK'
    BY <1>9, <2>1, FillType DEF Confirm, TypeOK
  <2>3. active_orders' \in Seq(Orders) /\ filled_orders' \in Nat
    BY <1>9, <2>1 DEF Confirm, TypeOK
  <2>4. QED
    BY <1>9, <2>2, <2>3
    DEF Confirm, TypeOK, queueVars, tickVars, brokerVars, stopVars
<1>10. CASE Fail
  BY <1>10
  DEF Fail, TypeOK, RiskTypeOK, riskVars, queueVars, tickVars, brokerVars,
      bookVars, stopVars
<1>11. CASE Relock
  BY <1>11, TypeMove DEF Relock
<1>12. QED
  BY <1>1, <1>2, <1>3, <1>4, <1>5, <1>6, <1>7, <1>8, <1>9, <1>10, <1>11
  DEF Processor

\* Starting and stopping keep the state well typed.
LEMMA TypeLifecycle ==
  ASSUME TypeOK, Start \/ StatusExits \/ Stopper
  PROVE  TypeOK'
<1> USE DEF TypeOK, RiskTypeOK, riskVars, queueVars, tickVars, processorVars,
            brokerVars, bookVars
<1>1. CASE Start
  BY <1>1 DEF Start
<1>2. CASE StatusExits
  BY <1>2 DEF StatusExits
<1>3. CASE StopFlag
  <2>1. Len(sent) \in Nat
    OBVIOUS
  <2>2. running' \in BOOLEAN /\ stop_mark' \in Nat
    BY <1>3, <2>1 DEF StopFlag
  <2>3. QED
    BY <1>3, <2>2 DEF StopFlag
<1>4. CASE StopNotify
  BY <1>4 DEF StopNotify, WakeProcessor
<1>5. CASE StopJoin
  BY <1>5 DEF StopJoin
<1>6. QED
  BY <1>1, <1>2, <1>3, <1>4, <1>5 DEF Stopper

LEMMA TypeStutter ==
  ASSUME TypeOK, UNCHANGED vars
  PROVE  TypeOK'
  BY DEF TypeOK, RiskTypeOK, vars, riskVars, queueVars, tickVars, processorVars,
         brokerVars, bookVars, stopVars

\* The state is well typed in every behaviour: in particular the processor
\* holds exactly one order while it places and books it, and the tick thread
\* never looks at an order beyond the end of the signal.
THEOREM TypeCorrect == Spec => []TypeOK
<1>1. TypeOK /\ [Next]_vars => TypeOK'
  BY TypeTick, TypeProcessor, TypeLifecycle, TypeStutter DEF Next
<1>2. QED
  BY TypeInit, <1>1, PTL DEF Spec

----------------------------------------------------------------------------
\* Outstanding orders are the one held and those queued.
LEMMA OutstandingLength ==
  ASSUME TypeOK
  PROVE  Len(Outstanding) = HeldCount + Len(order_queue)
<1>1. \A s, t \in Seq(Orders) : Len(s \o t) = Len(s) + Len(t)
  OBVIOUS
<1>2. InHand \in Seq(Orders) /\ order_queue \in Seq(Orders)
  BY DEF TypeOK, InHand
<1>3. Len(InHand) = HeldCount
  BY DEF TypeOK, InHand, HeldCount
<1>4. QED
  BY <1>1, <1>2, <1>3 DEF Outstanding

\* The first state satisfies the invariant.
LEMMA InductiveInit == Init => InductiveInvariant
<1> SUFFICES ASSUME Init PROVE InductiveInvariant
  OBVIOUS
<1>1. TypeOK
  BY TypeInit
<1>2. LifecycleInv
  BY DEF Init, LifecycleInv
<1>3. CountInv
  BY LimitsAssumption
  DEF Init, RiskInit, LimitRecord, CountInv, HeldCount, PushPending
<1>4. SerialInv
  BY LimitsAssumption
  DEF Init, RiskInit, LimitRecord, SerialInv, HeldCount, PushPending
<1>5. SerialBooksMatch /\ BooksNeverUnderstate
  BY DEF Init, RiskInit, SerialBooksMatch, BooksNeverUnderstate, Unbooked
<1>6. QED
  BY <1>1, <1>2, <1>3, <1>4, <1>5 DEF InductiveInvariant

\* start and stop bracket m_running.
LEMMA LifecycleStep ==
  ASSUME TypeOK, LifecycleInv, [Next]_vars
  PROVE  LifecycleInv'
<1> USE DEF LifecycleInv, stopVars, processorVars
<1>1. CASE Start
  BY <1>1 DEF Start
<1>2. CASE BeginSignal \/ RiskPass \/ RiskBlock \/ Push
  BY <1>2 DEF BeginSignal, RiskPass, RiskBlock, Push
<1>3. CASE Notify \/ StopNotify
  BY <1>3 DEF Notify, StopNotify, WakeProcessor
<1>4. CASE LoopHead \/ Acquire \/ TestPredicate \/ Block \/ SpuriousWakeup
           \/ LeaveDrain \/ Relock
  BY <1>4 DEF LoopHead, Acquire, TestPredicate, Block, SpuriousWakeup,
              LeaveDrain, Relock, ProcessorMoves
<1>5. CASE Pop
  BY <1>5 DEF Pop
<1>6. CASE Accept \/ Refuse \/ LoseReply
  BY <1>6 DEF Accept, Refuse, LoseReply, Place
<1>7. CASE Confirm \/ Fail
  BY <1>7 DEF Confirm, Fail
<1>8. CASE StatusExits
  BY <1>8 DEF StatusExits
<1>9. CASE StopFlag
  BY <1>9 DEF StopFlag
<1>10. CASE StopJoin
  BY <1>10 DEF StopJoin
<1>11. CASE UNCHANGED vars
  BY <1>11 DEF vars
<1>12. QED
  BY <1>1, <1>2, <1>3, <1>4, <1>5, <1>6, <1>7, <1>8, <1>9, <1>10, <1>11
  DEF Next, TickThread, Processor, Stopper

\* The counters stay in step with where the orders are.
LEMMA CountStep ==
  ASSUME TypeOK, LifecycleInv, CountInv, [Next]_vars
  PROVE  CountInv'
<1> USE DEF CountInv, HeldCount, PushPending
<1>1. /\ examined \in Nat /\ filled_orders \in Nat /\ rejected_orders \in Nat
      /\ total_orders \in Nat /\ today_trades \in Nat /\ backlog \in Nat
      /\ stop_mark \in Nat
      /\ limits.max_daily_trades \in Nat
      /\ Len(order_queue) \in Nat /\ Len(sent) \in Nat /\ Len(active_orders) \in Nat
  BY DEF TypeOK, RiskTypeOK, LimitRecord
<1>2. CASE Start
  BY <1>1, <1>2 DEF Start, LifecycleInv, riskVars, queueVars, tickVars,
                    brokerVars, bookVars
<1>3. CASE BeginSignal
  BY <1>1, <1>3 DEF BeginSignal, AfterOrder, riskVars, queueVars, processorVars,
                    brokerVars, bookVars, stopVars
<1>4. CASE RiskPass
  <2>1. Len(Outstanding) = HeldCount + Len(order_queue)
    BY OutstandingLength
  <2>2. today_trades < limits.max_daily_trades
    BY <1>4 DEF RiskPass, CanSubmitOrder
  <2>3. backlog' \in Nat /\ backlog' >= HeldCount + Len(order_queue)
    BY <1>1, <1>4, <2>1 DEF RiskPass
  <2>4. PushPending = 0 /\ PushPending' = 1 /\ HeldCount' = HeldCount
    BY <1>4 DEF RiskPass, processorVars
  <2>5. HeldCount \in {0, 1}
    OBVIOUS
  <2>6. today_trades + HeldCount + Len(order_queue) + 1
          <= limits.max_daily_trades + backlog'
    BY <1>1, <2>2, <2>3, <2>5
  <2>7. QED
    BY <1>1, <1>4, <2>4, <2>5, <2>6
    DEF RiskPass, riskVars, queueVars, processorVars, brokerVars, bookVars, stopVars
<1>5. CASE RiskBlock
  <2>1. PushPending = 0 /\ PushPending' = 0 /\ HeldCount' = HeldCount
    BY <1>5 DEF RiskBlock, AfterOrder, processorVars
  <2>2. HeldCount \in Nat
    OBVIOUS
  <2> HIDE DEF HeldCount, PushPending
  <2>3. QED
    BY <1>1, <1>5, <2>1, <2>2 DEF RiskBlock, riskVars, queueVars, processorVars,
                            brokerVars, bookVars, stopVars
<1>6. CASE Push
  <2>1. Len(order_queue') = Len(order_queue) + 1
    BY <1>6 DEF Push, TypeOK
  <2>2. PushPending = 1 /\ PushPending' = 0 /\ HeldCount' = HeldCount
    BY <1>6 DEF Push, AfterOrder, processorVars
  <2>3. HeldCount \in Nat
    OBVIOUS
  <2>4. /\ total_orders' = total_orders + 1
        /\ UNCHANGED <<examined, filled_orders, rejected_orders, sent, c_pc,
                      active_orders, today_trades, limits, backlog, stop_pc,
                      stop_mark>>
    BY <1>6 DEF Push, riskVars, processorVars, brokerVars, bookVars, stopVars
  <2> HIDE DEF HeldCount, PushPending
  <2>5. QED
    BY <1>1, <2>1, <2>2, <2>3, <2>4
<1>7. CASE Notify
  BY <1>1, <1>7 DEF Notify, WakeProcessor, riskVars, queueVars,
                    brokerVars, bookVars, stopVars
<1>8. CASE LoopHead \/ Acquire \/ TestPredicate \/ Block \/ SpuriousWakeup
           \/ LeaveDrain \/ Relock
  BY <1>1, <1>8
  DEF LoopHead, Acquire, TestPredicate, Block, SpuriousWakeup, LeaveDrain, Relock,
      ProcessorMoves, riskVars, queueVars, tickVars, brokerVars, bookVars, stopVars
<1>9. CASE Pop
  <2>1. Len(order_queue') = Len(order_queue) - 1
    BY <1>9 DEF Pop, TypeOK
  <2>2. PushPending' = PushPending /\ HeldCount = 0 /\ HeldCount' = 1
    BY <1>9 DEF Pop, tickVars
  <2>3. stop_pc = "none" /\ PushPending \in Nat
    BY <1>9 DEF Pop, LifecycleInv
  <2>4. /\ c_pc = "drain" /\ c_pc' = "place"
        /\ UNCHANGED <<total_orders, examined, filled_orders, rejected_orders, sent,
                      active_orders, today_trades, limits, backlog, stop_pc>>
    BY <1>9 DEF Pop, riskVars, tickVars, brokerVars, bookVars, stopVars
  <2> HIDE DEF HeldCount, PushPending
  <2>5. QED
    BY <1>1, <2>1, <2>2, <2>3, <2>4
<1>10. CASE Accept \/ Refuse \/ LoseReply
  <2>1. PICK taken \in BOOLEAN, answered \in BOOLEAN : Place(taken, answered)
    BY <1>10 DEF Accept, Refuse, LoseReply
  <2>2. Len(sent') = Len(sent) + 1
    BY <2>1 DEF Place, TypeOK
  <2>3. /\ c_pc = "place" /\ c_pc' # "place"
        /\ UNCHANGED <<total_orders, examined, filled_orders, rejected_orders, order_queue,
                      active_orders, today_trades, limits, backlog, stop_pc, stop_mark>>
    BY <2>1 DEF Place, riskVars, queueVars, tickVars, bookVars, stopVars
  <2>4. HeldCount' = HeldCount /\ PushPending' = PushPending
    BY <2>1 DEF Place, tickVars
  <2> HIDE DEF HeldCount, PushPending
  <2>5. QED
    BY <1>1, <2>2, <2>3, <2>4
<1>11. CASE Confirm
  <2>1. Len(active_orders') = Len(active_orders) + 1
    BY <1>11 DEF Confirm, TypeOK
  <2>2. QED
    BY <1>1, <1>11, <2>1 DEF Confirm, OnOrderFilled, queueVars, tickVars,
                             brokerVars, stopVars
<1>12. CASE Fail
  BY <1>1, <1>12 DEF Fail, riskVars, queueVars, tickVars, brokerVars, bookVars, stopVars
<1>13. CASE StatusExits
  BY <1>1, <1>13 DEF StatusExits, riskVars, queueVars, tickVars, processorVars,
                     brokerVars, bookVars
<1>14. CASE StopFlag
  <2>1. PushPending' = PushPending /\ HeldCount' = HeldCount
    BY <1>14 DEF StopFlag, tickVars, processorVars
  <2>2. stop_mark' = Len(sent) /\ sent' = sent /\ c_pc' = c_pc
    BY <1>14 DEF StopFlag, brokerVars, processorVars
  <2>3. Len(sent) + (IF c_pc = "place" THEN 1 ELSE 0) <= Len(sent) + 1
    BY <1>1
  <2>4. QED
    BY <1>14, <2>1, <2>2, <2>3
    DEF StopFlag, riskVars, queueVars, tickVars, brokerVars, bookVars
<1>15. CASE StopNotify
  BY <1>1, <1>15 DEF StopNotify, WakeProcessor, riskVars, queueVars, tickVars,
                     brokerVars, bookVars
<1>16. CASE StopJoin
  BY <1>1, <1>16 DEF StopJoin, riskVars, queueVars, tickVars, processorVars,
                     brokerVars, bookVars
<1>17. CASE UNCHANGED vars
  BY <1>17 DEF vars, riskVars, queueVars, tickVars, processorVars, brokerVars,
               bookVars, stopVars
<1>18. QED
  BY <1>2, <1>3, <1>4, <1>5, <1>6, <1>7, <1>8, <1>9, <1>10, <1>11, <1>12, <1>13,
     <1>14, <1>15, <1>16, <1>17
  DEF Next, TickThread, Processor, Stopper

\* A step that leaves the RiskManager, the queue and the two threads' orders
\* alone leaves SerialInv alone.
LEMMA SerialFrame ==
  ASSUME SerialInv,
         UNCHANGED <<riskVars, order_queue, todo, in_hand, backlog>>,
         UNCHANGED <<HeldCount, PushPending>>
  PROVE  SerialInv'
  BY DEF SerialInv, StillFits, riskVars

\* With no backlog an approved order still fits when it is booked: nothing
\* else has been approved since.
LEMMA SerialStep ==
  ASSUME TypeOK, SerialInv, [Next]_vars
  PROVE  SerialInv'
<1>1. /\ HeldCount \in 0 .. 1 /\ PushPending \in 0 .. 1
      /\ Len(order_queue) \in Nat /\ backlog \in Nat
      /\ total_exposure \in Nat
      /\ limits.max_portfolio_exposure \in Nat
      /\ order_queue \in Seq(Orders)
  BY DEF HeldCount, PushPending, TypeOK, RiskTypeOK, LimitRecord
<1>2. CASE Start
  <2>1. UNCHANGED <<riskVars, order_queue, todo, in_hand, backlog>>
    BY <1>2 DEF Start, queueVars, tickVars
  <2>2. UNCHANGED <<HeldCount, PushPending>>
    BY <1>2 DEF Start, HeldCount, PushPending, tickVars
  <2>3. QED
    BY <2>1, <2>2, SerialFrame
<1>3. CASE BeginSignal
  <2>1. UNCHANGED <<riskVars, order_queue, in_hand, backlog, HeldCount>>
    BY <1>3 DEF BeginSignal, queueVars, processorVars, HeldCount
  <2>2. PushPending = 0 /\ PushPending' = 0
    BY <1>3 DEF BeginSignal, AfterOrder, PushPending
  <2>3. QED
    BY <2>1, <2>2 DEF SerialInv, StillFits, riskVars
<1>4. CASE RiskPass
  <2>1. UNCHANGED <<riskVars, order_queue, todo, in_hand, HeldCount>>
    BY <1>4 DEF RiskPass, queueVars, processorVars, HeldCount
  <2>2. StillFits(Head(todo)) /\ (backlog = 0 => total_exposure <= limits.max_portfolio_exposure)
    BY <1>4 DEF RiskPass, CanSubmitOrder, BuyFits, StillFits, SerialInv
  <2>3. StillFits(Head(todo))'
    BY <2>1, <2>2 DEF StillFits, riskVars
  <2>4. PushPending' \in 0 .. 1
    BY DEF PushPending
  <2>5. SUFFICES ASSUME backlog' = 0 PROVE SerialInv'
    BY DEF SerialInv
  <2>6. Len(Outstanding) = HeldCount + Len(order_queue)
    BY OutstandingLength
  <2>7. backlog = 0 /\ Len(Outstanding) = 0
    BY <1>1, <1>4, <2>5, <2>6 DEF RiskPass
  <2>8. HeldCount = 0 /\ Len(order_queue) = 0 /\ order_queue = <<>>
    BY <1>1, <2>6, <2>7
  <2>9. total_exposure' <= limits'.max_portfolio_exposure
    BY <2>1, <2>2, <2>7 DEF riskVars
  <2>10. HeldCount' = 0 /\ order_queue' = <<>>
    BY <2>1, <2>8
  <2>11. /\ HeldCount' \in Nat /\ HeldCount' <= 0
         /\ Len(order_queue') \in Nat /\ Len(order_queue') <= 0
    BY <1>1, <2>1, <2>8
  <2>12. HeldCount' + Len(order_queue') + PushPending' <= 1
    BY <2>4, <2>11
  <2>13. QED
    BY <2>3, <2>9, <2>10, <2>12 DEF SerialInv
<1>5. CASE RiskBlock
  <2>1. UNCHANGED <<riskVars, order_queue, in_hand, backlog, HeldCount>>
    BY <1>5 DEF RiskBlock, queueVars, processorVars, HeldCount
  <2>2. PushPending = 0 /\ PushPending' = 0
    BY <1>5 DEF RiskBlock, AfterOrder, PushPending
  <2>3. QED
    BY <2>1, <2>2 DEF SerialInv, StillFits, riskVars
<1>6. CASE Push
  <2>1. UNCHANGED <<riskVars, in_hand, backlog, HeldCount>>
    BY <1>6 DEF Push, processorVars, HeldCount
  <2>2. PushPending = 1 /\ PushPending' = 0
    BY <1>6 DEF Push, AfterOrder, PushPending
  <2>3. Len(order_queue') = Len(order_queue) + 1
    BY <1>6 DEF Push, TypeOK
  <2>4. SUFFICES ASSUME backlog = 0 PROVE SerialInv'
    BY <2>1 DEF SerialInv
  <2>5. HeldCount = 0 /\ Len(order_queue) = 0 /\ StillFits(Head(todo))
    BY <1>1, <2>2, <2>4 DEF SerialInv
  <2>6. order_queue' = <<Head(todo)>>
    BY <1>1, <1>6, <2>5 DEF Push, TypeOK
  <2>7. StillFits(Head(order_queue))'
    BY <2>1, <2>5, <2>6 DEF StillFits, riskVars
  <2>8. QED
    BY <2>1, <2>2, <2>3, <2>4, <2>5, <2>7 DEF SerialInv, riskVars
<1>7. CASE Notify \/ StopNotify
  <2>1. UNCHANGED <<riskVars, order_queue, todo, in_hand, backlog>>
    BY <1>7 DEF Notify, StopNotify, queueVars, tickVars
  <2>2. UNCHANGED <<HeldCount, PushPending>>
    BY <1>7 DEF Notify, StopNotify, WakeProcessor, HeldCount, PushPending, tickVars
  <2>3. QED
    BY <2>1, <2>2, SerialFrame
<1>8. CASE LoopHead \/ Acquire \/ TestPredicate \/ Block \/ SpuriousWakeup
           \/ LeaveDrain \/ Relock
  <2> USE DEF LoopHead, Acquire, TestPredicate, Block, SpuriousWakeup,
              LeaveDrain, Relock, ProcessorMoves
  <2>1. UNCHANGED <<riskVars, order_queue, todo, in_hand, backlog>>
    BY <1>8 DEF queueVars, tickVars
  <2>2. UNCHANGED <<HeldCount, PushPending>>
    BY <1>8 DEF HeldCount, PushPending, tickVars
  <2>3. QED
    BY <2>1, <2>2, SerialFrame
<1>9. CASE Pop
  <2>1. UNCHANGED <<riskVars, todo, backlog, PushPending>>
    BY <1>9 DEF Pop, tickVars, PushPending
  <2>2. HeldCount = 0 /\ HeldCount' = 1 /\ order_queue # <<>>
    BY <1>9 DEF Pop, HeldCount
  <2>3. SUFFICES ASSUME backlog = 0 PROVE SerialInv'
    BY <2>1 DEF SerialInv
  <2>4. Len(order_queue) >= 1
    BY <1>1, <2>2
  <2>5. /\ HeldCount + Len(order_queue) + PushPending <= 1
        /\ StillFits(Head(order_queue))
    BY <2>2, <2>3 DEF SerialInv
  <2>6. PushPending = 0
    BY <1>1, <2>4, <2>5
  <2>7. Len(order_queue) <= 1
    BY <1>1, <2>4, <2>5
  <2>8. order_queue' = <<>> /\ Head(in_hand') = Head(order_queue)
    BY <1>1, <1>9, <2>7 DEF Pop
  <2>9. StillFits(Head(in_hand))'
    BY <2>1, <2>5, <2>8 DEF StillFits, riskVars
  <2>10. QED
    BY <2>1, <2>2, <2>3, <2>6, <2>8, <2>9 DEF SerialInv, riskVars
<1>10. CASE Accept \/ Refuse \/ LoseReply
  <2>1. PICK taken \in BOOLEAN, answered \in BOOLEAN : Place(taken, answered)
    BY <1>10 DEF Accept, Refuse, LoseReply
  <2>2. UNCHANGED <<riskVars, order_queue, todo, in_hand, backlog>>
    BY <2>1 DEF Place, queueVars, tickVars
  <2>3. UNCHANGED <<HeldCount, PushPending>>
    BY <2>1 DEF Place, HeldCount, PushPending, tickVars
  <2>4. QED
    BY <2>2, <2>3, SerialFrame
<1>11. CASE Confirm
  <2> DEFINE o == Head(in_hand)
             n == Notional(o, PriceUsed(o))
  <2>1. HeldCount = 1 /\ HeldCount' = 0 /\ UNCHANGED PushPending
    BY <1>11 DEF Confirm, HeldCount, PushPending, tickVars
  <2>2. UNCHANGED <<limits, order_queue, todo, backlog>>
    BY <1>11 DEF Confirm, OnOrderFilled, queueVars, tickVars
  <2>3. SUFFICES ASSUME backlog = 0 PROVE SerialInv'
    BY <2>2 DEF SerialInv
  <2>4. PushPending = 0 /\ order_queue = <<>> /\ StillFits(o)
    BY <1>1, <2>1, <2>3 DEF SerialInv
  <2>5. n \in Nat
    BY <1>11, HeadType, NotionalType DEF Confirm, TypeOK
  <2>6. total_exposure' <= limits.max_portfolio_exposure
    <3>1. CASE o.is_buy
      BY <1>11, <2>4, <3>1 DEF Confirm, OnOrderFilled, StillFits
    <3>2. CASE ~o.is_buy
      BY <1>1, <1>11, <2>3, <2>5, <3>2
      DEF Confirm, OnOrderFilled, FloorAtZero, SerialInv
    <3>3. QED
      BY <3>1, <3>2
  <2>7. QED
    BY <2>1, <2>2, <2>4, <2>6 DEF SerialInv
<1>12. CASE Fail
  <2>1. UNCHANGED <<riskVars, order_queue, todo, backlog, PushPending>>
    BY <1>12 DEF Fail, queueVars, tickVars, PushPending
  <2>2. HeldCount' = 0
    BY <1>12 DEF Fail, HeldCount
  <2>3. QED
    BY <1>1, <2>1, <2>2 DEF SerialInv, StillFits, riskVars
<1>13. CASE StatusExits \/ StopFlag \/ StopJoin
  <2>1. UNCHANGED <<riskVars, order_queue, todo, in_hand, backlog>>
    BY <1>13 DEF StatusExits, StopFlag, StopJoin, queueVars, tickVars, processorVars
  <2>2. UNCHANGED <<HeldCount, PushPending>>
    BY <1>13 DEF StatusExits, StopFlag, StopJoin, tickVars, processorVars,
                 HeldCount, PushPending
  <2>3. QED
    BY <2>1, <2>2, SerialFrame
<1>14. CASE UNCHANGED vars
  <2>1. UNCHANGED <<riskVars, order_queue, todo, in_hand, backlog>>
    BY <1>14 DEF vars, queueVars, tickVars, processorVars
  <2>2. UNCHANGED <<HeldCount, PushPending>>
    BY <1>14 DEF vars, tickVars, processorVars, HeldCount, PushPending
  <2>3. QED
    BY <2>1, <2>2, SerialFrame
<1>15. QED
  BY <1>2, <1>3, <1>4, <1>5, <1>6, <1>7, <1>8, <1>9, <1>10, <1>11, <1>12,
     <1>13, <1>14
  DEF Next, TickThread, Processor, Stopper

\* A step that touches neither book, nor takes the processor into or out of
\* the window between the two, keeps the books as they are.
LEMMA BooksFrame ==
  ASSUME SerialBooksMatch, BooksNeverUnderstate,
         UNCHANGED <<positions, broker_position, lost>>,
         c_pc = "confirm" <=> c_pc' = "confirm",
         c_pc = "confirm" => UNCHANGED in_hand,
         backlog' = 0 => backlog = 0
  PROVE  SerialBooksMatch' /\ BooksNeverUnderstate'
<1>1. \A s : Unbooked(s)' = Unbooked(s)
  BY DEF Unbooked
<1>2. QED
  BY <1>1 DEF SerialBooksMatch, BooksNeverUnderstate

\* The RiskManager's positions follow the exchange's: what the exchange takes
\* is unbooked until it is confirmed, and confirming floors an oversold
\* position, which an order that still fits never is.
LEMMA BooksStep ==
  ASSUME TypeOK, SerialInv, SerialBooksMatch, BooksNeverUnderstate, [Next]_vars
  PROVE  SerialBooksMatch' /\ BooksNeverUnderstate'
<1>1. positions \in [Symbols -> Nat] /\ broker_position \in [Symbols -> Int]
  BY DEF TypeOK, RiskTypeOK
<1>2. CASE Accept \/ Refuse \/ LoseReply
  <2>1. PICK taken \in BOOLEAN, answered \in BOOLEAN : Place(taken, answered)
    BY <1>2 DEF Accept, Refuse, LoseReply
  <2> DEFINE o == Head(in_hand)
             q == SignedQuantity(o)
  <2>2. o \in Orders /\ o.symbol \in Symbols /\ q \in Int
    BY <2>1, HeadType, NotionalType DEF Place, TypeOK, Order, SignedQuantity
  <2>3. UNCHANGED <<positions, backlog, in_hand>>
    BY <2>1 DEF Place, riskVars, tickVars
  <2>4. \A s \in Symbols : Unbooked(s) = 0
    BY <2>1 DEF Place, Unbooked
  <2>5. ~lost' => ~lost /\ (taken => answered)
    BY <2>1 DEF Place
  <2>6. CASE taken
    <3>1. SUFFICES ASSUME ~lost' PROVE SerialBooksMatch' /\ BooksNeverUnderstate'
      BY DEF SerialBooksMatch, BooksNeverUnderstate
    <3>2. broker_position' = [broker_position EXCEPT ![o.symbol] = @ + q]
      BY <2>1, <2>6 DEF Place
    <3>3. c_pc' = "confirm"
      BY <2>1, <2>5, <2>6, <3>1 DEF Place
    <3>4. \A s \in Symbols : Unbooked(s)' = IF s = o.symbol THEN q ELSE 0
      BY <2>3, <3>3 DEF Unbooked
    <3>5. \A s \in Symbols :
            positions'[s] + Unbooked(s)' - broker_position'[s]
              = positions[s] - broker_position[s]
      BY <1>1, <2>2, <2>3, <3>2, <3>4
    <3>6. \A s \in Symbols :
            /\ backlog = 0 => positions[s] = broker_position[s]
            /\ positions[s] >= broker_position[s]
      BY <1>1, <2>4, <2>5, <3>1 DEF SerialBooksMatch, BooksNeverUnderstate
    <3>7. \A s \in Symbols : Unbooked(s)' \in Int /\ broker_position'[s] \in Int
      BY <1>1, <2>2, <3>2, <3>4
    <3>8. QED
      BY <1>1, <2>3, <3>5, <3>6, <3>7 DEF SerialBooksMatch, BooksNeverUnderstate
  <2>7. CASE ~taken
    <3>1. UNCHANGED broker_position /\ c_pc' = "fail" /\ c_pc = "place"
      BY <2>1, <2>7 DEF Place
    <3>2. UNCHANGED lost
      BY <2>1, <2>7 DEF Place, TypeOK
    <3>3. QED
      BY <2>3, <3>1, <3>2, BooksFrame
  <2>8. QED
    BY <2>6, <2>7
<1>3. CASE Confirm
  <2> DEFINE o == Head(in_hand)
             q == SignedQuantity(o)
  <2>1. o \in Orders /\ o.symbol \in Symbols /\ o.quantity \in Nat
    BY <1>3, HeadType, NotionalType DEF Confirm, TypeOK, Order
  <2>2. UNCHANGED <<broker_position, lost, backlog>> /\ c_pc = "confirm"
    BY <1>3 DEF Confirm, brokerVars, tickVars
  <2>3. \A s \in Symbols : Unbooked(s) = (IF s = o.symbol THEN q ELSE 0)
    BY <2>2 DEF Unbooked
  <2>4. \A s \in Symbols : Unbooked(s)' = 0
    BY <1>3 DEF Confirm, Unbooked
  <2>5. \A s \in Symbols : s # o.symbol => positions'[s] = positions[s]
    BY <1>1, <1>3 DEF Confirm, OnOrderFilled
  <2>6. positions'[o.symbol] >= positions[o.symbol] + q
    BY <1>1, <1>3, <2>1 DEF Confirm, OnOrderFilled, SignedQuantity, FloorAtZero
  <2>7. backlog = 0 => positions'[o.symbol] = positions[o.symbol] + q
    <3>1. CASE o.is_buy
      BY <1>1, <1>3, <2>1, <3>1 DEF Confirm, OnOrderFilled, SignedQuantity
    <3>2. CASE ~o.is_buy
      <4>1. backlog = 0 => positions[o.symbol] >= o.quantity
        BY <2>2, <3>2 DEF SerialInv, HeldCount, StillFits
      <4>2. QED
        BY <1>1, <1>3, <2>1, <3>2, <4>1
        DEF Confirm, OnOrderFilled, SignedQuantity, FloorAtZero
    <3>3. QED
      BY <3>1, <3>2
  <2>8. positions' \in [Symbols -> Nat]
    BY <1>3, <2>1, FillType DEF Confirm, TypeOK, RiskTypeOK
  <2>9. q \in Int
    BY <2>1 DEF SignedQuantity
  <2>10. SerialBooksMatch'
    BY <1>1, <2>2, <2>3, <2>4, <2>5, <2>7, <2>8, <2>9 DEF SerialBooksMatch
  <2>11. BooksNeverUnderstate'
    BY <1>1, <2>2, <2>3, <2>4, <2>5, <2>6, <2>8, <2>9 DEF BooksNeverUnderstate
  <2>12. QED
    BY <2>10, <2>11
<1>4. CASE RiskPass
  <2>1. Len(Outstanding) \in Nat /\ backlog \in Nat
    BY DEF Outstanding, InHand, TypeOK
  <2>2. backlog' = 0 => backlog = 0
    BY <1>4, <2>1 DEF RiskPass
  <2>3. QED
    BY <1>4, <2>2, BooksFrame DEF RiskPass, riskVars, brokerVars, processorVars
<1>5. CASE Start \/ StopFlag \/ StopNotify \/ StopJoin \/ StatusExits
  BY <1>5, BooksFrame
  DEF Start, StopFlag, StopNotify, StopJoin, StatusExits, WakeProcessor,
      riskVars, brokerVars, tickVars, processorVars
<1>6. CASE BeginSignal \/ RiskBlock \/ Push \/ Notify
  BY <1>6, BooksFrame
  DEF BeginSignal, RiskBlock, Push, Notify, WakeProcessor,
      riskVars, brokerVars, processorVars
<1>7. CASE LoopHead \/ Acquire \/ TestPredicate \/ Block \/ SpuriousWakeup
           \/ LeaveDrain \/ Relock
  BY <1>7, BooksFrame
  DEF LoopHead, Acquire, TestPredicate, Block, SpuriousWakeup, LeaveDrain, Relock,
      ProcessorMoves, riskVars, brokerVars, tickVars
<1>8. CASE Pop \/ Fail
  BY <1>8, BooksFrame DEF Pop, Fail, riskVars, brokerVars, tickVars
<1>9. CASE UNCHANGED vars
  BY <1>9, BooksFrame DEF vars, riskVars, brokerVars, tickVars, processorVars
<1>10. QED
  BY <1>2, <1>3, <1>4, <1>5, <1>6, <1>7, <1>8, <1>9
  DEF Next, TickThread, Processor, Stopper

----------------------------------------------------------------------------
\* The invariant holds in every behaviour.
THEOREM Invariance == Spec => []InductiveInvariant
<1>1. InductiveInvariant /\ [Next]_vars => InductiveInvariant'
  BY TypeTick, TypeProcessor, TypeLifecycle, TypeStutter, LifecycleStep,
     CountStep, SerialStep, BooksStep
  DEF Next, InductiveInvariant
<1>2. QED
  BY InductiveInit, <1>1, PTL DEF Spec

\* No order is lost, duplicated or counted twice between the gate, the queue,
\* the processor's hand and the two counters.
THEOREM AccountingHolds == Spec => []OrderAccounting
<1>1. ASSUME InductiveInvariant PROVE OrderAccounting
  <2>1. TypeOK /\ CountInv
    BY <1>1 DEF InductiveInvariant
  <2>2. Len(Outstanding) = HeldCount + Len(order_queue)
    BY <2>1, OutstandingLength
  <2>3. /\ filled_orders \in Nat /\ rejected_orders \in Nat
        /\ HeldCount \in Nat /\ PushPending \in Nat /\ Len(order_queue) \in Nat
    BY <2>1 DEF TypeOK, HeldCount, PushPending
  <2>4. examined = filled_orders + rejected_orders + Len(Outstanding) + PushPending
    BY <2>1, <2>2, <2>3 DEF CountInv
  <2>5. QED
    BY <2>1, <2>4 DEF CountInv, OrderAccounting
<1>2. QED
  BY Invariance, <1>1, PTL

\* The trade count, from the invariant.
LEMMA TradesBounded ==
  ASSUME InductiveInvariant
  PROVE  today_trades <= limits.max_daily_trades + backlog
<1>1. /\ HeldCount \in Nat /\ PushPending \in Nat /\ Len(order_queue) \in Nat
      /\ today_trades \in Nat /\ backlog \in Nat /\ limits.max_daily_trades \in Nat
  BY DEF InductiveInvariant, TypeOK, RiskTypeOK, LimitRecord, HeldCount, PushPending
<1>2. today_trades + HeldCount + Len(order_queue) + PushPending
        <= limits.max_daily_trades + backlog
  BY DEF InductiveInvariant, CountInv
<1>3. QED
  BY <1>1, <1>2

\* The daily trade limit is exceeded by the largest backlog at most, whatever
\* the interleaving and however long the run.
THEOREM TradesOvershootHolds == Spec => []TradesOvershoot
<1>1. InductiveInvariant => TradesOvershoot
  BY TradesBounded DEF TradesOvershoot
<1>2. QED
  BY Invariance, <1>1, PTL

\* When orders never overlap, the limits hold and nothing is sold short.
THEOREM SerialLimitsHold == Spec => []SerialLimits
<1>1. InductiveInvariant => SerialLimits
  <2> SUFFICES ASSUME InductiveInvariant, backlog = 0 PROVE SerialLimits
    BY DEF SerialLimits
  <2>1. total_exposure <= limits.max_portfolio_exposure
    BY DEF InductiveInvariant, SerialInv
  <2>2. today_trades <= limits.max_daily_trades
    BY TradesBounded DEF InductiveInvariant, TypeOK, RiskTypeOK, LimitRecord
  <2>3. ASSUME ~lost, NEW s \in Symbols PROVE broker_position[s] >= 0
    <3>1. positions[s] \in Nat /\ positions[s] + Unbooked(s) = broker_position[s]
      BY <2>3 DEF InductiveInvariant, TypeOK, RiskTypeOK, SerialBooksMatch
    <3>2. CASE Unbooked(s) = 0
      BY <3>1, <3>2
    <3>3. CASE Unbooked(s) # 0
      <4> DEFINE o == Head(in_hand)
      <4>1. c_pc = "confirm" /\ o.symbol = s /\ Unbooked(s) = SignedQuantity(o)
        BY <3>3 DEF Unbooked
      <4>2. o \in Order
        BY <4>1, HeadType, NotionalType DEF InductiveInvariant, TypeOK
      <4>3. StillFits(o)
        BY <4>1 DEF InductiveInvariant, SerialInv, HeldCount
      <4>4. QED
        BY <3>1, <4>1, <4>2, <4>3 DEF StillFits, SignedQuantity, Order
    <3>4. QED
      BY <3>2, <3>3
  <2>4. QED
    BY <2>1, <2>2, <2>3 DEF SerialLimits
<1>2. QED
  BY Invariance, <1>1, PTL

\* When orders never overlap and no reply is lost the RiskManager's positions
\* are the exchange's.
THEOREM SerialBooksMatchHolds == Spec => []SerialBooksMatch
<1>1. InductiveInvariant => SerialBooksMatch
  BY DEF InductiveInvariant
<1>2. QED
  BY Invariance, <1>1, PTL

\* When no reply is lost the RiskManager never understates what the exchange
\* holds, overlapping orders or not.
THEOREM BooksNeverUnderstateHolds == Spec => []BooksNeverUnderstate
<1>1. InductiveInvariant => BooksNeverUnderstate
  BY DEF InductiveInvariant
<1>2. QED
  BY Invariance, <1>1, PTL

\* A stop lets one order through at most, and none once it has returned.
THEOREM LateOrderHolds == Spec => []AtMostOneLateOrder
<1>1. InductiveInvariant => AtMostOneLateOrder
  BY DEF InductiveInvariant, LifecycleInv, CountInv, TypeOK, InHand,
         AtMostOneLateOrder
<1>2. QED
  BY Invariance, <1>1, PTL

\* After stop() has returned nothing is sent and nothing is booked.
THEOREM NothingAfterStopHolds == Spec => NothingAfterStop
<1>1. InductiveInvariant /\ [Next]_vars
        => [stop_pc = "stopped" => UNCHANGED <<brokerVars, bookVars, riskVars>>]_vars
  <2> SUFFICES ASSUME InductiveInvariant, [Next]_vars, stop_pc = "stopped"
               PROVE  UNCHANGED <<brokerVars, bookVars, riskVars>>
    OBVIOUS
  <2>1. c_pc = "done"
    BY DEF InductiveInvariant, LifecycleInv
  <2>2. CASE Processor \/ SpuriousWakeup
    BY <2>1, <2>2
    DEF Processor, LoopHead, Acquire, TestPredicate, Block, Pop, LeaveDrain, Accept,
        Refuse, LoseReply, Place, Confirm, Fail, Relock, SpuriousWakeup, ProcessorMoves
  <2>3. CASE TickThread
    BY <2>3 DEF TickThread, BeginSignal, RiskPass, RiskBlock, Push, Notify
  <2>4. CASE Start \/ StatusExits \/ Stopper
    BY <2>4 DEF Start, StatusExits, Stopper, StopFlag, StopNotify, StopJoin
  <2>5. CASE UNCHANGED vars
    BY <2>5 DEF vars
  <2>6. QED
    BY <2>2, <2>3, <2>4, <2>5 DEF Next
<1>2. QED
  BY Invariance, <1>1, PTL DEF NothingAfterStop, Spec

----------------------------------------------------------------------------
(***************************************************************************)
(* Exposure when orders overlap.  The orders outstanding stand in a line:  *)
(* the one in the processor's hand, those queued, the one approved and not *)
(* pushed yet.  Each was approved when total_exposure with it was within   *)
(* the limit, and since then at most the orders ahead of it were booked.   *)
(***************************************************************************)
\* o is outstanding with n orders ahead of it.
InLine(o, n) ==
  \/ HeldCount = 1 /\ n = 0 /\ o = Head(in_hand)
  \/ \E k \in 1 .. Len(order_queue) : n = HeldCount + (k - 1) /\ o = order_queue[k]
  \/ PushPending = 1 /\ n = HeldCount + Len(order_queue) /\ o = Head(todo)

\* The limit and one order of the maximum size for each order of the backlog
\* but n.
Allowance(n) ==
  limits.max_portfolio_exposure + (backlog - n) * limits.max_order_size

Covered(o, n) ==
  /\ n <= backlog
  /\ Notional(o, PriceUsed(o)) <= limits.max_order_size
  /\ o.is_buy => total_exposure + Notional(o, PriceUsed(o)) <= Allowance(n)

OvershootInv ==
  /\ total_exposure <= Allowance(0)
  /\ \A o \in Orders, n \in Nat : InLine(o, n) => Covered(o, n)

LEMMA MoneyType ==
  ASSUME TypeOK
  PROVE  /\ total_exposure \in Nat /\ backlog \in Nat
         /\ limits.max_portfolio_exposure \in Nat /\ limits.max_order_size \in Nat
         /\ Len(order_queue) \in Nat /\ HeldCount \in 0 .. 1 /\ PushPending \in 0 .. 1
         /\ order_queue \in Seq(Orders)
  BY DEF TypeOK, RiskTypeOK, LimitRecord, HeldCount, PushPending

LEMMA Distribute ==
  ASSUME NEW a \in Int, NEW b \in Int, NEW m \in Nat
  PROVE  /\ (a + b) * m = a * m + b * m
         /\ a * m \in Int
         /\ a >= b => a * m >= b * m
         /\ a >= 0 => a * m >= 0
  OBVIOUS

LEMMA MoveUp ==
  ASSUME NEW b \in Int, NEW c \in Int, NEW n \in Int, NEW d \in Int, NEW m \in Nat, c >= b
  PROVE  /\ (c - n) * m >= (b - (n + d)) * m + d * m
         /\ (c - n) * m \in Int /\ (b - (n + d)) * m \in Int /\ d * m \in Int
<1>1. /\ c - n \in Int /\ b - (n + d) \in Int /\ (b - (n + d)) + d \in Int
      /\ c - n >= (b - (n + d)) + d
  OBVIOUS
<1>2. QED
  BY <1>1, Distribute

\* A step that moves an order d places up the line may book d orders of the
\* maximum size.
LEMMA CoveredStep ==
  ASSUME TypeOK, TypeOK', NEW o \in Orders, NEW n \in Nat, NEW d \in Nat,
         limits' = limits, backlog' >= backlog,
         total_exposure' <= total_exposure + d * limits.max_order_size,
         Covered(o, n + d)
  PROVE  Covered(o, n)'
<1> DEFINE N == Notional(o, PriceUsed(o))
           M == limits.max_order_size
           E == limits.max_portfolio_exposure
<1>1. /\ total_exposure \in Nat /\ backlog \in Nat /\ E \in Nat /\ M \in Nat
      /\ total_exposure' \in Nat /\ backlog' \in Nat
  BY MoneyType DEF TypeOK, RiskTypeOK
<1>2. N \in Nat
  BY NotionalType
<1>3. n + d <= backlog /\ N <= M
  BY DEF Covered
<1>4. n <= backlog'
  BY <1>1, <1>3
<1>5. /\ (backlog' - n) * M >= (backlog - (n + d)) * M + d * M
      /\ (backlog - (n + d)) * M \in Int /\ (backlog' - n) * M \in Int /\ d * M \in Int
  BY <1>1, MoveUp
<1>6. ASSUME o.is_buy PROVE total_exposure' + N <= E + (backlog' - n) * M
  <2>1. total_exposure + N <= E + (backlog - (n + d)) * M
    BY <1>6 DEF Covered, Allowance
  <2>3. PICK X \in Int, Y \in Int, Z \in Int :
          /\ X = (backlog - (n + d)) * M /\ Y = (backlog' - n) * M /\ Z = d * M
    BY <1>5
  <2>4. total_exposure + N <= E + X /\ total_exposure' <= total_exposure + Z /\ Y >= X + Z
    BY <1>5, <2>1, <2>3
  <2>5. total_exposure' + N <= E + Y
    BY <1>1, <1>2, <2>4
  <2>6. QED
    BY <2>3, <2>5
<1>7. QED
  BY <1>3, <1>4, <1>6 DEF Covered, Allowance, Notional, PriceUsed

\* The exposure itself, when nothing is booked.
LEMMA AllowanceGrows ==
  ASSUME TypeOK, TypeOK', limits' = limits, backlog' >= backlog,
         total_exposure' <= total_exposure, total_exposure <= Allowance(0)
  PROVE  (total_exposure <= Allowance(0))'
<1>1. /\ total_exposure \in Nat /\ total_exposure' \in Nat
      /\ backlog - 0 \in Int /\ backlog' - 0 \in Int /\ backlog' - 0 >= backlog - 0
      /\ limits.max_portfolio_exposure \in Nat /\ limits.max_order_size \in Nat
  <2>1. total_exposure' \in Nat /\ backlog' \in Nat
    BY DEF TypeOK, RiskTypeOK
  <2>2. \A x, y \in Nat : y >= x => x - 0 \in Int /\ y - 0 \in Int /\ y - 0 >= x - 0
    OBVIOUS
  <2>3. QED
    BY <2>1, <2>2, MoneyType
<1>2. /\ (backlog' - 0) * limits.max_order_size >= (backlog - 0) * limits.max_order_size
      /\ (backlog' - 0) * limits.max_order_size \in Int
      /\ (backlog - 0) * limits.max_order_size \in Int
  BY <1>1, Distribute
<1>3. \A t, u, e, x, y \in Int : t <= e + x /\ u <= t /\ y >= x => u <= e + y
  OBVIOUS
<1>4. QED
  BY <1>1, <1>2, <1>3 DEF Allowance

\* The line moves up past an order that is booked or given up; nothing else
\* but an approval changes it.
LEMMA LineKept ==
  ASSUME TypeOK,
         UNCHANGED <<HeldCount, order_queue, PushPending>>,
         HeldCount = 1 => in_hand' = in_hand,
         PushPending = 1 => todo' = todo
  PROVE  \A o, n : InLine(o, n)' => InLine(o, n)
  BY MoneyType DEF InLine

LEMMA LinePop ==
  ASSUME TypeOK, Pop
  PROVE  \A o \in Orders, n \in Nat : InLine(o, n)' => InLine(o, n)
<1>1. /\ HeldCount = 0 /\ HeldCount' = 1 /\ UNCHANGED <<PushPending, todo>>
      /\ order_queue # <<>> /\ order_queue' = Tail(order_queue)
      /\ in_hand' = <<Head(order_queue)>>
  BY DEF Pop, HeldCount, PushPending, tickVars
<1>2. PICK K \in Nat : K = Len(order_queue)
  BY MoneyType
<1>3. /\ K >= 1 /\ Len(order_queue') = K - 1
      /\ \A k \in 1 .. K - 1 : order_queue'[k] = order_queue[k + 1]
      /\ Head(order_queue) = order_queue[1]
  BY <1>1, <1>2, MoneyType
<1>4. SUFFICES ASSUME NEW o \in Orders, NEW n \in Nat, InLine(o, n)' PROVE InLine(o, n)
  OBVIOUS
<1>5. CASE n = 0 /\ o = Head(in_hand')
  <2>1. 1 \in 1 .. Len(order_queue) /\ n = HeldCount + (1 - 1) /\ o = order_queue[1]
    BY <1>1, <1>2, <1>3, <1>5
  <2>2. QED
    BY <2>1 DEF InLine
<1>6. CASE \E k \in 1 .. Len(order_queue') :
             n = HeldCount' + (k - 1) /\ o = order_queue'[k]
  <2>1. PICK k \in 1 .. K - 1 : n = 1 + (k - 1) /\ o = order_queue[k + 1]
    BY <1>1, <1>3, <1>6
  <2>2. k + 1 \in 1 .. Len(order_queue) /\ n = HeldCount + ((k + 1) - 1)
    BY <1>1, <1>2, <2>1
  <2>3. QED
    BY <2>1, <2>2 DEF InLine
<1>7. CASE PushPending' = 1 /\ n = HeldCount' + Len(order_queue') /\ o = Head(todo')
  <2>1. n = HeldCount + Len(order_queue)
    BY <1>1, <1>2, <1>3, <1>7
  <2>2. QED
    BY <1>1, <1>7, <2>1 DEF InLine
<1>8. QED
  BY <1>4, <1>5, <1>6, <1>7 DEF InLine

LEMMA LinePush ==
  ASSUME TypeOK, Push
  PROVE  \A o \in Orders, n \in Nat : InLine(o, n)' => InLine(o, n)
<1>1. /\ UNCHANGED <<HeldCount, in_hand>> /\ PushPending = 1 /\ PushPending' = 0
      /\ order_queue' = Append(order_queue, Head(todo))
  BY DEF Push, HeldCount, PushPending, processorVars, AfterOrder
<1>2. PICK K \in Nat : K = Len(order_queue)
  BY MoneyType
<1>3. /\ Len(order_queue') = K + 1
      /\ \A k \in 1 .. K : order_queue'[k] = order_queue[k]
      /\ order_queue'[K + 1] = Head(todo)
  BY <1>1, <1>2, MoneyType
<1>4. SUFFICES ASSUME NEW o \in Orders, NEW n \in Nat, InLine(o, n)' PROVE InLine(o, n)
  OBVIOUS
<1>5. CASE HeldCount' = 1 /\ n = 0 /\ o = Head(in_hand')
  BY <1>1, <1>5 DEF InLine
<1>6. CASE \E k \in 1 .. Len(order_queue') :
             n = HeldCount' + (k - 1) /\ o = order_queue'[k]
  <2>1. PICK k \in 1 .. K + 1 : n = HeldCount + (k - 1) /\ o = order_queue'[k]
    BY <1>1, <1>3, <1>6
  <2>2. CASE k = K + 1
    BY <1>1, <1>2, <1>3, <2>1, <2>2 DEF InLine
  <2>3. CASE k # K + 1
    <3>1. k \in 1 .. Len(order_queue) /\ o = order_queue[k]
      BY <1>2, <1>3, <2>1, <2>3
    <3>2. QED
      BY <2>1, <3>1 DEF InLine
  <2>4. QED
    BY <2>2, <2>3
<1>7. QED
  BY <1>1, <1>4, <1>5, <1>6 DEF InLine

LEMMA LineRelease ==
  ASSUME TypeOK, Confirm \/ Fail
  PROVE  /\ InLine(Head(in_hand), 0)
         /\ \A o \in Orders, n \in Nat : InLine(o, n)' => InLine(o, n + 1)
<1>1. /\ HeldCount = 1 /\ HeldCount' = 0
      /\ UNCHANGED <<order_queue, PushPending, todo>>
  BY DEF Confirm, Fail, HeldCount, PushPending, queueVars, tickVars
<1>2. \A o \in Orders, n \in Nat : InLine(o, n)' => InLine(o, n + 1)
  <2> SUFFICES ASSUME NEW o \in Orders, NEW n \in Nat, InLine(o, n)'
               PROVE  InLine(o, n + 1)
    OBVIOUS
  <2>1. PICK K \in Nat : K = Len(order_queue)
    BY MoneyType
  <2>2. CASE \E k \in 1 .. Len(order_queue') :
               n = HeldCount' + (k - 1) /\ o = order_queue'[k]
    <3>1. PICK k \in 1 .. K : n = 0 + (k - 1) /\ o = order_queue[k]
      BY <1>1, <2>1, <2>2
    <3>2. n + 1 = HeldCount + (k - 1)
      BY <1>1, <3>1
    <3>3. QED
      BY <2>1, <3>1, <3>2 DEF InLine
  <2>3. CASE PushPending' = 1 /\ n = HeldCount' + Len(order_queue') /\ o = Head(todo')
    <3>1. n + 1 = HeldCount + Len(order_queue)
      BY <1>1, <2>1, <2>3
    <3>2. QED
      BY <1>1, <2>3, <3>1 DEF InLine
  <2>4. QED
    BY <1>1, <2>2, <2>3 DEF InLine
<1>3. QED
  BY <1>1, <1>2 DEF InLine

\* A step that books nothing and brings nobody into the line.
LEMMA OvershootKept ==
  ASSUME TypeOK, TypeOK', OvershootInv,
         UNCHANGED <<limits, total_exposure>>, backlog' >= backlog,
         \A o \in Orders, n \in Nat : InLine(o, n)' => InLine(o, n)
  PROVE  OvershootInv'
<1>1. (total_exposure <= Allowance(0))'
  BY AllowanceGrows, MoneyType DEF OvershootInv
<1>2. ASSUME NEW o \in Orders, NEW n \in Nat, InLine(o, n)' PROVE Covered(o, n)'
  <2>1. Covered(o, n + 0)
    <3>1. Covered(o, n) /\ n + 0 = n
      BY <1>2 DEF OvershootInv
    <3>2. QED
      BY <3>1
  <2>2. total_exposure' <= total_exposure + 0 * limits.max_order_size
    BY MoneyType
  <2>3. QED
    BY <2>1, <2>2, CoveredStep
<1>3. QED
  BY <1>1, <1>2 DEF OvershootInv

\* An order let through joins the end of the line.
LEMMA OvershootApprove ==
  ASSUME TypeOK, TypeOK', OvershootInv, RiskPass
  PROVE  OvershootInv'
<1> DEFINE a == Head(todo)
           N == Notional(a, PriceUsed(a))
           L == HeldCount + Len(order_queue)
<1>1. /\ UNCHANGED <<riskVars, order_queue, todo, in_hand, HeldCount>>
      /\ PushPending = 0 /\ PushPending' = 1
  BY DEF RiskPass, queueVars, processorVars, HeldCount, PushPending
<1>2. Len(Outstanding) = L /\ L \in Nat
  BY OutstandingLength, MoneyType
<1>3. L <= backlog' /\ backlog' >= backlog
  BY <1>2, MoneyType DEF RiskPass
<1>4. limits' = limits /\ total_exposure' = total_exposure
  BY <1>1 DEF riskVars
<1>5. (total_exposure <= Allowance(0))'
  BY <1>3, <1>4, AllowanceGrows, MoneyType DEF OvershootInv
<1>6. Covered(a, L)'
  <2>1. /\ N <= limits.max_order_size
        /\ a.is_buy => total_exposure + N <= limits.max_portfolio_exposure
    BY DEF RiskPass, CanSubmitOrder, BuyFits
  <2>2. a \in Orders /\ N \in Nat
    <3>1. a \in Orders
      BY DEF RiskPass, TypeOK
    <3>2. QED
      BY <3>1, NotionalType
  <2>3. (backlog' - L) * limits.max_order_size >= 0
        /\ (backlog' - L) * limits.max_order_size \in Int
    <3>1. backlog' \in Nat /\ limits.max_order_size \in Nat
      BY MoneyType DEF TypeOK
    <3>2. backlog' - L \in Int /\ backlog' - L >= 0
      BY <1>2, <1>3, <3>1
    <3>3. QED
      BY <3>1, <3>2, Distribute
  <2>4. a.is_buy => total_exposure + N
                      <= limits.max_portfolio_exposure
                         + (backlog' - L) * limits.max_order_size
    <3>1. \A t, e, x \in Int : t <= e /\ x >= 0 => t <= e + x
      OBVIOUS
    <3>2. total_exposure + N \in Int
      BY <2>2, MoneyType
    <3>3. QED
      BY <2>1, <2>3, <3>1, <3>2, MoneyType
  <2>5. QED
    BY <1>1, <1>3, <1>4, <2>1, <2>4 DEF Covered, Allowance, Notional, PriceUsed
<1>7. ASSUME NEW o \in Orders, NEW n \in Nat, InLine(o, n)' PROVE Covered(o, n)'
  <2>1. CASE n = L /\ o = a
    BY <1>1, <1>6, <2>1
  <2>2. CASE InLine(o, n)
    <3>1. Covered(o, n + 0)
      <4>1. Covered(o, n) /\ n + 0 = n
        BY <2>2 DEF OvershootInv
      <4>2. QED
        BY <4>1
    <3>2. total_exposure' <= total_exposure + 0 * limits.max_order_size
      BY <1>4, MoneyType
    <3>3. QED
      BY <1>3, <1>4, <3>1, <3>2, CoveredStep
  <2>3. QED
    BY <1>1, <1>7, <2>1, <2>2 DEF InLine
<1>8. QED
  BY <1>5, <1>7 DEF OvershootInv

\* The head of the line is booked or given up, and the others move up.
LEMMA OvershootRelease ==
  ASSUME TypeOK, TypeOK', OvershootInv, Confirm \/ Fail
  PROVE  OvershootInv'
<1> DEFINE h == Head(in_hand)
           N == Notional(h, PriceUsed(h))
<1>1. h \in Orders /\ N \in Nat
  BY HeadType, NotionalType DEF Confirm, Fail, TypeOK
<1>2. Covered(h, 0)
  BY <1>1, LineRelease DEF OvershootInv
<1>3. limits' = limits /\ backlog' = backlog
  BY DEF Confirm, Fail, OnOrderFilled, riskVars, tickVars
<1>4. \/ total_exposure' <= total_exposure
      \/ h.is_buy /\ total_exposure' = total_exposure + N
  <2>1. CASE Fail
    BY <2>1, MoneyType DEF Fail, riskVars
  <2>2. CASE Confirm
    BY <1>1, <2>2, MoneyType DEF Confirm, OnOrderFilled, FloorAtZero
  <2>3. QED
    BY <2>1, <2>2
<1>5. (total_exposure <= Allowance(0))'
  <2>1. CASE total_exposure' <= total_exposure
    BY <1>3, <2>1, AllowanceGrows, MoneyType DEF OvershootInv
  <2>2. CASE h.is_buy /\ total_exposure' = total_exposure + N
    BY <1>2, <1>3, <2>2 DEF Covered, Allowance
  <2>3. QED
    BY <1>4, <2>1, <2>2
<1>6. total_exposure' <= total_exposure + 1 * limits.max_order_size
  <2>1. N <= limits.max_order_size
    BY <1>2 DEF Covered
  <2>2. total_exposure' \in Nat
    BY DEF TypeOK, RiskTypeOK
  <2>3. QED
    BY <1>1, <1>4, <2>1, <2>2, MoneyType
<1>7. ASSUME NEW o \in Orders, NEW n \in Nat, InLine(o, n)' PROVE Covered(o, n)'
  <2>1. Covered(o, n + 1)
    BY <1>7, LineRelease DEF OvershootInv
  <2>2. backlog' >= backlog
    BY <1>3, MoneyType
  <2>3. QED
    BY <1>3, <1>6, <2>1, <2>2, CoveredStep
<1>8. QED
  BY <1>5, <1>7 DEF OvershootInv

LEMMA OvershootStep ==
  ASSUME TypeOK, TypeOK', OvershootInv, [Next]_vars
  PROVE  OvershootInv'
<1>1. CASE RiskPass
  BY <1>1, OvershootApprove
<1>2. CASE Confirm \/ Fail
  BY <1>2, OvershootRelease
<1>3. CASE Pop
  <2>1. UNCHANGED <<limits, total_exposure, backlog>>
    BY <1>3 DEF Pop, riskVars, tickVars
  <2>2. QED
    BY <1>3, <2>1, LinePop, MoneyType, OvershootKept
<1>4. CASE Push
  <2>1. UNCHANGED <<limits, total_exposure, backlog>>
    BY <1>4 DEF Push, riskVars
  <2>2. QED
    BY <1>4, <2>1, LinePush, MoneyType, OvershootKept
<1>5. ASSUME UNCHANGED <<riskVars, order_queue, backlog, HeldCount, PushPending>>,
             HeldCount = 1 => in_hand' = in_hand,
             PushPending = 1 => todo' = todo
      PROVE  OvershootInv'
  <2>1. UNCHANGED <<limits, total_exposure, backlog>>
    BY <1>5 DEF riskVars
  <2>2. \A o \in Orders, n \in Nat : InLine(o, n)' => InLine(o, n)
    BY <1>5, LineKept
  <2>3. QED
    BY <2>1, <2>2, MoneyType, OvershootKept
<1>6. CASE BeginSignal \/ RiskBlock
  <2>1. UNCHANGED <<riskVars, order_queue, backlog, in_hand, HeldCount>>
    BY <1>6 DEF BeginSignal, RiskBlock, queueVars, processorVars, HeldCount
  <2>2. PushPending = 0 /\ PushPending' = 0
    BY <1>6 DEF BeginSignal, RiskBlock, AfterOrder, PushPending
  <2>3. QED
    BY <1>5, <2>1, <2>2
<1>7. CASE Notify \/ StopNotify
  BY <1>5, <1>7 DEF Notify, StopNotify, WakeProcessor, HeldCount, PushPending,
                    queueVars, tickVars
<1>8. CASE LoopHead \/ Acquire \/ TestPredicate \/ Block \/ SpuriousWakeup
           \/ LeaveDrain \/ Relock
  BY <1>5, <1>8 DEF LoopHead, Acquire, TestPredicate, Block, SpuriousWakeup,
                    LeaveDrain, Relock, ProcessorMoves, HeldCount, PushPending,
                    queueVars, tickVars
<1>9. CASE Accept \/ Refuse \/ LoseReply
  BY <1>5, <1>9 DEF Accept, Refuse, LoseReply, Place, HeldCount, PushPending,
                    queueVars, tickVars
<1>10. CASE Start \/ StatusExits \/ StopFlag \/ StopJoin
  BY <1>5, <1>10 DEF Start, StatusExits, StopFlag, StopJoin, HeldCount, PushPending,
                     queueVars, tickVars, processorVars
<1>11. CASE UNCHANGED vars
  BY <1>5, <1>11 DEF vars, HeldCount, PushPending, queueVars, tickVars, processorVars
<1>12. QED
  BY <1>1, <1>2, <1>3, <1>4, <1>6, <1>7, <1>8, <1>9, <1>10, <1>11
  DEF Next, TickThread, Processor, Stopper

\* The portfolio limit is exceeded by at most one order of the maximum size
\* for each order that was undecided when another was approved.
THEOREM ExposureOvershootHolds == Spec => []ExposureOvershoot
<1>1. Init => OvershootInv
  <2> SUFFICES ASSUME Init PROVE OvershootInv
    OBVIOUS
  <2>1. total_exposure <= Allowance(0)
    BY LimitsAssumption DEF Init, RiskInit, LimitRecord, Allowance
  <2>2. ~ \E o \in Orders, n \in Nat : InLine(o, n)
    BY DEF Init, InLine, HeldCount, PushPending
  <2>3. QED
    BY <2>1, <2>2 DEF OvershootInv
<1>2. TypeOK /\ TypeOK' /\ OvershootInv /\ [Next]_vars => OvershootInv'
  BY OvershootStep
<1>3. TypeOK /\ OvershootInv => ExposureOvershoot
  BY MoneyType DEF OvershootInv, Allowance, ExposureOvershoot
<1>4. QED
  BY TypeCorrect, <1>1, <1>2, <1>3, PTL DEF Spec

----------------------------------------------------------------------------
(***************************************************************************)
(* The order path implements the safety part of OrderGateway: its initial  *)
(* states are the gateway's and each of its steps is a step of the gateway *)
(* or a stutter.                                                           *)
(***************************************************************************)
\* Appending to the second of two sequences appends to their concatenation.
LEMMA AppendToConcat ==
  ASSUME NEW p \in Seq(Orders), NEW q \in Seq(Orders), NEW o \in Orders
  PROVE  p \o Append(q, o) = Append(p \o q, o)
<1>1. <<o>> \in Seq(Orders)
  OBVIOUS
<1>2. p \o q \in Seq(Orders)
  BY ConcatProperties
<1>3. Append(q, o) = q \o <<o>> /\ Append(p \o q, o) = (p \o q) \o <<o>>
  BY <1>2, AppendIsConcat
<1>4. QED
  BY <1>1, <1>3, ConcatAssociative

\* A sequence is its head followed by its tail.
LEMMA HeadThenTail ==
  ASSUME NEW q \in Seq(Orders), q # <<>>
  PROVE  <<Head(q)>> \o Tail(q) = q
<1>1. /\ Tail(q) \in Seq(Orders) /\ Len(Tail(q)) = Len(q) - 1
      /\ \A i \in 1 .. Len(q) - 1 : Tail(q)[i] = q[i + 1]
      /\ Head(q) = q[1] /\ Head(q) \in Orders
  OBVIOUS
<1>2. <<Head(q)>> \in Seq(Orders) /\ Len(<<Head(q)>>) = 1 /\ <<Head(q)>>[1] = Head(q)
  BY <1>1
<1>3. /\ <<Head(q)>> \o Tail(q) \in Seq(Orders)
      /\ Len(<<Head(q)>> \o Tail(q)) = Len(q)
      /\ \A i \in 1 .. Len(q) : (<<Head(q)>> \o Tail(q))[i] = q[i]
  BY <1>1, <1>2, ConcatProperties
<1>4. QED
  BY <1>3, SeqEqual

\* What is pending when no order is in hand, and when one is.
LEMMA PendingIs ==
  ASSUME TypeOK
  PROVE  /\ c_pc # "place" => GatewayPending = order_queue
         /\ c_pc = "place" => /\ GatewayPending = in_hand \o order_queue
                              /\ in_hand = <<Head(in_hand)>>
                              /\ Head(in_hand) \in Orders
<1>1. order_queue \in Seq(Orders) /\ in_hand \in Seq(Orders)
  BY DEF TypeOK
<1>2. c_pc # "place" => GatewayPending = order_queue
  BY <1>1, ConcatEmptySeq DEF GatewayPending
<1>3. ASSUME c_pc = "place"
      PROVE  in_hand = <<Head(in_hand)>> /\ Head(in_hand) \in Orders
  <2>1. Len(in_hand) = 1
    BY <1>3 DEF TypeOK
  <2>2. Head(in_hand) = in_hand[1] /\ Head(in_hand) \in Orders
    BY <1>1, <2>1
  <2>3. /\ <<Head(in_hand)>> \in Seq(Orders) /\ Len(<<Head(in_hand)>>) = 1
        /\ <<Head(in_hand)>>[1] = Head(in_hand)
    BY <2>2
  <2>4. \A i \in 1 .. Len(in_hand) : in_hand[i] = <<Head(in_hand)>>[i]
    BY <2>1, <2>2, <2>3
  <2>5. QED
    BY <1>1, <2>1, <2>2, <2>3, <2>4, SeqEqual
<1>4. QED
  BY <1>2, <1>3 DEF GatewayPending

\* Queueing an order queues it at the gateway.
LEMMA PushQueues ==
  ASSUME TypeOK, Push
  PROVE  Gateway!Queue
<1> DEFINE p == IF c_pc = "place" THEN in_hand ELSE <<>>
           o == Head(todo)
<1>1. p \in Seq(Orders) /\ order_queue \in Seq(Orders)
  BY DEF TypeOK
<1>2. todo \in Seq(Orders) /\ todo # <<>>
  BY DEF TypeOK, Push
<1>3. o \in Orders
  BY <1>2
<1>4. GatewayPending = p \o order_queue /\ GatewayPending' = p \o Append(order_queue, o)
  BY DEF GatewayPending, Push, processorVars
<1>5. GatewayPending' = Append(GatewayPending, o)
  BY <1>1, <1>3, <1>4, AppendToConcat
<1>6. UNCHANGED <<sent, GatewayPhase>>
  BY DEF Push, GatewayPhase, brokerVars, processorVars, stopVars
<1>7. QED
  BY <1>3, <1>5, <1>6 DEF Gateway!Queue

\* Popping an order leaves what is pending and the phase alone.
LEMMA PopStutters ==
  ASSUME InductiveInvariant, Pop
  PROVE  UNCHANGED Gateway!vars
<1>1. TypeOK /\ stop_pc = "none"
  BY DEF InductiveInvariant, LifecycleInv, Pop
<1>2. order_queue \in Seq(Orders) /\ order_queue # <<>>
  BY <1>1 DEF TypeOK, Pop
<1>3. GatewayPending = order_queue
  BY <1>1, PendingIs DEF Pop
<1>4. GatewayPending' = <<Head(order_queue)>> \o Tail(order_queue)
  BY DEF GatewayPending, Pop
<1>5. GatewayPending' = GatewayPending
  BY <1>2, <1>3, <1>4, HeadThenTail
<1>6. UNCHANGED <<sent, GatewayPhase>>
  BY <1>1 DEF Pop, GatewayPhase, brokerVars, stopVars
<1>7. QED
  BY <1>5, <1>6 DEF Gateway!vars

\* A call of place_order is a transmission, the last one if stop has begun.
LEMMA PlaceSends ==
  ASSUME TypeOK, NEW taken \in BOOLEAN, NEW answered \in BOOLEAN, Place(taken, answered)
  PROVE  Gateway!Send \/ Gateway!SendLast
<1> DEFINE o == Head(in_hand)
<1>1. c_pc = "place" /\ c_pc' # "place" /\ order_queue' = order_queue
  BY DEF Place, queueVars
<1>2. /\ order_queue \in Seq(Orders)
      /\ GatewayPending = <<o>> \o order_queue /\ o \in Orders
  BY <1>1, PendingIs DEF TypeOK
<1>3. GatewayPending' = order_queue
  BY <1>1, <1>2, ConcatEmptySeq DEF GatewayPending
<1>4. /\ GatewayPending # <<>>
      /\ Head(GatewayPending) = o /\ Tail(GatewayPending) = order_queue
  BY <1>2
<1>5. sent' = Append(sent, o) /\ stop_pc' = stop_pc
  BY DEF Place, stopVars
<1>6. Gateway!Transmit
  BY <1>3, <1>4, <1>5 DEF Gateway!Transmit
<1>7. CASE stop_pc = "none"
  BY <1>5, <1>6, <1>7 DEF Gateway!Send, GatewayPhase
<1>8. CASE stop_pc # "none"
  BY <1>1, <1>5, <1>6, <1>8 DEF Gateway!SendLast, GatewayPhase
<1>9. QED
  BY <1>7, <1>8

\* Clearing m_running closes the gateway.
LEMMA StopCloses ==
  ASSUME StopFlag
  PROVE  Gateway!Close
<1>1. UNCHANGED <<GatewayPending, sent>>
  BY DEF StopFlag, GatewayPending, queueVars, processorVars, brokerVars
<1>2. GatewayPhase = "open" /\ GatewayPhase' \in {"closing", "closed"}
  BY DEF StopFlag, GatewayPhase
<1>3. QED
  BY <1>1, <1>2 DEF Gateway!Close

\* The other steps are not seen at the gateway.
LEMMA OthersStutter ==
  ASSUME TypeOK,
         \/ Start \/ StatusExits \/ StopNotify \/ StopJoin \/ SpuriousWakeup
         \/ BeginSignal \/ RiskPass \/ RiskBlock \/ Notify
         \/ LoopHead \/ Acquire \/ TestPredicate \/ Block \/ LeaveDrain
         \/ Confirm \/ Fail \/ Relock \/ UNCHANGED vars
  PROVE  UNCHANGED Gateway!vars
<1>1. UNCHANGED <<order_queue, sent>>
  BY DEF Start, StatusExits, StopNotify, StopJoin, SpuriousWakeup, BeginSignal, RiskPass,
         RiskBlock, Notify, LoopHead, Acquire, TestPredicate, Block, LeaveDrain, Confirm,
         Fail, Relock, ProcessorMoves, queueVars, brokerVars, vars
<1>2. /\ c_pc = "place" <=> c_pc' = "place"
      /\ stop_pc = "none" <=> stop_pc' = "none"
      /\ c_pc = "place" => in_hand' = in_hand
  BY DEF Start, StatusExits, StopNotify, StopJoin, SpuriousWakeup, BeginSignal, RiskPass,
         RiskBlock, Notify, LoopHead, Acquire, TestPredicate, Block, LeaveDrain, Confirm,
         Fail, Relock, ProcessorMoves, WakeProcessor, processorVars, stopVars, vars
<1>3. QED
  BY <1>1, <1>2 DEF Gateway!vars, GatewayPending, GatewayPhase

\* The order path, whatever its threads do, is a gateway: each order queued
\* reaches the exchange at most once, in the order of queueing, and at most
\* one does so after stop has begun.
THEOREM GatewayRefined == Spec => Gateway!Spec
<1>1. Init => Gateway!Init
  BY DEF Init, Gateway!Init, GatewayPending, GatewayPhase
<1>2. InductiveInvariant /\ [Next]_vars => [Gateway!Next]_(Gateway!vars)
  <2> SUFFICES ASSUME InductiveInvariant, [Next]_vars
               PROVE  Gateway!Next \/ UNCHANGED Gateway!vars
    OBVIOUS
  <2>1. TypeOK
    BY DEF InductiveInvariant
  <2>2. CASE Push
    BY <2>1, <2>2, PushQueues DEF Gateway!Next
  <2>3. CASE Pop
    BY <2>3, PopStutters
  <2>4. CASE Accept \/ Refuse \/ LoseReply
    BY <2>1, <2>4, PlaceSends DEF Accept, Refuse, LoseReply, Gateway!Next
  <2>5. CASE StopFlag
    BY <2>5, StopCloses DEF Gateway!Next
  <2>6. CASE ~(Push \/ Pop \/ Accept \/ Refuse \/ LoseReply \/ StopFlag)
    BY <2>1, <2>6, OthersStutter DEF Next, TickThread, Processor, Stopper
  <2>7. QED
    BY <2>2, <2>3, <2>4, <2>5, <2>6
<1>3. QED
  BY Invariance, <1>1, <1>2, PTL DEF Spec, Gateway!Spec
=============================================================================
