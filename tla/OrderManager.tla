---------------------------- MODULE OrderManager ----------------------------
(***************************************************************************)
(* The order path of src/src/live/order_manager.hpp with the RiskManager   *)
(* it consults.  Four threads act:                                         *)
(*                                                                         *)
(*   the tick thread     process_signal: gate each order, queue it, notify *)
(*   the processor       process_orders: wait, drain, place, book          *)
(*   the status thread   check_order_status: sleeps until told to stop     *)
(*   the stopper         stop: clear m_running, notify, join               *)
(*                                                                         *)
(* m_queue_mutex is held by the processor over several steps and by the    *)
(* tick thread within one, so who holds it can be read off c_pc.  The      *)
(* condition variable's wait set is {processor} exactly when c_pc is       *)
(* "waiting".  The exchange is external: place_order may accept, refuse,   *)
(* or accept and lose the answer (an empty id after a timeout).            *)
(*                                                                         *)
(* The client calls start once and, later, stop once.                      *)
(***************************************************************************)
EXTENDS RiskManager, Sequences

CONSTANTS
  Signals,       \* what a strategy may emit: sequences of orders
  Balances,      \* the cash balances get_balance may report
  LossyReplies,  \* TRUE: a place_order reply may be lost
  MaxSignals     \* bound: signals processed

ASSUME SignalsAssumption == Signals \subseteq Seq(Orders)
ASSUME BalancesAssumption == Balances \subseteq Int
ASSUME LossyAssumption == LossyReplies \in BOOLEAN
ASSUME MaxSignalsAssumption == MaxSignals \in Nat

VARIABLES
  order_queue,      \* m_order_queue
  active_orders,    \* m_active_orders, in order of insertion: never erased
  running,          \* m_running
  total_orders,     \* m_total_orders
  filled_orders,    \* m_filled_orders: counts accepted submissions
  rejected_orders,  \* m_rejected_orders: by the gate or by the exchange
  p_pc, todo,       \* tick thread: where it is, orders left in the signal
  c_pc, in_hand,    \* processor: where it is, the order popped (<<>> if none)
  s_pc,             \* status thread
  stop_pc,          \* how far stop() has come
  \* What follows is not in the program: it records what happened.
  signals,          \* signals processed so far
  examined,         \* orders the gate has decided on
  sent,             \* every order given to place_order, in order
  broker_position,  \* what the exchange holds for us
  lost,             \* a place_order reply was lost
  backlog,          \* most orders ever undecided when another was approved
  stop_mark         \* Len(sent) when m_running was cleared

queueVars  == <<order_queue, total_orders>>
tickVars   == <<p_pc, todo, signals, examined, backlog>>
processorVars == <<c_pc, in_hand>>
brokerVars == <<sent, broker_position, lost>>
bookVars   == <<active_orders, filled_orders>>
stopVars   == <<running, s_pc, stop_pc, stop_mark>>

vars == <<riskVars, queueVars, tickVars, processorVars, brokerVars, bookVars,
          rejected_orders, stopVars>>

----------------------------------------------------------------------------
\* Faulty variant: process_signal does not take the mutex.
QueueNeverLocked == TRUE

\* m_queue_mutex is free for the tick thread.
QueueUnlocked == c_pc \notin {"test", "block", "drain"}

\* The order popped is not booked or given up yet.
InHand == IF c_pc \in {"place", "confirm", "fail"} THEN in_hand ELSE <<>>

\* Approved orders the RiskManager has not heard about again.
Outstanding == InHand \o order_queue

AfterOrder(rest) == IF rest = <<>> THEN "notify" ELSE "check"

SignedQuantity(o) == IF o.is_buy THEN o.quantity ELSE -o.quantity

TypeOK ==
  /\ RiskTypeOK
  /\ order_queue \in Seq(Orders)
  /\ active_orders \in Seq(Orders)
  /\ running \in BOOLEAN
  /\ total_orders \in Nat /\ filled_orders \in Nat /\ rejected_orders \in Nat
  /\ p_pc \in {"idle", "check", "push", "notify"}
  /\ todo \in Seq(Orders)
  /\ p_pc \in {"check", "push"} => todo # <<>>
  /\ c_pc \in {"off", "head", "acquire", "test", "block", "waiting",
               "drain", "place", "confirm", "fail", "relock", "done"}
  /\ in_hand \in Seq(Orders)
  /\ c_pc \in {"place", "confirm", "fail"} => Len(in_hand) = 1
  /\ s_pc \in {"off", "run", "done"}
  /\ stop_pc \in {"none", "flagged", "notified", "stopped"}
  /\ signals \in Nat /\ examined \in Nat
  /\ sent \in Seq(Orders)
  /\ broker_position \in [Symbols -> Int]
  /\ lost \in BOOLEAN
  /\ backlog \in Nat
  /\ stop_mark \in Nat

Init ==
  /\ RiskInit
  /\ order_queue = <<>> /\ active_orders = <<>>
  /\ running = FALSE
  /\ total_orders = 0 /\ filled_orders = 0 /\ rejected_orders = 0
  /\ p_pc = "idle" /\ todo = <<>>
  /\ c_pc = "off" /\ in_hand = <<>>
  /\ s_pc = "off"
  /\ stop_pc = "none"
  /\ signals = 0 /\ examined = 0
  /\ sent = <<>>
  /\ broker_position = [s \in Symbols |-> 0]
  /\ lost = FALSE
  /\ backlog = 0
  /\ stop_mark = 0

----------------------------------------------------------------------------
\* start()
Start ==
  /\ c_pc = "off"
  /\ running' = TRUE
  /\ c_pc' = "head"
  /\ s_pc' = "run"
  /\ UNCHANGED <<riskVars, queueVars, tickVars, in_hand, brokerVars, bookVars,
                 rejected_orders, stop_pc, stop_mark>>

----------------------------------------------------------------------------
\* The tick thread.  A valid signal passes the breaker (a tripped breaker
\* returns at once and changes nothing here) and its orders are examined in
\* turn.  process_signal does not look at m_running.
BeginSignal ==
  /\ p_pc = "idle"
  /\ signals < MaxSignals
  /\ \E orders \in Signals :
       /\ todo' = orders
       /\ p_pc' = AfterOrder(orders)
  /\ signals' = signals + 1
  /\ UNCHANGED <<riskVars, queueVars, examined, backlog, processorVars,
                 brokerVars, bookVars, rejected_orders, stopVars>>

\* get_balance and can_submit_order, which let the order through.
RiskPass ==
  /\ p_pc = "check"
  /\ \E balance \in Balances :
       CanSubmitOrder(Head(todo), balance, PriceUsed(Head(todo)))
  /\ p_pc' = "push"
  /\ examined' = examined + 1
  /\ backlog' = IF Len(Outstanding) > backlog THEN Len(Outstanding) ELSE backlog
  /\ UNCHANGED <<riskVars, queueVars, todo, signals, processorVars,
                 brokerVars, bookVars, rejected_orders, stopVars>>

\* The same calls, and the order is blocked.
RiskBlock ==
  /\ p_pc = "check"
  /\ \E balance \in Balances :
       ~CanSubmitOrder(Head(todo), balance, PriceUsed(Head(todo)))
  /\ rejected_orders' = rejected_orders + 1
  /\ examined' = examined + 1
  /\ todo' = Tail(todo)
  /\ p_pc' = AfterOrder(Tail(todo))
  /\ UNCHANGED <<riskVars, queueVars, signals, backlog, processorVars,
                 brokerVars, bookVars, stopVars>>

\* Faulty variant: the push is not counted.
PushUncounted ==
  /\ p_pc = "push"
  /\ QueueUnlocked
  /\ order_queue' = Append(order_queue, Head(todo))
  /\ todo' = Tail(todo)
  /\ p_pc' = AfterOrder(Tail(todo))
  /\ UNCHANGED <<riskVars, total_orders, signals, examined, backlog, processorVars,
                 brokerVars, bookVars, rejected_orders, stopVars>>

\* The critical section that queues the approved order.
Push ==
  /\ p_pc = "push"
  /\ QueueUnlocked
  /\ order_queue' = Append(order_queue, Head(todo))
  /\ total_orders' = total_orders + 1
  /\ todo' = Tail(todo)
  /\ p_pc' = AfterOrder(Tail(todo))
  /\ UNCHANGED <<riskVars, signals, examined, backlog, processorVars,
                 brokerVars, bookVars, rejected_orders, stopVars>>

\* A notification wakes the processor only if it is already waiting.
WakeProcessor == c_pc' = IF c_pc = "waiting" THEN "acquire" ELSE c_pc

\* m_cv.notify_one(), without the mutex.
Notify ==
  /\ p_pc = "notify"
  /\ p_pc' = "idle"
  /\ WakeProcessor
  /\ UNCHANGED <<riskVars, queueVars, todo, signals, examined, backlog, in_hand,
                 brokerVars, bookVars, rejected_orders, stopVars>>

----------------------------------------------------------------------------
\* The processor.
ProcessorMoves(from, to) ==
  /\ c_pc = from
  /\ c_pc' = to
  /\ UNCHANGED <<riskVars, queueVars, tickVars, in_hand, brokerVars, bookVars,
                 rejected_orders, stopVars>>

\* while (m_running)
LoopHead == ProcessorMoves("head", IF running THEN "acquire" ELSE "done")

\* Taking the mutex, from the top of the loop or inside wait().
Acquire == ProcessorMoves("acquire", "test")

\* Faulty variant: the predicate forgets the shutdown.
TestPredicateQueueOnly ==
  ProcessorMoves("test", IF order_queue # <<>> THEN "drain" ELSE "block")

\* The predicate of m_cv.wait, under the mutex.
TestPredicate ==
  ProcessorMoves("test", IF order_queue # <<>> \/ ~running THEN "drain" ELSE "block")

\* wait() releases the mutex and blocks, as one step.
Block == ProcessorMoves("block", "waiting")

SpuriousWakeup == ProcessorMoves("waiting", "acquire")

\* Faulty variants: the whole queue is drained whatever m_running says, and
\* the order is read but not removed.
PopWhenStopped ==
  /\ c_pc = "drain"
  /\ order_queue # <<>>
  /\ in_hand' = <<Head(order_queue)>>
  /\ order_queue' = Tail(order_queue)
  /\ c_pc' = "place"
  /\ UNCHANGED <<riskVars, total_orders, tickVars, brokerVars, bookVars,
                 rejected_orders, stopVars>>

Peek ==
  /\ c_pc = "drain"
  /\ order_queue # <<>> /\ running
  /\ in_hand' = <<Head(order_queue)>>
  /\ c_pc' = "place"
  /\ UNCHANGED <<riskVars, queueVars, tickVars, brokerVars, bookVars,
                 rejected_orders, stopVars>>

\* while (!m_order_queue.empty() && m_running): pop and unlock.
Pop ==
  /\ c_pc = "drain"
  /\ order_queue # <<>> /\ running
  /\ in_hand' = <<Head(order_queue)>>
  /\ order_queue' = Tail(order_queue)
  /\ c_pc' = "place"
  /\ UNCHANGED <<riskVars, total_orders, tickVars, brokerVars, bookVars,
                 rejected_orders, stopVars>>

\* The inner loop ends and the unique_lock's destructor unlocks.
LeaveDrain ==
  /\ order_queue = <<>> \/ ~running
  /\ ProcessorMoves("drain", "head")

\* m_exchange.place_order: what the exchange does with the order and what
\* the processor learns of it.
Place(taken, answered) ==
  /\ c_pc = "place"
  /\ sent' = Append(sent, Head(in_hand))
  /\ broker_position' =
       IF taken
         THEN [broker_position EXCEPT
                 ![Head(in_hand).symbol] = @ + SignedQuantity(Head(in_hand))]
         ELSE broker_position
  /\ c_pc' = IF taken /\ answered THEN "confirm" ELSE "fail"
  /\ lost' = (lost \/ (taken /\ ~answered))
  /\ UNCHANGED <<riskVars, queueVars, tickVars, in_hand, bookVars,
                 rejected_orders, stopVars>>

Accept == Place(TRUE, TRUE)
Refuse == Place(FALSE, TRUE)
LoseReply == LossyReplies /\ Place(TRUE, FALSE)

\* Faulty variant: the RiskManager is not told.
ConfirmUnbooked ==
  /\ c_pc = "confirm"
  /\ active_orders' = Append(active_orders, Head(in_hand))
  /\ filled_orders' = filled_orders + 1
  /\ in_hand' = <<>>
  /\ c_pc' = "relock"
  /\ UNCHANGED <<riskVars, queueVars, tickVars, brokerVars, rejected_orders, stopVars>>

\* A non-empty id: the order becomes active and is booked as filled.
Confirm ==
  /\ c_pc = "confirm"
  /\ active_orders' = Append(active_orders, Head(in_hand))
  /\ filled_orders' = filled_orders + 1
  /\ OnOrderFilled(Head(in_hand), PriceUsed(Head(in_hand)))
  /\ in_hand' = <<>>
  /\ c_pc' = "relock"
  /\ UNCHANGED <<queueVars, tickVars, brokerVars, rejected_orders, stopVars>>

\* Faulty variants: a refused order is not counted, and it is booked.
FailUncounted ==
  /\ c_pc = "fail"
  /\ in_hand' = <<>>
  /\ c_pc' = "relock"
  /\ UNCHANGED <<riskVars, queueVars, tickVars, brokerVars, bookVars,
                 rejected_orders, stopVars>>

FailBooked ==
  /\ c_pc = "fail"
  /\ rejected_orders' = rejected_orders + 1
  /\ OnOrderFilled(Head(in_hand), PriceUsed(Head(in_hand)))
  /\ in_hand' = <<>>
  /\ c_pc' = "relock"
  /\ UNCHANGED <<queueVars, tickVars, brokerVars, bookVars, stopVars>>

\* An empty id.
Fail ==
  /\ c_pc = "fail"
  /\ rejected_orders' = rejected_orders + 1
  /\ in_hand' = <<>>
  /\ c_pc' = "relock"
  /\ UNCHANGED <<riskVars, queueVars, tickVars, brokerVars, bookVars, stopVars>>

\* lock.lock() at the end of the inner loop's body.
Relock == ProcessorMoves("relock", "drain")

----------------------------------------------------------------------------
\* check_order_status sleeps and tests m_running.
StatusExits ==
  /\ s_pc = "run" /\ ~running
  /\ s_pc' = "done"
  /\ UNCHANGED <<riskVars, queueVars, tickVars, processorVars, brokerVars,
                 bookVars, rejected_orders, running, stop_pc, stop_mark>>

\* stop(), first statement: m_running = false, without the mutex.
StopFlag ==
  /\ c_pc # "off" /\ stop_pc = "none"
  /\ running' = FALSE
  /\ stop_pc' = "flagged"
  /\ stop_mark' = Len(sent)
  /\ UNCHANGED <<riskVars, queueVars, tickVars, processorVars, brokerVars,
                 bookVars, rejected_orders, s_pc>>

\* m_cv.notify_all(), without the mutex.
StopNotify ==
  /\ stop_pc = "flagged"
  /\ stop_pc' = "notified"
  /\ WakeProcessor
  /\ UNCHANGED <<riskVars, queueVars, tickVars, in_hand, brokerVars, bookVars,
                 rejected_orders, running, s_pc, stop_mark>>

\* Faulty variant: the processor is not joined.
StopJoinStatusOnly ==
  /\ stop_pc = "notified"
  /\ s_pc = "done"
  /\ stop_pc' = "stopped"
  /\ UNCHANGED <<riskVars, queueVars, tickVars, processorVars, brokerVars,
                 bookVars, rejected_orders, running, s_pc, stop_mark>>

\* Both threads joined.
StopJoin ==
  /\ stop_pc = "notified"
  /\ c_pc = "done" /\ s_pc = "done"
  /\ stop_pc' = "stopped"
  /\ UNCHANGED <<riskVars, queueVars, tickVars, processorVars, brokerVars,
                 bookVars, rejected_orders, running, s_pc, stop_mark>>

----------------------------------------------------------------------------
TickThread == BeginSignal \/ RiskPass \/ RiskBlock \/ Push \/ Notify

\* The processor's own steps, without the wakeups others or the
\* implementation of the condition variable cause.
Processor ==
  \/ LoopHead \/ Acquire \/ TestPredicate \/ Block
  \/ Pop \/ LeaveDrain
  \/ Accept \/ Refuse \/ LoseReply
  \/ Confirm \/ Fail \/ Relock

Stopper == StopFlag \/ StopNotify \/ StopJoin

Next ==
  \/ Start
  \/ TickThread
  \/ Processor
  \/ SpuriousWakeup
  \/ StatusExits
  \/ Stopper

Spec == Init /\ [][Next]_vars

\* The scheduler runs every thread that can take a step; the exchange
\* answers every call; a signal handling begun is finished.  Nobody has to
\* send a signal or call stop, and no wakeup is spurious by obligation.
Fairness ==
  /\ WF_vars(Start)
  /\ WF_vars(RiskPass \/ RiskBlock \/ Push \/ Notify)
  /\ WF_vars(Processor)
  /\ WF_vars(StatusExits)
  /\ WF_vars(StopNotify \/ StopJoin)

FairSpec == Spec /\ Fairness

----------------------------------------------------------------------------
(***************************************************************************)
(* Properties                                                              *)
(***************************************************************************)
PushPending == IF p_pc = "push" THEN 1 ELSE 0

\* What the exchange has done that the RiskManager has not booked yet.
Unbooked(s) ==
  IF c_pc = "confirm" /\ Head(in_hand).symbol = s
    THEN SignedQuantity(Head(in_hand)) ELSE 0

\* Every order the gate decided on is counted once: filled, rejected, or
\* still on its way through the push, the queue or the processor's hands.
\* An order queued is sent or still there.
OrderAccounting ==
  /\ examined = filled_orders + rejected_orders + Len(Outstanding) + PushPending
  /\ total_orders = Len(sent) + Len(order_queue) + (IF c_pc = "place" THEN 1 ELSE 0)
  /\ filled_orders = Len(active_orders)

\* can_submit_order sees only booked orders, so it lets the portfolio exceed
\* its limit by what was outstanding when it was asked: at most one order of
\* the maximum size for each.
ExposureOvershoot ==
  total_exposure <= limits.max_portfolio_exposure + backlog * limits.max_order_size

\* The daily trade count exceeds its limit by the orders outstanding at most.
TradesOvershoot == today_trades <= limits.max_daily_trades + backlog

\* If no order was ever approved while another was outstanding the gate does
\* what it says: exposure and trades within the limits, and nothing is sold
\* that the exchange does not hold for us (unless a sell's reply was lost).
SerialLimits ==
  backlog = 0 =>
    /\ total_exposure <= limits.max_portfolio_exposure
    /\ today_trades <= limits.max_daily_trades
    /\ ~lost => \A s \in Symbols : broker_position[s] >= 0

\* Under the same conditions the RiskManager's positions are the exchange's,
\* but for the order the exchange has just taken.
SerialBooksMatch ==
  backlog = 0 /\ ~lost =>
    \A s \in Symbols : positions[s] + Unbooked(s) = broker_position[s]

\* However calls overlap, the RiskManager never believes we hold less than
\* we do: overselling is floored away on the safe side for buys.
BooksNeverUnderstate ==
  ~lost => \A s \in Symbols : positions[s] + Unbooked(s) >= broker_position[s]

\* Once m_running is cleared at most the order already popped reaches the
\* exchange, and once stop() has returned none is left in hand.
AtMostOneLateOrder ==
  stop_pc # "none" =>
    /\ Len(sent) <= stop_mark + 1
    /\ stop_pc = "stopped" => InHand = <<>>

\* After stop() has returned no order is sent and nothing is booked, though
\* the tick thread may go on queueing.
NothingAfterStop ==
  [][stop_pc = "stopped" => UNCHANGED <<brokerVars, bookVars, riskVars>>]_vars

\* The gateway's view of the order path: an order popped is pending until it
\* is placed, and a stop closes the gateway behind it.
GatewayPending == (IF c_pc = "place" THEN in_hand ELSE <<>>) \o order_queue

GatewayPhase ==
  IF stop_pc = "none" THEN "open" ELSE IF c_pc = "place" THEN "closing" ELSE "closed"

Gateway == INSTANCE OrderGateway WITH pending <- GatewayPending, phase <- GatewayPhase

\* The threads, the mutex and the condition variable implement the gateway:
\* queued orders reach the exchange once each, in order, and do so in the end
\* while nobody stops the manager.
ImplementsGateway == Gateway!FairSpec

\* stop() returns if, when it has notified, the processor is not between the
\* test of its predicate and the wait that follows (nor in the wait it fell
\* into from there).
StopReturnsIfHeard ==
  stop_pc = "notified" /\ c_pc \notin {"block", "waiting"} ~> stop_pc = "stopped"

(***************************************************************************)
(* The inductive strengthening of the safety properties above.             *)
(***************************************************************************)
HeldCount == IF c_pc \in {"place", "confirm", "fail"} THEN 1 ELSE 0

\* m_running is set only between start and stop, and a stop that has returned
\* has seen the processor out.
LifecycleInv ==
  /\ running => stop_pc = "none"
  /\ stop_pc # "none" => c_pc # "off"
  /\ stop_pc = "stopped" => c_pc = "done"

\* What is counted where: an approved order is in exactly one place.
CountInv ==
  /\ examined = filled_orders + rejected_orders
                + HeldCount + Len(order_queue) + PushPending
  /\ total_orders = Len(sent) + Len(order_queue) + (IF c_pc = "place" THEN 1 ELSE 0)
  /\ filled_orders = Len(active_orders)
  /\ today_trades + HeldCount + Len(order_queue) + PushPending
       <= limits.max_daily_trades + backlog
  /\ stop_pc # "none" =>
       Len(sent) + (IF c_pc = "place" THEN 1 ELSE 0) <= stop_mark + 1

\* What the gate established about an order, and booking it will need.
StillFits(o) ==
  IF o.is_buy
    THEN total_exposure + Notional(o, PriceUsed(o)) <= limits.max_portfolio_exposure
    ELSE positions[o.symbol] >= o.quantity

\* With no backlog at most one order is outstanding, and what the gate saw
\* when it approved it is still so.
SerialInv ==
  backlog = 0 =>
    /\ total_exposure <= limits.max_portfolio_exposure
    /\ HeldCount + Len(order_queue) + PushPending <= 1
    /\ PushPending = 1 => StillFits(Head(todo))
    /\ order_queue # <<>> => StillFits(Head(order_queue))
    /\ HeldCount = 1 => StillFits(Head(in_hand))

InductiveInvariant ==
  TypeOK /\ LifecycleInv /\ CountInv /\ SerialInv
         /\ SerialBooksMatch /\ BooksNeverUnderstate

(***************************************************************************)
(* Statements of the source that the code does not keep.                   *)
(***************************************************************************)
\* risk.hpp, can_submit_order: "Short-sell guard: must have sufficient
\* quantity".
NeverShort == \A s \in Symbols : broker_position[s] >= 0

\* order_manager.hpp, stop: it joins the processor it has notified; main
\* then reports that the terminal stopped gracefully.
StopReturns == stop_pc = "flagged" ~> stop_pc = "stopped"
============================================================================
