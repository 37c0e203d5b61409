--------------------------- MODULE TerminalProofs ---------------------------
(***************************************************************************)
(* What the life of the process keeps, for either exchange and any number  *)
(* of signals and queued orders.                                           *)
(***************************************************************************)
EXTENDS Terminal, TLAPS

\* The streaming thread feeds no ticks.
Quiet == threads["stream"] \in {"off", "done", "joined"}

\* The handler, or a destructor, has yet to see the streaming thread out.
StopsStream == stopping \in {"flag", "adapter", "joinPoll", "client", "joinClient"}

\* A tick callback runs on a thread that may run it, and the queue has room
\* for its order.
CallbackInv ==
  /\ kind = "mock" /\ tick # "none" => pc \in {"feed", "aborted"}
  /\ kind = "alpaca" /\ tick # "none" => callback /\ threads["stream"] = "run"
  /\ callback => pc \in {"start", "run", "feed", "loop", "aborted"} \cup Teardown
  /\ tick \in {"balance", "risk", "queue"} => queue < MaxQueue

\* From the moment main is past the connection, a signal that cleared
\* g_running is still stopping the exchange or has stopped it, so main finds
\* it stopped when its loop ends.
ShutdownInv ==
  /\ pc \in {"check", "wait", "create", "connect", "socket"} => threads["stream"] = "off"
  /\ pc \in (Starting \cup {"feed", "loop"}) \ {"check", "wait", "create"}
       => "exchange" \in made
  /\ TooEarly /\ ~g_running => unstopped
  /\ kind = "alpaca" /\ ~g_running /\ ~unstopped
       /\ ~TooEarly /\ pc # "wait" /\ pc \notin Teardown \cup {"aborted"}
       => StopsStream \/ Quiet
  /\ kind = "alpaca" /\ pc \in Teardown /\ callback /\ ~unstopped => Quiet

TerminalInv == TypeOK /\ CallbackInv /\ ShutdownInv

----------------------------------------------------------------------------
\* Everything that happens, by who does it.
LEMMA WhoActs ==
  ASSUME [Next]_vars
  PROVE  \/ CheckMarket \/ WaitForMarket \/ CreateExchange \/ Connect \/ ConnectSocket
         \/ Connected \/ Account \/ CreateManager \/ Subscribe \/ SetTickCallback
         \/ StartManager \/ RunMock \/ FeedEnds \/ RunAlpaca
         \/ LoopEnds \/ LoopThrows \/ SummaryThrows
         \/ DestroyStrategies \/ DestroyExchange \/ Exit
         \/ SignalArrives \/ SignalNests \/ SignalElsewhere \/ StopStep \/ JoinThrows
         \/ TickSignals \/ CallbackStep
         \/ ProcessorStep \/ SpuriousWakeup \/ StatusExits
         \/ ThreadStep \/ RecvReturns \/ ThreadThrows
         \/ MarketOpens \/ UNCHANGED vars
  BY DEF Next, MainStep

\* TypeOK in three parts: main's state, the exchange's and the stop's, and
\* that of the threads that handle orders.
MainTypeOK ==
  /\ kind \in Exchanges /\ open \in BOOLEAN
  /\ pc \in Starting \cup {"feed", "loop", "aborted"} \cup Teardown
  /\ g_running \in BOOLEAN /\ unstopped \in BOOLEAN
  /\ made \subseteq {"exchange", "manager"}
  /\ signals \in 0 .. MaxSignals

ExchangeTypeOK ==
  /\ stopping \in StopStatements /\ outer \in StopStatements
  /\ ex_running \in BOOLEAN /\ connected \in BOOLEAN /\ client \in BOOLEAN
  /\ streaming \in BOOLEAN /\ callback \in BOOLEAN
  /\ threads \in [{"status", "orders", "stream"} -> {"off", "run", "recv", "done", "joined"}]

OrderTypeOK ==
  /\ tick \in {"none", "balance", "risk", "queue", "notify"}
  /\ om_running \in BOOLEAN
  /\ c_pc \in {"off", "head", "acquire", "test", "block", "waiting", "drain",
               "place", "confirm", "relock", "done", "joined"}
  /\ s_pc \in {"off", "run", "done", "joined"}
  /\ queue \in 0 .. MaxQueue

LEMMA TypeParts == TypeOK <=> MainTypeOK /\ ExchangeTypeOK /\ OrderTypeOK
  BY DEF TypeOK, MainTypeOK, ExchangeTypeOK, OrderTypeOK

LEMMA TypeInit == Init => TypeOK
<1>1. Init => signals \in 0 .. MaxSignals /\ queue \in 0 .. MaxQueue
  BY BoundsAssumption DEF Init
<1>2. Init => MainTypeOK
  BY <1>1 DEF Init, MainTypeOK, Starting
<1>3. Init => ExchangeTypeOK
  BY DEF Init, ExchangeTypeOK, StopStatements
<1>4. Init => OrderTypeOK
  BY <1>1 DEF Init, OrderTypeOK
<1>5. QED
  BY <1>2, <1>3, <1>4, TypeParts

\* Main's state is changed by its own statements and by a signal.
LEMMA MainTypeStep ==
  ASSUME MainTypeOK, [Next]_vars
  PROVE  MainTypeOK'
<1> USE DEF MainTypeOK
<1>1. CASE UNCHANGED <<kind, open, pc, g_running, made, signals, unstopped>>
  BY <1>1
<1>2. CASE CheckMarket \/ WaitForMarket \/ CreateExchange \/ Connect
  BY <1>2 DEF CheckMarket, WaitForMarket, CreateExchange, Connect, Main, Starting, Teardown
<1>3. CASE ConnectSocket \/ Connected \/ Account \/ CreateManager \/ Subscribe
  BY <1>3 DEF ConnectSocket, Connected, Account, CreateManager, Subscribe, Main, Starting, Teardown
<1>4. CASE SetTickCallback \/ StartManager \/ RunMock \/ RunAlpaca
  BY <1>4 DEF SetTickCallback, StartManager, RunMock, RunAlpaca, Main, Starting
<1>5. CASE FeedEnds \/ LoopEnds \/ LoopThrows \/ SummaryThrows
  BY <1>5 DEF FeedEnds, LoopEnds, LoopThrows, SummaryThrows, Main, Teardown
<1>6. CASE DestroyStrategies \/ DestroyExchange \/ Exit
  BY <1>6 DEF DestroyStrategies, DestroyExchange, Exit, Main, Teardown
<1>7. CASE SignalArrives
  <2>1. signals' \in 0 .. MaxSignals
    BY <1>7, BoundsAssumption DEF SignalArrives
  <2>2. unstopped' \in BOOLEAN
    BY <1>7 DEF SignalArrives, TooEarly
  <2>3. UNCHANGED <<kind, open, pc, made>> /\ g_running' = FALSE
    BY <1>7 DEF SignalArrives
  <2>4. QED
    BY <2>1, <2>2, <2>3
<1>14. CASE SignalNests \/ SignalElsewhere
  <2>1. signals' \in 0 .. MaxSignals
    BY <1>14, BoundsAssumption DEF SignalNests, SignalElsewhere
  <2>2. /\ UNCHANGED <<kind, open, g_running, made, unstopped>>
        /\ pc' = pc \/ pc' = "aborted"
    BY <1>14 DEF SignalNests, SignalElsewhere
  <2>3. QED
    BY <2>1, <2>2
<1>15. CASE JoinThrows \/ ThreadThrows
  BY <1>15 DEF JoinThrows, ThreadThrows, Teardown
<1>8. CASE StopStep
  BY <1>1, <1>8 DEF StopStep, HandlerBegins, StopAdapter, JoinPoll, Disconnect, JoinClient,
                    StopManager, StopNotify, StopJoin, Stopping
<1>9. CASE TickSignals \/ CallbackStep
  BY <1>1, <1>9 DEF TickSignals, MockTick, StreamTick, CallbackStep, ReadBalance,
                    CheckRisk, Enqueue, Notify, Callback, Ticks
<1>10. CASE ProcessorStep \/ SpuriousWakeup \/ StatusExits
  BY <1>1, <1>10 DEF ProcessorStep, SpuriousWakeup, Pop, Processor, StatusExits
<1>11. CASE ThreadStep \/ RecvReturns \/ UNCHANGED vars
  BY <1>1, <1>11 DEF ThreadStep, StatusThreadEnds, OrdersThreadEnds, StreamChecks, RecvReturns,
                     ThreadGoes, vars
<1>12. CASE MarketOpens
  BY <1>12 DEF MarketOpens
<1>13. QED
  BY <1>2, <1>3, <1>4, <1>5, <1>6, <1>7, <1>8, <1>9, <1>10, <1>11, <1>12, <1>14, <1>15,
     WhoActs

\* The exchange's state, by main's and the stop's statements and by the
\* threads that end.
LEMMA ExchangeTypeStep ==
  ASSUME ExchangeTypeOK, [Next]_vars
  PROVE  ExchangeTypeOK'
<1> USE DEF ExchangeTypeOK, exVars, StopStatements
<1>1. CASE UNCHANGED <<stopping, outer, exVars>>
  BY <1>1
<1>2. CASE \/ CheckMarket \/ WaitForMarket \/ CreateExchange \/ Account \/ CreateManager
           \/ Subscribe \/ StartManager \/ FeedEnds \/ LoopEnds \/ LoopThrows
           \/ SummaryThrows \/ Exit
  BY <1>1, <1>2 DEF CheckMarket, WaitForMarket, CreateExchange, Account, CreateManager,
                    Subscribe, StartManager, FeedEnds, LoopEnds, LoopThrows, SummaryThrows,
                    Exit, Main
<1>3. CASE Connect
  BY <1>3 DEF Connect, Main
<1>4. CASE ConnectSocket
  BY <1>4 DEF ConnectSocket, Main
<1>5. CASE Connected \/ SetTickCallback \/ RunMock
  BY <1>5 DEF Connected, SetTickCallback, RunMock, Main
<1>6. CASE RunAlpaca
  BY <1>6 DEF RunAlpaca, Main
<1>7. CASE DestroyStrategies \/ DestroyExchange \/ SignalArrives
  BY <1>7 DEF DestroyStrategies, DestroyExchange, SignalArrives
<1>15. CASE SignalNests \/ SignalElsewhere \/ JoinThrows
  BY <1>15 DEF SignalNests, SignalElsewhere, JoinThrows
<1>8. CASE HandlerBegins \/ StopAdapter \/ JoinPoll \/ JoinClient
  BY <1>8 DEF HandlerBegins, StopAdapter, JoinPoll, JoinClient, Joined, AfterExchange, Stopping
<1>9. CASE Disconnect \/ StopManager \/ StopNotify \/ StopJoin
  BY <1>9 DEF Disconnect, StopManager, StopNotify, StopJoin, Stopping
<1>10. CASE TickSignals \/ CallbackStep
  <2>1. /\ UNCHANGED <<stopping, outer, ex_running, connected, client, streaming, callback>>
        /\ threads' = threads \/ threads' = [threads EXCEPT !["stream"] = "run"]
    BY <1>10 DEF TickSignals, MockTick, StreamTick, CallbackStep, ReadBalance,
                 CheckRisk, Enqueue, Notify, Callback, Ticks
  <2>2. QED
    BY <2>1
<1>11. CASE ProcessorStep \/ SpuriousWakeup \/ StatusExits
  BY <1>1, <1>11 DEF ProcessorStep, SpuriousWakeup, Pop, Processor, StatusExits
<1>12. CASE ThreadStep \/ RecvReturns
  BY <1>12 DEF ThreadStep, StatusThreadEnds, OrdersThreadEnds, StreamChecks, RecvReturns,
               ThreadGoes
<1>13. CASE ThreadThrows \/ MarketOpens \/ UNCHANGED vars
  BY <1>1, <1>13 DEF ThreadThrows, MarketOpens, vars
<1>14. QED
  BY <1>2, <1>3, <1>4, <1>5, <1>6, <1>7, <1>8, <1>9, <1>10, <1>11, <1>12, <1>13, <1>15, WhoActs
  DEF StopStep

\* The order threads' state: the queue has room for the order of a tick.
LEMMA OrderTypeStep ==
  ASSUME OrderTypeOK, CallbackInv, [Next]_vars
  PROVE  OrderTypeOK'
<1> USE DEF OrderTypeOK, omVars
<1>1. CASE UNCHANGED <<tick, omVars>>
  BY <1>1
<1>2. CASE \/ CheckMarket \/ WaitForMarket \/ CreateExchange \/ Connect \/ ConnectSocket
           \/ Connected \/ Account \/ CreateManager \/ Subscribe \/ SetTickCallback
           \/ RunMock \/ FeedEnds \/ RunAlpaca \/ LoopEnds \/ LoopThrows \/ SummaryThrows
           \/ DestroyStrategies \/ DestroyExchange \/ Exit
  BY <1>1, <1>2 DEF CheckMarket, WaitForMarket, CreateExchange, Connect, ConnectSocket,
                    Connected, Account, CreateManager, Subscribe, SetTickCallback, RunMock,
                    FeedEnds, RunAlpaca, LoopEnds, LoopThrows, SummaryThrows,
                    DestroyStrategies, DestroyExchange, Exit
<1>3. CASE StartManager
  BY <1>3 DEF StartManager
<1>4. CASE SignalArrives \/ SignalNests \/ SignalElsewhere
           \/ HandlerBegins \/ StopAdapter \/ JoinPoll \/ Disconnect \/ JoinClient
  BY <1>1, <1>4 DEF SignalArrives, SignalNests, SignalElsewhere,
                    HandlerBegins, StopAdapter, JoinPoll, Disconnect, JoinClient, Stopping
<1>16. CASE StopJoin
  BY <1>16 DEF StopJoin, Stopping
<1>17. CASE JoinThrows
  BY <1>17 DEF JoinThrows
<1>5. CASE StopManager
  BY <1>5 DEF StopManager, Stopping
<1>6. CASE StopNotify
  BY <1>6 DEF StopNotify, Stopping, WakeProcessor
<1>7. CASE TickSignals \/ ReadBalance \/ CheckRisk
  BY <1>7 DEF TickSignals, MockTick, StreamTick, ReadBalance, CheckRisk, Callback, Ticks
<1>8. CASE Enqueue
  <2>1. queue' \in 0 .. MaxQueue
    BY <1>8, BoundsAssumption DEF Enqueue, Callback, Ticks, CallbackInv
  <2>2. QED
    BY <1>8, <2>1 DEF Enqueue, Callback, Ticks
<1>9. CASE Notify
  BY <1>9 DEF Notify, Callback, Ticks, WakeProcessor
<1>10. CASE Pop
  <2>1. queue' \in 0 .. MaxQueue
    BY <1>10, BoundsAssumption DEF Pop, Processor
  <2>2. QED
    BY <1>10, <2>1 DEF Pop, Processor
<1>11. CASE SpuriousWakeup
  BY <1>11 DEF SpuriousWakeup, Processor
<1>12. CASE ProcessorStep
  BY <1>10, <1>12 DEF ProcessorStep, Processor
<1>13. CASE StatusExits
  BY <1>13 DEF StatusExits
<1>14. CASE ThreadStep \/ RecvReturns \/ ThreadThrows \/ MarketOpens \/ UNCHANGED vars
  BY <1>1, <1>14 DEF ThreadStep, StatusThreadEnds, OrdersThreadEnds, StreamChecks, RecvReturns,
                     ThreadGoes, ThreadThrows, MarketOpens, vars
<1>15. QED
  BY <1>2, <1>3, <1>4, <1>5, <1>6, <1>7, <1>8, <1>9, <1>11, <1>12, <1>13, <1>14, <1>16, <1>17,
     WhoActs
  DEF StopStep, CallbackStep

LEMMA TypeStep ==
  ASSUME TypeOK, CallbackInv, [Next]_vars
  PROVE  TypeOK'
<1>1. MainTypeOK' /\ ExchangeTypeOK' /\ OrderTypeOK'
  BY TypeParts, MainTypeStep, ExchangeTypeStep, OrderTypeStep
<1>2. QED
  BY <1>1, TypeParts, PTL

----------------------------------------------------------------------------
\* The threads' own steps, and main's between ticks, leave the callback to
\* the thread that runs it.
LEMMA CallbackKept ==
  ASSUME TypeOK, CallbackInv, [Next]_vars
  PROVE  CallbackInv'
<1> USE DEF CallbackInv, Quiet, TypeOK, exVars, omVars
<1>1. CASE UNCHANGED <<kind, pc, tick, threads, callback, queue>>
  BY <1>1
<1>2. CASE CheckMarket \/ WaitForMarket \/ CreateExchange \/ Connect \/ Connected
           \/ Account \/ CreateManager \/ Subscribe \/ SetTickCallback \/ StartManager
  BY <1>2 DEF CheckMarket, WaitForMarket, CreateExchange, Connect, Connected, Account, CreateManager,
              Subscribe, SetTickCallback, StartManager, Main, Starting, Teardown
<1>3. CASE ConnectSocket
  BY <1>3 DEF ConnectSocket, Main, Teardown
<1>4. CASE RunMock \/ RunAlpaca
  BY <1>4 DEF RunMock, RunAlpaca, Main, Teardown
<1>5. CASE FeedEnds \/ LoopEnds \/ LoopThrows \/ SummaryThrows
  BY <1>5 DEF FeedEnds, LoopEnds, LoopThrows, SummaryThrows, Main, MainFree, Teardown
<1>6. CASE DestroyStrategies \/ DestroyExchange \/ Exit
  BY <1>6 DEF DestroyStrategies, DestroyExchange, Exit, Main, Teardown
<1>7. CASE SignalArrives \/ SignalNests \/ SignalElsewhere
  BY <1>7 DEF SignalArrives, SignalNests, SignalElsewhere
<1>15. CASE JoinThrows \/ ThreadThrows
  BY <1>15 DEF JoinThrows, ThreadThrows, Teardown
<1>8. CASE StopStep
  <2>1. UNCHANGED <<kind, pc, tick, callback, queue>>
    BY <1>8 DEF StopStep, HandlerBegins, StopAdapter, JoinPoll, Disconnect, JoinClient,
                StopManager, StopNotify, StopJoin, Stopping
  <2>2. threads["stream"] = "run" => threads'["stream"] = "run"
    BY <1>8 DEF StopStep, HandlerBegins, StopAdapter, JoinPoll, Disconnect, JoinClient,
                Joined, StopManager, StopNotify, StopJoin, Stopping
  <2>3. QED
    BY <2>1, <2>2
<1>9. CASE TickSignals
  <2>1. UNCHANGED <<kind, pc, callback, queue>> /\ queue < MaxQueue
    BY <1>9 DEF TickSignals, MockTick, StreamTick, Callback, Ticks
  <2>2. kind = "mock" => pc = "feed"
    BY <1>9 DEF TickSignals, MockTick, FeederRuns
  <2>3. kind = "alpaca" => callback /\ threads'["stream"] = "run"
    BY <1>9, ExchangesAssumption DEF TickSignals, StreamTick
  <2>4. QED
    BY <2>1, <2>2, <2>3
<1>10. CASE CallbackStep
  <2>1. /\ UNCHANGED <<kind, pc, threads, callback>>
        /\ kind = "mock" => pc = "feed"
    BY <1>10 DEF CallbackStep, ReadBalance, CheckRisk, Enqueue, Notify, Callback, Ticks, FeederRuns
  <2>2. kind = "alpaca" => callback /\ threads["stream"] = "run"
    BY <1>10 DEF CallbackStep, ReadBalance, CheckRisk, Enqueue, Notify, Callback, Ticks
  <2>3. tick' \in {"balance", "risk", "queue"} => queue' = queue /\ queue < MaxQueue
    BY <1>10 DEF CallbackStep, ReadBalance, CheckRisk, Enqueue, Notify, Callback, Ticks
  <2>4. QED
    BY <2>1, <2>2, <2>3
<1>11. CASE ProcessorStep \/ SpuriousWakeup
  <2>1. UNCHANGED <<kind, pc, tick, threads, callback>>
    BY <1>11 DEF ProcessorStep, SpuriousWakeup, Pop, Processor, exVars
  <2>2. queue' = queue \/ queue' = queue - 1
    BY <1>11 DEF ProcessorStep, SpuriousWakeup, Pop
  <2>3. queue < MaxQueue => queue' < MaxQueue
    BY <2>2, BoundsAssumption
  <2>4. QED
    BY <2>1, <2>3
<1>12. CASE StatusExits \/ MarketOpens \/ UNCHANGED vars
  BY <1>1, <1>12 DEF StatusExits, MarketOpens, vars
<1>13. CASE ThreadStep \/ RecvReturns
  <2>1. UNCHANGED <<kind, pc, tick, callback, queue>>
    BY <1>13 DEF ThreadStep, StatusThreadEnds, OrdersThreadEnds, StreamChecks, RecvReturns,
                 ThreadGoes
  <2>2. tick # "none" /\ threads["stream"] = "run" => threads'["stream"] = "run"
    BY <1>13 DEF ThreadStep, StatusThreadEnds, OrdersThreadEnds, StreamChecks, RecvReturns,
                 ThreadGoes
  <2>3. QED
    BY <2>1, <2>2
<1>14. QED
  BY <1>2, <1>3, <1>4, <1>5, <1>6, <1>7, <1>8, <1>9, <1>10, <1>11, <1>12, <1>13, <1>15, WhoActs

----------------------------------------------------------------------------
\* A step that changes none of what the shutdown looks at.
LEMMA ShutdownFrame ==
  ASSUME ShutdownInv,
         UNCHANGED <<kind, pc, g_running, made, stopping, threads, callback, unstopped>>
  PROVE  ShutdownInv'
  BY DEF ShutdownInv, TooEarly, StopsStream, Quiet

\* main's statements up to the loop.
LEMMA ShutdownStart ==
  ASSUME TypeOK, CallbackInv, ShutdownInv,
         \/ CheckMarket \/ WaitForMarket \/ CreateExchange \/ Connect \/ ConnectSocket
         \/ Connected \/ Account \/ CreateManager \/ Subscribe \/ SetTickCallback \/ StartManager
         \/ RunMock \/ FeedEnds \/ RunAlpaca
  PROVE  ShutdownInv'
<1> USE DEF ShutdownInv, CallbackInv, TypeOK, Main, TooEarly, StopsStream, Quiet, Starting,
            Teardown, exVars
<1>1. CASE CheckMarket \/ WaitForMarket
  BY <1>1 DEF CheckMarket, WaitForMarket
<1>2. CASE CreateExchange
  BY <1>2 DEF CreateExchange
<1>3. CASE Connect
  BY <1>3 DEF Connect
<1>4. CASE ConnectSocket
  BY <1>4 DEF ConnectSocket
<1>5. CASE Connected
  BY <1>5 DEF Connected
<1>6. CASE Account \/ CreateManager
  BY <1>6 DEF Account, CreateManager
<1>7. CASE Subscribe \/ SetTickCallback \/ StartManager
  BY <1>7 DEF Subscribe, SetTickCallback, StartManager
<1>8. CASE RunMock \/ FeedEnds \/ RunAlpaca
  BY <1>8 DEF RunMock, FeedEnds, RunAlpaca
<1>9. QED
  BY <1>1, <1>2, <1>3, <1>4, <1>5, <1>6, <1>7, <1>8

\* The end of the loop: a signal has cleared g_running, and main is not in
\* the handler, so the handler has seen the streaming thread out.
LEMMA ShutdownEnd ==
  ASSUME TypeOK, CallbackInv, ShutdownInv,
         \/ LoopEnds \/ LoopThrows \/ SummaryThrows \/ DestroyStrategies \/ DestroyExchange \/ Exit
  PROVE  ShutdownInv'
<1> USE DEF ShutdownInv, CallbackInv, TypeOK, Main, TooEarly, StopsStream, Quiet, Starting,
            Teardown, exVars
<1>1. CASE LoopEnds
  BY <1>1 DEF LoopEnds
<1>2. CASE LoopThrows \/ SummaryThrows
  BY <1>2 DEF LoopThrows, SummaryThrows
<1>3. CASE DestroyStrategies \/ DestroyExchange \/ Exit
  BY <1>3 DEF DestroyStrategies, DestroyExchange, Exit
<1>4. QED
  BY <1>1, <1>2, <1>3

\* The handler: it leaves the exchange's stop only with the thread joined,
\* also when it interrupted another.
LEMMA ShutdownStop ==
  ASSUME TypeOK, ShutdownInv,
         SignalArrives \/ SignalNests \/ SignalElsewhere \/ StopStep \/ JoinThrows
  PROVE  ShutdownInv'
<1> USE DEF ShutdownInv, TypeOK, TooEarly, StopsStream, Quiet, Starting, Teardown,
            exVars, Stopping
<1>1. CASE SignalArrives \/ SignalNests \/ SignalElsewhere
  BY <1>1 DEF SignalArrives, SignalNests, SignalElsewhere, HandlerRuns
<1>2. CASE HandlerBegins
  BY <1>2 DEF HandlerBegins
<1>3. CASE StopAdapter
  BY <1>3 DEF StopAdapter
<1>4. CASE JoinPoll \/ Disconnect
  BY <1>4 DEF JoinPoll, Joined, Ended, Disconnect
<1>5. CASE JoinClient
  BY <1>5 DEF JoinClient, Joined, Ended
<1>6. CASE StopManager \/ StopNotify \/ StopJoin
  BY <1>6 DEF StopManager, StopNotify, StopJoin
<1>7. CASE JoinThrows
  BY <1>7 DEF JoinThrows
<1>8. QED
  BY <1>1, <1>2, <1>3, <1>4, <1>5, <1>6, <1>7 DEF StopStep

LEMMA ShutdownStep ==
  ASSUME TypeOK, CallbackInv, ShutdownInv, [Next]_vars
  PROVE  ShutdownInv'
<1>1. CASE \/ CallbackStep \/ ProcessorStep \/ SpuriousWakeup
           \/ StatusExits \/ MarketOpens \/ UNCHANGED vars
  BY <1>1, ShutdownFrame
  DEF CallbackStep, ReadBalance, CheckRisk, Enqueue, Notify, Callback, Ticks,
      ProcessorStep, SpuriousWakeup, Pop, Processor, StatusExits, MarketOpens, vars, exVars
<1>2. CASE ThreadStep \/ RecvReturns
  BY <1>2 DEF ThreadStep, StatusThreadEnds, OrdersThreadEnds, StreamChecks, RecvReturns,
              ThreadGoes, ShutdownInv, TypeOK, TooEarly, StopsStream, Quiet
<1>3. CASE TickSignals
  <2>1. /\ UNCHANGED <<kind, pc, g_running, made, stopping, callback, unstopped>>
        /\ threads' = threads \/ (~Quiet /\ threads' = [threads EXCEPT !["stream"] = "run"])
    BY <1>3 DEF TickSignals, MockTick, StreamTick, Ticks, Quiet
  <2>2. threads["stream"] # "off" \/ threads' = threads
    BY <2>1 DEF Quiet
  <2>3. QED
    BY <2>1, <2>2 DEF ShutdownInv, TypeOK, TooEarly, StopsStream, Quiet
<1>4. CASE ThreadThrows
  BY <1>4 DEF ThreadThrows, ShutdownInv, TooEarly, Quiet, Starting, Teardown, exVars
<1>5. QED
  BY <1>1, <1>2, <1>3, <1>4, ShutdownStart, ShutdownEnd, ShutdownStop, WhoActs

----------------------------------------------------------------------------
\* The invariant holds in every behaviour: no fairness is needed for it.
THEOREM Invariance == Spec => []TerminalInv
<1>1. Init => CallbackInv /\ ShutdownInv
  BY DEF Init, CallbackInv, ShutdownInv, TooEarly, Quiet, Starting, Teardown
<1>2. Init => TerminalInv
  BY <1>1, TypeInit DEF TerminalInv
<1>3. TerminalInv /\ [Next]_vars => TerminalInv'
  BY TypeStep, CallbackKept, ShutdownStep DEF TerminalInv
<1>4. QED
  BY <1>2, <1>3, PTL DEF Spec

\* The state is well typed in every behaviour: no queue outgrows its bound.
THEOREM TypeCorrect == Spec => []TypeOK
<1>1. TerminalInv => TypeOK
  BY DEF TerminalInv
<1>2. QED
  BY Invariance, <1>1, PTL

\* No tick finds the strategies destroyed: main leaves its loop with the
\* streaming thread joined, and the mock exchange has no thread of its own.
THEOREM StrategiesOutliveTicks == Spec => []TicksFindStrategies
<1>1. TerminalInv => TicksFindStrategies
  <2> SUFFICES ASSUME TerminalInv,
                      pc \in {"managerGone", "exchangeGone", "gone"}, ~unstopped
               PROVE  tick = "none"
    BY DEF TicksFindStrategies
  <2>1. kind \in {"mock", "alpaca"} /\ pc \in Teardown /\ pc \notin {"feed", "aborted"}
    BY ExchangesAssumption DEF TerminalInv, TypeOK, Teardown
  <2>2. QED
    BY <2>1 DEF TerminalInv, CallbackInv, ShutdownInv, Quiet
<1>2. QED
  BY Invariance, <1>1, PTL
=============================================================================
