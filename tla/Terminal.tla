------------------------------ MODULE Terminal ------------------------------
(***************************************************************************)
(* The life of the process of src/src/main.cpp, from the wait for the      *)
(* market to the destruction of its globals, with the two exchanges'       *)
(* connect, run and stop, the OrderManager's start and stop, and the       *)
(* signal handler.                                                         *)
(*                                                                         *)
(* The handler runs on the main thread (the kernel prefers it): main is    *)
(* suspended, with the mutexes it holds, until the handler returns.  The   *)
(* other of the two signals may interrupt the handler itself; another one  *)
(* of the same kind is blocked on main by then and goes to another thread. *)
(* MockExchange::run feeds ticks on the main thread; AlpacaClient feeds    *)
(* them on its streaming thread.  Either way the tick callback takes the   *)
(* mutexes of the balance (mock only), the RiskManager and the order       *)
(* queue, one at a time.  `stop` is called by the handler and by the       *)
(* destructors, never by both at once: no signal arrives during the        *)
(* destruction of the globals.  What throws where nobody catches ends the  *)
(* process.                                                                *)
(***************************************************************************)
EXTENDS Naturals

CONSTANTS
  Exchanges,   \* what --exchange may say: a subset of {"mock", "alpaca"}
  MaxSignals,  \* bound: SIGINT or SIGTERM delivered
  MaxQueue     \* bound: orders waiting in the queue

ASSUME ExchangesAssumption == Exchanges \subseteq {"mock", "alpaca"}
ASSUME BoundsAssumption == MaxSignals \in Nat /\ MaxQueue \in Nat

VARIABLES
  kind,        \* the exchange asked for
  open,        \* MarketHours::is_market_open
  pc,          \* main
  g_running,
  made,        \* which of g_exchange, g_order_manager exist
  stopping,    \* the statement of stop() or of the handler being executed
  outer,       \* the statement of the handler that this handler interrupted
  signals,     \* signals delivered
  ex_running,  \* the adapter's m_running
  connected,   \* AlpacaAdapter::m_connected
  client,      \* AlpacaClient::m_connected
  streaming,   \* AlpacaClient::m_streaming, and its socket is open
  threads,     \* what each Alpaca thread does
  callback,    \* the tick callback is set
  tick,        \* the tick callback: the mutex it holds
  om_running,  \* OrderManager::m_running
  c_pc, s_pc,  \* the processor and the status thread
  queue,       \* number of orders in the queue
  unstopped    \* a signal came too early to stop the exchange, or main threw

exVars == <<ex_running, connected, client, streaming, threads, callback>>
omVars == <<om_running, c_pc, s_pc, queue>>
vars == <<kind, open, pc, g_running, made, stopping, outer, signals, exVars, tick, omVars,
          unstopped>>

Starting == {"check", "wait", "create", "connect", "socket", "connected", "account", "manager",
             "subscribe", "callback", "start", "run"}
Teardown == {"strategies", "managerGone", "exchangeGone", "gone"}
StopStatements == {"none", "flag", "adapter", "joinPoll", "client", "joinClient",
                   "manager", "notify", "join"}

TypeOK ==
  /\ kind \in Exchanges /\ open \in BOOLEAN
  /\ pc \in Starting \cup {"feed", "loop", "aborted"} \cup Teardown
  /\ g_running \in BOOLEAN
  /\ made \subseteq {"exchange", "manager"}
  /\ stopping \in StopStatements /\ outer \in StopStatements
  /\ signals \in 0 .. MaxSignals
  /\ ex_running \in BOOLEAN /\ connected \in BOOLEAN /\ client \in BOOLEAN
  /\ streaming \in BOOLEAN /\ callback \in BOOLEAN
  /\ threads \in [{"status", "orders", "stream"} -> {"off", "run", "recv", "done", "joined"}]
  /\ tick \in {"none", "balance", "risk", "queue", "notify"}
  /\ om_running \in BOOLEAN
  /\ c_pc \in {"off", "head", "acquire", "test", "block", "waiting", "drain",
               "place", "confirm", "relock", "done", "joined"}
  /\ s_pc \in {"off", "run", "done", "joined"}
  /\ queue \in 0 .. MaxQueue
  /\ unstopped \in BOOLEAN

Init ==
  /\ kind \in Exchanges
  /\ open \in BOOLEAN
  /\ pc = "check" /\ g_running = TRUE /\ made = {}
  /\ stopping = "none" /\ outer = "none" /\ signals = 0
  /\ ex_running = FALSE /\ connected = FALSE /\ client = FALSE
  /\ streaming = FALSE /\ callback = FALSE
  /\ threads = [t \in {"status", "orders", "stream"} |-> "off"]
  /\ tick = "none"
  /\ om_running = FALSE /\ c_pc = "off" /\ s_pc = "off" /\ queue = 0
  /\ unstopped = FALSE

----------------------------------------------------------------------------
\* main's own statements: not while a handler or a destructor's stop runs.
Main(at, to) ==
  /\ stopping = "none"
  /\ pc = at /\ pc' = to
  /\ UNCHANGED <<kind, open, stopping, outer, signals>>

\* The callback that main itself is in, or its absence.
MainFree == kind = "alpaca" \/ tick = "none"

CheckMarket ==
  /\ Main("check", IF open THEN "create" ELSE "wait")
  /\ UNCHANGED <<g_running, made, exVars, tick, omVars, unstopped>>

\* The loop that waits for the opening, thirty seconds at a time.
WaitForMarket ==
  /\ ~g_running \/ open
  /\ Main("wait", IF g_running THEN "create" ELSE "gone")
  /\ UNCHANGED <<g_running, made, exVars, tick, omVars, unstopped>>

\* RiskManager, CircuitBreaker, and ExchangeFactory::create.
CreateExchange ==
  /\ \/ Main("create", "connect") /\ made' = made \cup {"exchange"}
     \/ kind = "alpaca" /\ Main("create", "strategies") /\ UNCHANGED made  \* no keys: throws
  /\ UNCHANGED <<g_running, exVars, tick, omVars, unstopped>>

\* get_account answers with an account, or connect fails and main throws.
Connect ==
  /\ \/ /\ kind = "mock" /\ Main("connect", "account") /\ UNCHANGED exVars
     \/ /\ kind = "alpaca" /\ Main("connect", "strategies") /\ UNCHANGED exVars
     \/ /\ kind = "alpaca" /\ Main("connect", "socket")
        /\ client' = TRUE /\ threads' = [threads EXCEPT !["orders"] = "run"]
        /\ UNCHANGED <<ex_running, connected, streaming, callback>>
  /\ UNCHANGED <<g_running, made, tick, omVars, unstopped>>

\* connect_websocket, which may fail: REST only.
ConnectSocket ==
  /\ Main("socket", "connected")
  /\ \/ UNCHANGED <<streaming, threads>>
     \/ streaming' = TRUE /\ threads' = [threads EXCEPT !["stream"] = "run"]
  /\ UNCHANGED <<g_running, made, ex_running, connected, client, callback, tick, omVars, unstopped>>

Connected ==
  /\ Main("connected", "account")
  /\ connected' = TRUE
  /\ UNCHANGED <<g_running, made, ex_running, client, streaming, threads, callback, tick, omVars, unstopped>>

\* get_account_info: Alpaca's throws on a field that is no number.
Account ==
  /\ \E next \in {"manager"} \cup (IF kind = "alpaca" THEN {"strategies"} ELSE {}) :
       Main("account", next)
  /\ UNCHANGED <<g_running, made, exVars, tick, omVars, unstopped>>

\* The OrderManager and the strategies; without a strategy main returns.
CreateManager ==
  /\ \E next \in {"subscribe", "strategies"} : Main("manager", next)
  /\ made' = made \cup {"manager"}
  /\ UNCHANGED <<g_running, exVars, tick, omVars, unstopped>>

Subscribe ==
  /\ Main("subscribe", "callback")
  /\ UNCHANGED <<g_running, made, exVars, tick, omVars, unstopped>>

\* set_tick_callback; while pc is "callback" main holds m_callback_mutex.
SetTickCallback ==
  /\ Main("callback", "start")
  /\ callback' = TRUE
  /\ UNCHANGED <<g_running, made, ex_running, connected, client, streaming, threads, tick, omVars, unstopped>>

\* OrderManager::start
StartManager ==
  /\ Main("start", "run")
  /\ om_running' = TRUE /\ c_pc' = "head" /\ s_pc' = "run"
  /\ UNCHANGED <<g_running, made, exVars, tick, queue, unstopped>>

\* MockExchange::run feeds ticks until it is stopped.
RunMock ==
  /\ kind = "mock" /\ Main("run", "feed")
  /\ ex_running' = TRUE
  /\ UNCHANGED <<g_running, made, connected, client, streaming, threads, callback, tick, omVars, unstopped>>

FeedEnds ==
  /\ ~ex_running /\ MainFree
  /\ Main("feed", "loop")
  /\ UNCHANGED <<g_running, made, exVars, tick, omVars, unstopped>>

\* AlpacaAdapter::run starts the status thread and returns.
RunAlpaca ==
  /\ kind = "alpaca" /\ Main("run", "loop")
  /\ IF connected
       THEN ex_running' = TRUE /\ threads' = [threads EXCEPT !["status"] = "run"]
       ELSE UNCHANGED <<ex_running, threads>>
  /\ UNCHANGED <<g_running, made, connected, client, streaming, callback, tick, omVars, unstopped>>

\* while (g_running) ends; the summary follows and main returns.
LoopEnds ==
  /\ ~g_running
  /\ Main("loop", "strategies")
  /\ UNCHANGED <<g_running, made, exVars, tick, omVars, unstopped>>

\* get_account_info throws in the loop: main catches it and returns 1.
LoopThrows ==
  /\ kind = "alpaca" /\ Main("loop", "strategies")
  /\ unstopped' = (unstopped \/ g_running)
  /\ UNCHANGED <<g_running, made, exVars, tick, omVars>>

\* ... and in the summary, where nobody catches it.
SummaryThrows ==
  /\ ~g_running /\ kind = "alpaca"
  /\ Main("loop", "aborted")
  /\ UNCHANGED <<g_running, made, exVars, tick, omVars, unstopped>>

\* The globals in the reverse order of their definition: the strategies, ...
DestroyStrategies ==
  /\ stopping = "none" /\ pc = "strategies"
  /\ pc' = "managerGone"
  /\ stopping' = IF "manager" \in made THEN "manager" ELSE "none"
  /\ UNCHANGED <<kind, open, outer, signals, g_running, made, exVars, tick, omVars, unstopped>>

\* ... the OrderManager, then the exchange (a MockExchange just goes), ...
DestroyExchange ==
  /\ stopping = "none" /\ pc = "managerGone"
  /\ pc' = "exchangeGone"
  /\ stopping' = IF kind = "alpaca" /\ "exchange" \in made THEN "adapter" ELSE "none"
  /\ UNCHANGED <<kind, open, outer, signals, g_running, made, exVars, tick, omVars, unstopped>>

\* ... and the process ends.
Exit ==
  /\ Main("exchangeGone", "gone")
  /\ UNCHANGED <<g_running, made, exVars, tick, omVars, unstopped>>

----------------------------------------------------------------------------
\* There is no exchange yet, or main goes on to connect it.
TooEarly == pc \in {"check", "create", "connect", "socket", "connected"}

SignalArrives ==
  /\ stopping = "none" /\ pc \notin Teardown \cup {"aborted"} /\ signals < MaxSignals
  /\ signals' = signals + 1
  /\ g_running' = FALSE
  /\ stopping' = "flag"
  /\ unstopped' = TooEarly
  /\ UNCHANGED <<kind, open, pc, made, outer, exVars, tick, omVars>>

HandlerRuns == stopping # "none" /\ pc \notin Teardown \cup {"aborted"}

\* The other signal interrupts the handler.
SignalNests ==
  /\ HandlerRuns /\ outer = "none" /\ signals < MaxSignals
  /\ signals' = signals + 1
  /\ outer' = stopping /\ stopping' = "flag"
  /\ UNCHANGED <<kind, open, pc, g_running, made, exVars, tick, omVars, unstopped>>

Joinable(t) == threads[t] \in {"run", "recv", "done"}
ManagerJoinable == c_pc \notin {"off", "joined"} \/ s_pc \in {"run", "done"}

\* Another thread than main, if one lives, takes the signal that main has
\* blocked: its stop comes to join itself, or what main is joining, and the
\* exception has no handler on that thread.
SignalElsewhere ==
  /\ HandlerRuns /\ signals < MaxSignals
  /\ \/ \E t \in DOMAIN threads : threads[t] \in {"run", "recv"}
     \/ c_pc \notin {"off", "done", "joined"} \/ s_pc = "run"
  /\ signals' = signals + 1 /\ pc' = "aborted"
  /\ UNCHANGED <<kind, open, g_running, made, stopping, outer, exVars, tick, omVars, unstopped>>

\* The inner handler joins what the outer one is joining: join throws.  Out
\* of a handler that ends the process, or unwinds to main's catch.
JoinThrows ==
  /\ HandlerRuns /\ stopping = outer
  /\ \/ stopping = "joinPoll" /\ Joinable("status")
     \/ stopping = "joinClient" /\ (Joinable("stream") \/ Joinable("orders"))
     \/ stopping = "join" /\ ManagerJoinable
  /\ \/ pc' = "aborted" /\ UNCHANGED <<stopping, outer, tick, unstopped>>
     \/ /\ pc' = "strategies" /\ stopping' = "none" /\ outer' = "none" /\ unstopped' = TRUE
        /\ tick' = IF kind = "mock" THEN "none" ELSE tick
  /\ UNCHANGED <<kind, open, g_running, made, signals, exVars, omVars>>

\* A handler that ends gives way to the one it interrupted, or to main.
Stopping(at, to) ==
  /\ stopping = at /\ pc # "aborted"
  /\ IF to = "none" THEN stopping' = outer /\ outer' = "none"
                    ELSE stopping' = to /\ UNCHANGED outer
  /\ UNCHANGED <<kind, open, pc, g_running, made, signals, callback, tick, unstopped>>

\* After the exchange's stop the handler stops the OrderManager, if there is one.
AfterExchange == IF pc \notin Teardown /\ "manager" \in made THEN "manager" ELSE "none"

\* Faulty variant: the handler leaves the exchange to main.
HandlerBeginsSkipping ==
  /\ Stopping("flag", AfterExchange)
  /\ UNCHANGED <<ex_running, connected, client, streaming, threads, omVars>>

\* if (g_exchange) g_exchange->stop();
HandlerBegins ==
  /\ Stopping("flag", IF "exchange" \in made THEN "adapter" ELSE AfterExchange)
  /\ UNCHANGED <<ex_running, connected, client, streaming, threads, omVars>>

StopAdapter ==
  /\ Stopping("adapter", IF kind = "mock" THEN AfterExchange ELSE "joinPoll")
  /\ ex_running' = FALSE
  /\ UNCHANGED <<connected, client, streaming, threads, omVars>>

Ended(t) == threads[t] \in {"off", "done", "joined"}

\* `if (t.joinable()) t.join()` of threads that have ended.
Joined(ts) ==
  /\ \A t \in ts : Ended(t)
  /\ threads' = [t \in DOMAIN threads |->
                   IF t \in ts /\ threads[t] = "done" THEN "joined" ELSE threads[t]]

JoinPoll ==
  /\ Joined({"status"})
  /\ Stopping("joinPoll", "client")
  /\ UNCHANGED <<ex_running, connected, client, streaming, omVars>>

\* AlpacaAdapter::disconnect and AlpacaClient::disconnect up to the joins.
Disconnect ==
  /\ Stopping("client", "joinClient")
  /\ connected' = FALSE /\ client' = FALSE /\ streaming' = FALSE
  /\ UNCHANGED <<ex_running, threads, omVars>>

\* Faulty variant: the streaming thread is not waited for.
JoinOrdersOnly ==
  /\ Joined({"orders"})
  /\ Stopping("joinClient", AfterExchange)
  /\ UNCHANGED <<ex_running, connected, client, streaming, omVars>>

JoinClient ==
  /\ Joined({"stream", "orders"})
  /\ Stopping("joinClient", AfterExchange)
  /\ UNCHANGED <<ex_running, connected, client, streaming, omVars>>

\* OrderManager::stop
StopManager ==
  /\ Stopping("manager", "notify")
  /\ om_running' = FALSE
  /\ UNCHANGED <<ex_running, connected, client, streaming, threads, c_pc, s_pc, queue>>

\* A notification wakes the processor only if it is already waiting.
WakeProcessor == c_pc' = IF c_pc = "waiting" THEN "acquire" ELSE c_pc

StopNotify ==
  /\ Stopping("notify", "join")
  /\ WakeProcessor
  /\ UNCHANGED <<ex_running, connected, client, streaming, threads, om_running, s_pc, queue>>

StopJoin ==
  /\ c_pc \in {"off", "done", "joined"} /\ s_pc \in {"off", "done", "joined"}
  /\ c_pc' = (IF c_pc = "done" THEN "joined" ELSE c_pc)
  /\ s_pc' = (IF s_pc = "done" THEN "joined" ELSE s_pc)
  /\ Stopping("join", "none")
  /\ UNCHANGED <<ex_running, connected, client, streaming, threads, om_running, queue>>

----------------------------------------------------------------------------
\* The thread that feeds ticks can take a step.
FeederRuns ==
  /\ pc # "aborted"
  /\ IF kind = "mock" THEN pc = "feed" /\ stopping = "none" ELSE threads["stream"] = "run"

Ticks(at, to) ==
  /\ tick = at /\ tick' = to
  /\ UNCHANGED <<kind, open, pc, g_running, made, stopping, outer, signals,
                 ex_running, connected, client, streaming, callback, om_running, s_pc, unstopped>>

Callback(at, to) == FeederRuns /\ Ticks(at, to) /\ UNCHANGED threads

\* A tick for which a strategy emits a signal that the breaker lets pass; any
\* other tick changes nothing here.
MockTick == FeederRuns /\ ex_running /\ Ticks("none", "balance") /\ UNCHANGED threads

\* recv returns one, also after the socket was closed.  main in
\* set_tick_callback holds the mutex the streaming thread calls under.
StreamTick ==
  /\ pc \notin {"callback", "aborted"} /\ callback
  /\ threads["stream"] = "recv" /\ threads' = [threads EXCEPT !["stream"] = "run"]
  /\ Ticks("none", "risk")

TickSignals ==
  /\ queue < MaxQueue
  /\ IF kind = "mock" THEN MockTick ELSE StreamTick
  /\ UNCHANGED <<c_pc, queue>>

ReadBalance == Callback("balance", "risk") /\ UNCHANGED <<c_pc, queue>>

\* The order is approved, or blocked: then only the notification is left.
CheckRisk ==
  /\ \/ Callback("risk", "notify")
     \/ c_pc \notin {"test", "block", "drain"} /\ Callback("risk", "queue")
  /\ UNCHANGED <<c_pc, queue>>

Enqueue == Callback("queue", "notify") /\ queue' = queue + 1 /\ UNCHANGED c_pc

Notify == Callback("notify", "none") /\ WakeProcessor /\ UNCHANGED queue

----------------------------------------------------------------------------
\* The processor; `tick` tells which mutex it cannot have.
Processor(from, to) ==
  /\ c_pc = from /\ c_pc' = to /\ pc # "aborted"
  /\ UNCHANGED <<kind, open, pc, g_running, made, stopping, outer, signals, exVars, tick,
                 om_running, s_pc, unstopped>>

Pop ==
  queue > 0 /\ om_running /\ Processor("drain", "place") /\ queue' = queue - 1

ProcessorStep ==
  \/ Processor("head", IF om_running THEN "acquire" ELSE "done") /\ UNCHANGED queue
  \/ tick # "queue" /\ Processor("acquire", "test") /\ UNCHANGED queue
  \/ Processor("test", IF queue > 0 \/ ~om_running THEN "drain" ELSE "block") /\ UNCHANGED queue
  \/ Processor("block", "waiting") /\ UNCHANGED queue
  \/ Pop
  \/ (queue = 0 \/ ~om_running) /\ Processor("drain", "head") /\ UNCHANGED queue
  \/ tick # "balance" /\ Processor("place", "confirm") /\ UNCHANGED queue
  \/ tick # "risk" /\ Processor("confirm", "relock") /\ UNCHANGED queue
  \/ tick # "queue" /\ Processor("relock", "drain") /\ UNCHANGED queue

SpuriousWakeup == Processor("waiting", "acquire") /\ UNCHANGED queue

StatusExits ==
  /\ s_pc = "run" /\ ~om_running /\ pc # "aborted"
  /\ s_pc' = "done"
  /\ UNCHANGED <<kind, open, pc, g_running, made, stopping, outer, signals, exVars, tick,
                 om_running, c_pc, queue, unstopped>>

\* A thread of Alpaca's goes on.
ThreadGoes(t, from, to) ==
  /\ threads[t] = from /\ threads' = [threads EXCEPT ![t] = to] /\ pc # "aborted"
  /\ UNCHANGED <<kind, open, pc, g_running, made, stopping, outer, signals, ex_running,
                 connected, client, streaming, callback, tick, omVars, unstopped>>

StatusThreadEnds == (~ex_running \/ ~connected) /\ ThreadGoes("status", "run", "done")
OrdersThreadEnds == ~client /\ ThreadGoes("orders", "run", "done")

\* The streaming thread tests m_streaming and its socket, ...
StreamChecks ==
  tick = "none" /\ ThreadGoes("stream", "run", IF streaming THEN "recv" ELSE "done")

\* ... and recv returns what is no tick, or nothing: the peer has closed, or
\* the socket was closed before the call.  Closing does not wake it.
RecvReturns == \E to \in {"run", "done"} : ThreadGoes("stream", "recv", to)

\* A REST reply that is not what it should be, on a thread that catches
\* nothing: the status, the order poll or the processor.
ThreadThrows ==
  /\ kind = "alpaca" /\ pc # "aborted"
  /\ threads["status"] = "run" \/ threads["orders"] = "run" \/ c_pc = "place"
  /\ pc' = "aborted"
  /\ UNCHANGED <<kind, open, g_running, made, stopping, outer, signals, exVars, tick, omVars,
                 unstopped>>

MarketOpens ==
  /\ ~open /\ open' = TRUE /\ pc # "aborted"
  /\ UNCHANGED <<kind, pc, g_running, made, stopping, outer, signals, exVars, tick, omVars,
                 unstopped>>

----------------------------------------------------------------------------
MainStep ==
  \/ CheckMarket \/ WaitForMarket \/ CreateExchange \/ Connect \/ ConnectSocket \/ Connected
  \/ Account \/ CreateManager \/ Subscribe \/ SetTickCallback \/ StartManager
  \/ RunMock \/ FeedEnds \/ RunAlpaca \/ LoopEnds
  \/ DestroyStrategies \/ DestroyExchange \/ Exit

StopStep ==
  \/ HandlerBegins \/ StopAdapter \/ JoinPoll \/ Disconnect \/ JoinClient
  \/ StopManager \/ StopNotify \/ StopJoin

CallbackStep == ReadBalance \/ CheckRisk \/ Enqueue \/ Notify

ThreadStep == StatusThreadEnds \/ OrdersThreadEnds \/ StreamChecks

Next ==
  \/ MainStep \/ LoopThrows \/ SummaryThrows
  \/ SignalArrives \/ SignalNests \/ SignalElsewhere \/ StopStep \/ JoinThrows
  \/ TickSignals \/ CallbackStep
  \/ ProcessorStep \/ SpuriousWakeup \/ StatusExits
  \/ ThreadStep \/ RecvReturns \/ ThreadThrows
  \/ MarketOpens

\* Every thread that can run does; a REST call returns (libcurl's timeout);
\* the market opens.  The processor gets a mutex that is free again and again:
\* the feeder pauses between ticks.  recv need not return, and signals, ticks,
\* exceptions and spurious wakeups need not come.
Fairness ==
  /\ WF_vars(MainStep) /\ WF_vars(StopStep) /\ WF_vars(CallbackStep)
  /\ SF_vars(ProcessorStep) /\ WF_vars(StatusExits)
  /\ WF_vars(StatusThreadEnds) /\ WF_vars(OrdersThreadEnds) /\ WF_vars(StreamChecks)
  /\ WF_vars(MarketOpens)

Spec == Init /\ [][Next]_vars /\ Fairness

----------------------------------------------------------------------------
\* main holds a mutex that a thread the handler joins may want.
HoldsMutex == pc = "callback" \/ (kind = "mock" /\ tick \in {"balance", "risk", "queue"})

\* The mock exchange's run will set m_running again.
ForgetsStop == kind = "mock" /\ pc \in Starting \ {"check", "wait"}

\* The known lost wakeup of OrderManager::stop.
WakeupLost == stopping = "join" /\ c_pc = "waiting"

\* disconnect waits for a thread that no close wakes.
StreamBlocked == stopping = "joinClient" /\ threads["stream"] = "recv"

Interrupted ==
  stopping = "flag" /\ ~HoldsMutex /\ ~ForgetsStop /\ (pc = "check" => kind = "alpaca")

\* Ctrl+C ends the process, whichever exchange feeds it and whatever else is
\* going on, also the second one if the first came too early or its handler
\* is still running -- unless the interrupted callback holds a mutex, run has
\* yet to forget the stop, or the process waits for ever: for a processor
\* whose notification is lost, or for a recv that nothing ends.
InterruptEnds ==
  <>[]WakeupLost \/ <>[]StreamBlocked \/ (Interrupted ~> pc \in {"gone", "aborted"})

\* No tick finds the strategies destroyed: the handler has stopped the
\* exchange by the time main returns, unless the signal came before there
\* was something to stop or main left by an exception.
TicksFindStrategies ==
  pc \in {"managerGone", "exchangeGone", "gone"} /\ ~unstopped => tick = "none"
=============================================================================
