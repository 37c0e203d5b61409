---------------------------- MODULE AlpacaStream ----------------------------
(***************************************************************************)
(* The life of an AlpacaClient and of its streaming thread, from           *)
(* src/src/exchange/alpaca_client.cpp: connect, connect_websocket,         *)
(* websocket_thread, handle_websocket_message and disconnect.              *)
(*                                                                         *)
(* The peer sends frames, numbered from 1, each one trade.  TCP carries    *)
(* bytes: a frame is two halves, and recv returns some of the halves that  *)
(* have arrived, wherever the frames begin and end.  Half a frame taken    *)
(* for a beginning makes no message (its bytes are no JSON array).         *)
(* Closing a socket does not wake a thread that is blocked in recv.        *)
(***************************************************************************)
EXTENDS Naturals, Sequences

CONSTANTS
  MaxFrames   \* bound: frames the peer sends

MaxFramesAssumption == MaxFrames \in Nat

VARIABLES
  main_pc,         \* where main is in connect or disconnect
  m_connected, m_streaming,
  m_ws_socket,     \* the descriptor is not -1
  orders_thread,   \* poll_order_updates
  ws_pc,           \* websocket_thread
  chunk,           \* what recv returned
  trade_callback,  \* is set
  wire,            \* halves sent and not received, <<frame, half>>
  sent_frames,
  peer_open,       \* the peer has not closed the connection
  \* What follows is not in the program.
  opened,          \* the socket exists in the kernel
  delivered        \* frames that reached the callback

streamVars == <<main_pc, m_connected, m_streaming, m_ws_socket, orders_thread, ws_pc, chunk,
                trade_callback, wire, sent_frames, peer_open, opened, delivered>>

Half == (1 .. MaxFrames) \X {1, 2}

TypeOK ==
  /\ main_pc \in {"new", "poll", "socket", "handshake", "thread", "ready",
                  "flags", "close", "joinStream", "joinOrders", "returned"}
  /\ {m_connected, m_streaming, m_ws_socket, trade_callback, peer_open, opened} \subseteq BOOLEAN
  /\ orders_thread \in {"off", "run", "done"}
  /\ ws_pc \in {"off", "check", "recv", "handle", "callback", "done"}
  /\ chunk \in Seq(Half) /\ wire \in Seq(Half)
  /\ sent_frames \in 0 .. MaxFrames /\ delivered \in Seq(1 .. MaxFrames)

Init ==
  /\ main_pc = "new"
  /\ m_connected = FALSE /\ m_streaming = FALSE /\ m_ws_socket = FALSE
  /\ orders_thread = "off" /\ ws_pc = "off" /\ chunk = <<>>
  /\ trade_callback = FALSE
  /\ wire = <<>> /\ sent_frames = 0 /\ peer_open = FALSE
  /\ opened = FALSE /\ delivered = <<>>

threadVars == <<orders_thread, ws_pc, chunk, delivered>>
wireVars == <<wire, sent_frames, peer_open>>

----------------------------------------------------------------------------
MainMoves(from, to) == main_pc = from /\ main_pc' = to

\* get_account tells whether the keys are good.
Connect ==
  /\ \/ MainMoves("new", "poll") /\ m_connected' = TRUE
     \/ MainMoves("new", "ready") /\ UNCHANGED m_connected
  /\ UNCHANGED <<m_streaming, m_ws_socket, threadVars, trade_callback, wireVars, opened>>

StartPoll ==
  /\ MainMoves("poll", "socket")
  /\ orders_thread' = "run"
  /\ UNCHANGED <<m_connected, m_streaming, m_ws_socket, ws_pc, chunk, delivered, trade_callback,
                 wireVars, opened>>

\* socket() and ::connect; when the host is unknown or refuses, the
\* descriptor stays in m_ws_socket.
OpenSocket ==
  /\ \/ MainMoves("socket", "handshake") /\ peer_open' = TRUE
     \/ MainMoves("socket", "ready") /\ UNCHANGED peer_open
  /\ m_ws_socket' = TRUE /\ opened' = TRUE
  /\ UNCHANGED <<m_connected, m_streaming, threadVars, trade_callback, wire, sent_frames>>

\* The answer has a 101 in it, or connect_websocket returns false.  What
\* arrived together with the answer is lost.
Handshake ==
  /\ \/ MainMoves("handshake", "thread") /\ m_streaming' = TRUE
     \/ MainMoves("handshake", "ready") /\ UNCHANGED m_streaming
  /\ \E n \in 0 .. Len(wire) : wire' = SubSeq(wire, n + 1, Len(wire))
  /\ UNCHANGED <<m_connected, m_ws_socket, threadVars, trade_callback, sent_frames, peer_open, opened>>

StartStream ==
  /\ MainMoves("thread", "ready")
  /\ ws_pc' = "check"
  /\ UNCHANGED <<m_connected, m_streaming, m_ws_socket, orders_thread, chunk, delivered,
                 trade_callback, wireVars, opened>>

\* set_trade_callback waits for a callback that runs.
SetTradeCallback ==
  /\ main_pc = "ready" /\ ws_pc # "callback"
  /\ trade_callback' = TRUE
  /\ UNCHANGED <<main_pc, m_connected, m_streaming, m_ws_socket, threadVars, wireVars, opened>>

----------------------------------------------------------------------------
BeginDisconnect ==
  /\ MainMoves("ready", "flags")
  /\ UNCHANGED <<m_connected, m_streaming, m_ws_socket, threadVars, trade_callback, wireVars, opened>>

\* Faulty variant: the poll thread is not told.
ClearFlagsStreamingOnly ==
  /\ MainMoves("flags", "close")
  /\ m_streaming' = FALSE
  /\ UNCHANGED <<m_connected, m_ws_socket, threadVars, trade_callback, wireVars, opened>>

ClearFlags ==
  /\ MainMoves("flags", "close")
  /\ m_connected' = FALSE /\ m_streaming' = FALSE
  /\ UNCHANGED <<m_ws_socket, threadVars, trade_callback, wireVars, opened>>

\* Faulty variant: a socket whose handshake failed is not closed.
CloseSocketIfStreaming ==
  /\ MainMoves("close", "joinStream")
  /\ IF ws_pc # "off" THEN opened' = FALSE /\ m_ws_socket' = FALSE
                      ELSE UNCHANGED <<opened, m_ws_socket>>
  /\ UNCHANGED <<m_connected, m_streaming, threadVars, trade_callback, wireVars>>

CloseSocket ==
  /\ MainMoves("close", "joinStream")
  /\ IF m_ws_socket THEN opened' = FALSE ELSE UNCHANGED opened
  /\ m_ws_socket' = FALSE
  /\ UNCHANGED <<m_connected, m_streaming, threadVars, trade_callback, wireVars>>

JoinStream ==
  /\ MainMoves("joinStream", "joinOrders")
  /\ ws_pc \in {"off", "done"}
  /\ UNCHANGED <<m_connected, m_streaming, m_ws_socket, threadVars, trade_callback, wireVars, opened>>

JoinOrders ==
  /\ MainMoves("joinOrders", "returned")
  /\ orders_thread \in {"off", "done"}
  /\ UNCHANGED <<m_connected, m_streaming, m_ws_socket, threadVars, trade_callback, wireVars, opened>>

----------------------------------------------------------------------------
Worker == UNCHANGED <<main_pc, m_connected, m_streaming, m_ws_socket, trade_callback, opened>>

OrdersThreadEnds ==
  /\ orders_thread = "run" /\ ~m_connected
  /\ orders_thread' = "done"
  /\ UNCHANGED <<ws_pc, chunk, delivered, wireVars>> /\ Worker

\* while (m_streaming && m_ws_socket != -1)
CheckStreaming ==
  /\ ws_pc = "check"
  /\ ws_pc' = IF m_streaming /\ m_ws_socket THEN "recv" ELSE "done"
  /\ UNCHANGED <<orders_thread, chunk, delivered, wireVars>> /\ Worker

\* recv returns what has arrived of the stream, up to any point.
Receive ==
  /\ ws_pc = "recv" /\ wire # <<>>
  /\ \E n \in 1 .. Len(wire) : chunk' = SubSeq(wire, 1, n) /\ wire' = SubSeq(wire, n + 1, Len(wire))
  /\ ws_pc' = "handle"
  /\ UNCHANGED <<orders_thread, delivered, sent_frames, peer_open>> /\ Worker

\* recv returns nothing: the peer has closed, or the descriptor was closed
\* before recv was called (it may have been, then it is EBADF).
ReceiveNothing ==
  /\ ws_pc = "recv" /\ \/ wire = <<>> /\ ~peer_open
                       \/ ~opened
  /\ ws_pc' = "done"
  /\ UNCHANGED <<orders_thread, chunk, delivered, wireVars>> /\ Worker

\* Faulty variant: every chunk is taken for a message.
HandleAnything ==
  /\ ws_pc = "handle"
  /\ ws_pc' = IF trade_callback THEN "callback" ELSE "check"
  /\ UNCHANGED <<orders_thread, chunk, delivered, wireVars>> /\ Worker

\* A whole frame at the start of the chunk is a trade; whatever follows it in
\* the chunk, and every other chunk, is dropped.
Handle ==
  /\ ws_pc = "handle"
  /\ ws_pc' = IF chunk[1][2] = 1 /\ Len(chunk) >= 2 /\ trade_callback THEN "callback" ELSE "check"
  /\ UNCHANGED <<orders_thread, chunk, delivered, wireVars>> /\ Worker

\* The callback, under m_callback_mutex.
Callback ==
  /\ ws_pc = "callback"
  /\ delivered' = Append(delivered, chunk[1][1])
  /\ ws_pc' = "check"
  /\ UNCHANGED <<orders_thread, chunk, wireVars>> /\ Worker

----------------------------------------------------------------------------
PeerSends ==
  /\ peer_open /\ sent_frames < MaxFrames
  /\ sent_frames' = sent_frames + 1
  /\ wire' = wire \o <<<<sent_frames + 1, 1>>, <<sent_frames + 1, 2>>>>
  /\ UNCHANGED <<main_pc, m_connected, m_streaming, m_ws_socket, threadVars, trade_callback,
                 peer_open, opened>>

PeerCloses ==
  /\ peer_open /\ peer_open' = FALSE
  /\ UNCHANGED <<main_pc, m_connected, m_streaming, m_ws_socket, threadVars, trade_callback,
                 wire, sent_frames, opened>>

Main ==
  \/ Connect \/ StartPoll \/ OpenSocket \/ Handshake \/ StartStream
  \/ ClearFlags \/ CloseSocket \/ JoinStream \/ JoinOrders

Stream == CheckStreaming \/ Receive \/ Handle \/ Callback

Next ==
  \/ Main \/ BeginDisconnect \/ SetTradeCallback
  \/ OrdersThreadEnds \/ Stream \/ ReceiveNothing
  \/ PeerSends \/ PeerCloses

\* Every thread runs; a recv with nothing to come returns when the peer has
\* closed, but nobody has to close, and a descriptor closed under a blocked
\* recv does not make it return.
Fairness ==
  /\ WF_streamVars(Main)
  /\ WF_streamVars(OrdersThreadEnds)
  /\ WF_streamVars(Stream)
  /\ WF_streamVars(ReceiveNothing /\ ~peer_open)

Spec == Init /\ [][Next]_streamVars /\ Fairness

----------------------------------------------------------------------------
\* Trades reach the strategies in the order they were sent, none twice, and
\* each of them was a whole frame at the start of what recv returned: frames
\* may be lost, wherever TCP cuts the stream, but never made up.
TradesInOrder ==
  /\ \A i, j \in DOMAIN delivered : i < j => delivered[i] < delivered[j]
  /\ \A i \in DOMAIN delivered : delivered[i] <= sent_frames
  /\ ws_pc = "callback" => Len(chunk) >= 2 /\ chunk[2] = <<chunk[1][1], 2>>

\* When disconnect has returned neither thread runs and no socket is left
\* open, also that of a handshake that failed.
DisconnectLeavesNothing ==
  main_pc = "returned" =>
    /\ ws_pc \in {"off", "done"} /\ orders_thread \in {"off", "done"}
    /\ ~opened

\* disconnect returns, unless the streaming thread stays in recv for ever: the
\* peer neither sends nor closes.
DisconnectReturns ==
  \/ main_pc = "flags" ~> main_pc = "returned"
  \/ <>[](ws_pc = "recv" /\ peer_open /\ wire = <<>>)
=============================================================================
