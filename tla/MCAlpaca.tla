------------------------------ MODULE MCAlpaca ------------------------------
(***************************************************************************)
(* The REST side and the streaming side of AlpacaClient on small           *)
(* instances.  They share no state that matters to either, so a behaviour  *)
(* exercises one of them and the other rests.                              *)
(***************************************************************************)
EXTENDS Naturals, Sequences

CONSTANTS Threads, Quantities, MaxOrders, MaxCalls, MaxFrames

VARIABLES
  side,
  call, call_pc, answer, handle, order_cache, server, calls,
  overlapped, customised, mangled, crossed,
  main_pc, m_connected, m_streaming, m_ws_socket, orders_thread, ws_pc, chunk,
  trade_callback, wire, sent_frames, peer_open, opened, delivered

Rest == INSTANCE AlpacaRest
Stream == INSTANCE AlpacaStream

ASSUME RestAssumptions == Rest!QuantitiesAssumption /\ Rest!BoundsAssumption
ASSUME StreamAssumptions == Stream!MaxFramesAssumption

restVars == <<call, call_pc, answer, handle, order_cache, server, calls,
              overlapped, customised, mangled, crossed>>
streamVars == <<main_pc, m_connected, m_streaming, m_ws_socket, orders_thread, ws_pc, chunk,
                trade_callback, wire, sent_frames, peer_open, opened, delivered>>
vars == <<side, restVars, streamVars>>

Init == side \in {"rest", "stream"} /\ Rest!Init /\ Stream!Init

OnRest == side = "rest" /\ UNCHANGED <<side, streamVars>>
OnStream == side = "stream" /\ UNCHANGED <<side, restVars>>

Next == (OnRest /\ Rest!Next) \/ (OnStream /\ Stream!Next)

Fairness ==
  /\ WF_vars(OnStream /\ Stream!Main)
  /\ WF_vars(OnStream /\ Stream!OrdersThreadEnds)
  /\ WF_vars(OnStream /\ Stream!Stream)
  /\ WF_vars(OnStream /\ Stream!ReceiveNothing /\ ~peer_open)

Spec == Init /\ [][Next]_vars /\ Fairness

\* Both sides keep their types.
TypeOK == Rest!TypeOK /\ Stream!TypeOK

\* Without overlapping calls and cancellations every request arrives as asked
\* and every answer goes to its caller.
CallsUndisturbed == Rest!CallsUndisturbed

\* An id returned by place_order names an order of the server, and the poll's
\* cache is never ahead of the server.
AnswersAreTrue == Rest!PlacedOrderIsThere /\ Rest!CacheLagsBehind

\* Trades are delivered in order, at most once, and only whole frames.
TradesInOrder == Stream!TradesInOrder

\* disconnect leaves neither a thread nor a socket behind.
DisconnectLeavesNothing == Stream!DisconnectLeavesNothing

\* disconnect returns unless recv stays blocked for ever on a silent peer.
DisconnectReturns == Stream!DisconnectReturns
=============================================================================
