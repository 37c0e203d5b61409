----------------------------- MODULE AlpacaRest -----------------------------
(***************************************************************************)
(* The REST side of src/src/exchange/alpaca_client.cpp: every call goes    *)
(* through send_request, which sets options on the one curl handle of the  *)
(* client and performs it, with no mutex.  The poll thread, the adapter's  *)
(* thread, the OrderManager's processor and the tick thread all call it.   *)
(*                                                                         *)
(* The handle keeps its options from call to call, as libcurl does: a      *)
(* custom method stays until it is set again, and wins over GET and POST.  *)
(* The server is external.  It answers, refuses, or stays silent, and a    *)
(* silent server may have acted.  Quantities are in tenths of a share.     *)
(***************************************************************************)
EXTENDS Integers, FiniteSets

CONSTANTS
  Threads,
  Quantities,   \* of the orders placed
  MaxOrders,    \* bound: orders the server takes
  MaxCalls      \* bound: calls made

QuantitiesAssumption == Quantities \subseteq Nat
BoundsAssumption == MaxOrders \in Nat /\ MaxCalls \in Nat

VARIABLES
  call,          \* what each thread asks for
  call_pc,       \* where it is in send_request
  answer,        \* the response its call has received
  handle,        \* the options of the curl handle
  order_cache,   \* m_active_orders: status by order
  server,        \* the orders the server has
  calls,         \* calls begun
  \* What follows is not in the program.
  overlapped,    \* two calls were in send_request at once
  customised,    \* a DELETE was made
  mangled,       \* a request reached the server that nobody had asked for
  crossed        \* an answer reached a caller that was not meant for it

restVars == <<call, call_pc, answer, handle, order_cache, server, calls,
              overlapped, customised, mangled, crossed>>

OrderIds == 1 .. MaxOrders
Statuses == {"new", "filled", "canceled"}

\* The requests of the client's methods: get_account, get_positions and the
\* market data ("account"); get_orders(true) ("open"); get_order, cancel_order
\* and close_position ("order"); place_order ("orders").
Requests ==
  [method : {"GET"}, target : {"account", "open"}, order : {0}, quantity : {0}]
  \cup [method : {"GET", "DELETE"}, target : {"order"}, order : OrderIds, quantity : {0}]
  \cup [method : {"POST"}, target : {"orders"}, order : {0}, quantity : Quantities]

\* What a call learns: an order id, or the set of open orders, or nothing.
Silence == [order |-> 0, open |-> {}]

TypeOK ==
  /\ call \in [Threads -> Requests]
  /\ call_pc \in [Threads -> {"idle", "target", "method", "perform", "done"}]
  /\ \A t \in Threads : answer[t].order \in 0 .. MaxOrders /\ answer[t].open \subseteq OrderIds
  /\ handle.target \in {"none", "account", "open", "order", "orders"}
  /\ handle.order \in 0 .. MaxOrders
  /\ handle.method \in {"GET", "POST"} /\ handle.custom \in {"none", "DELETE"}
  /\ handle.reply_to \in Threads
  /\ order_cache \in [OrderIds -> Statuses \cup {"unknown"}]
  /\ \A id \in OrderIds : server[id].status \in Statuses \cup {"unknown"}
  /\ calls \in 0 .. MaxCalls
  /\ {overlapped, customised, mangled, crossed} \subseteq BOOLEAN

Init ==
  /\ call = [t \in Threads |-> CHOOSE r \in Requests : r.target = "account"]
  /\ call_pc = [t \in Threads |-> "idle"]
  /\ answer = [t \in Threads |-> Silence]
  /\ handle = [target |-> "none", order |-> 0, method |-> "GET", custom |-> "none", quantity |-> 0,
               reply_to |-> CHOOSE t \in Threads : TRUE]
  /\ order_cache = [id \in OrderIds |-> "unknown"]
  /\ server = [id \in OrderIds |-> [status |-> "unknown", quantity |-> 0]]
  /\ calls = 0
  /\ overlapped = FALSE /\ customised = FALSE /\ mangled = FALSE /\ crossed = FALSE

----------------------------------------------------------------------------
\* Faulty variant: the quantity is rounded up.
WholeSharesUp(tenths) == ((tenths + 9) \div 10) * 10

\* place_order sends static_cast<int>(quantity).
WholeShares(tenths) == (tenths \div 10) * 10

Body(r) == WholeShares(r.quantity)

InRequest(t) == call_pc[t] \in {"target", "method", "perform"}

Begin(t) ==
  /\ call_pc[t] = "idle" /\ calls < MaxCalls
  /\ \E r \in Requests :
       /\ r.order # 0 => server[r.order].status # "unknown"
       /\ call' = [call EXCEPT ![t] = r]
  /\ call_pc' = [call_pc EXCEPT ![t] = "target"]
  /\ answer' = [answer EXCEPT ![t] = Silence]
  /\ calls' = calls + 1
  /\ overlapped' = (overlapped \/ \E u \in Threads : InRequest(u))
  /\ UNCHANGED <<handle, order_cache, server, customised, mangled, crossed>>

\* CURLOPT_URL and CURLOPT_WRITEDATA
SetTarget(t) ==
  /\ call_pc[t] = "target"
  /\ handle' = [handle EXCEPT !.target = call[t].target, !.order = call[t].order,
                                 !.reply_to = t]
  /\ call_pc' = [call_pc EXCEPT ![t] = "method"]
  /\ UNCHANGED <<call, answer, order_cache, server, calls, overlapped, customised, mangled, crossed>>

\* Faulty variant: nothing is set for a GET.
WithMethodNoGet(r) ==
  CASE r.method = "POST" -> [handle EXCEPT !.method = "POST", !.quantity = Body(r)]
    [] r.method = "DELETE" -> [handle EXCEPT !.custom = "DELETE"]
    [] OTHER -> handle

\* CURLOPT_POST and its body, CURLOPT_CUSTOMREQUEST, or CURLOPT_HTTPGET.
WithMethod(r) ==
  CASE r.method = "POST" -> [handle EXCEPT !.method = "POST", !.quantity = Body(r)]
    [] r.method = "DELETE" -> [handle EXCEPT !.custom = "DELETE"]
    [] OTHER -> [handle EXCEPT !.method = "GET"]

SetMethod(t) ==
  /\ call_pc[t] = "method"
  /\ handle' = WithMethod(call[t])
  /\ customised' = (customised \/ call[t].method = "DELETE")
  /\ call_pc' = [call_pc EXCEPT ![t] = "perform"]
  /\ UNCHANGED <<call, answer, order_cache, server, calls, overlapped, mangled, crossed>>

----------------------------------------------------------------------------
\* The request that the handle makes.
Sent ==
  [method |-> IF handle.custom = "none" THEN handle.method ELSE handle.custom,
   target |-> handle.target, order |-> handle.order, quantity |-> handle.quantity]

SameRequest(r) ==
  /\ Sent.method = r.method /\ Sent.target = r.target /\ Sent.order = r.order
  /\ r.method = "POST" => Sent.quantity = Body(r)

OpenOrders == {id \in OrderIds : server[id].status = "new"}

\* The ids the server may give to the next order.
NextIds ==
  {id \in OrderIds : /\ server[id].status = "unknown"
                     /\ \A j \in 1 .. id - 1 : server[j].status # "unknown"}

\* What the server may do with the request, and the answer it then gives.  A
\* refusal is an HTTP status that is no success.
Outcomes ==
  {[server |-> server, reply |-> Silence]} \cup
  CASE Sent.method = "GET" ->
         {[server |-> server,
           reply |-> [order |-> handle.order,
                      open |-> IF handle.target = "open" THEN OpenOrders ELSE {}]]}
    [] Sent.method = "POST" /\ Sent.target = "orders" /\ Sent.quantity > 0 ->
         {[server |-> [server EXCEPT ![id] = [status |-> "new", quantity |-> Sent.quantity]],
           reply |-> [order |-> id, open |-> {}]] : id \in NextIds}
    [] Sent.method = "DELETE" ->
         {[server |-> [server EXCEPT ![id].status = "canceled"], reply |-> Silence] :
            id \in OpenOrders \cap {Sent.order}}
    [] OTHER -> {}

\* The answer goes to the response of whoever set WRITEDATA last, unless the
\* ten seconds pass first.
Perform(t) ==
  /\ call_pc[t] = "perform"
  /\ \E outcome \in Outcomes, reply_in_time \in BOOLEAN :
       /\ server' = outcome.server
       /\ answer' = IF reply_in_time THEN [answer EXCEPT ![handle.reply_to] = outcome.reply]
                                     ELSE answer
  /\ mangled' = (mangled \/ ~SameRequest(call[t]))
  /\ crossed' = (crossed \/ handle.reply_to # t)
  /\ call_pc' = [call_pc EXCEPT ![t] = "done"]
  /\ UNCHANGED <<call, handle, order_cache, calls, overlapped, customised>>

\* poll_order_updates copies what get_orders(true) returned; the other
\* callers look at their answer and are done.
Return(t) ==
  /\ call_pc[t] = "done"
  /\ order_cache' =
       IF call[t].target = "open"
         THEN [id \in OrderIds |-> IF id \in answer[t].open THEN "new" ELSE order_cache[id]]
         ELSE order_cache
  /\ call_pc' = [call_pc EXCEPT ![t] = "idle"]
  /\ UNCHANGED <<call, answer, handle, server, calls, overlapped, customised, mangled, crossed>>

\* The server fills an order by itself.
Fill ==
  /\ \E id \in OpenOrders : server' = [server EXCEPT ![id].status = "filled"]
  /\ UNCHANGED <<call, call_pc, answer, handle, order_cache, calls, overlapped, customised,
                 mangled, crossed>>

Next ==
  \/ \E t \in Threads : Begin(t) \/ SetTarget(t) \/ SetMethod(t) \/ Perform(t) \/ Return(t)
  \/ Fill

Spec == Init /\ [][Next]_restVars

----------------------------------------------------------------------------
\* As long as no two calls overlap and nothing was cancelled, the options
\* left over from earlier calls do no harm: every request reaches the server
\* as its caller asked, and the answer goes to that caller.
CallsUndisturbed == (mangled => overlapped \/ customised) /\ (crossed => overlapped)

\* An id returned by place_order names an order of the server, for the
\* quantity asked or less than one share under it: the caller books the
\* quantity asked.
PlacedOrderIsThere ==
  ~mangled /\ ~crossed =>
    \A t \in Threads :
      call_pc[t] = "done" /\ call[t].method = "POST" /\ answer[t].order # 0 =>
        LET taken == server[answer[t].order].quantity
        IN 0 < taken /\ taken <= call[t].quantity /\ call[t].quantity < taken + 10

\* The poll's copy of an order is never ahead of the server, and knows no
\* order the server does not, also when the list it copied was another
\* caller's answer.
CacheLagsBehind ==
  \A id \in OrderIds :
    order_cache[id] # "unknown" => order_cache[id] = "new" /\ server[id].status # "unknown"
=============================================================================
