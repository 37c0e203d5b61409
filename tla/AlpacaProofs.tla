---------------------------- MODULE AlpacaProofs ----------------------------
(***************************************************************************)
(* What AlpacaClient's two sides keep, for any threads, quantities, orders *)
(* and frames.                                                             *)
(***************************************************************************)
EXTENDS MCAlpaca, Integers, SequenceTheorems, TLAPS

\* A step of the client is a step of the REST side, of the streaming side, or
\* of neither; what one side does not touch, the other finds as it was.
LEMMA Sides ==
  ASSUME [Next]_vars
  PROVE  [Rest!Next]_restVars /\ [Stream!Next]_streamVars
  BY DEF Next, OnRest, OnStream, vars

----------------------------------------------------------------------------
(***************************************************************************)
(* The REST side.                                                          *)
(***************************************************************************)
Answer == [order : 0 .. MaxOrders, open : SUBSET Rest!OrderIds]

OrderState == [status : Rest!Statuses \cup {"unknown"}, quantity : Nat]

Nobody == CHOOSE t \in Threads : TRUE

Handle ==
  [target : {"none", "account", "open", "order", "orders"}, order : 0 .. MaxOrders,
   method : {"GET", "POST"}, custom : {"none", "DELETE"}, quantity : Nat,
   reply_to : Threads \cup {Nobody}]

RestTypes ==
  /\ call \in [Threads -> Rest!Requests]
  /\ call_pc \in [Threads -> {"idle", "target", "method", "perform", "done"}]
  /\ answer \in [Threads -> Answer]
  /\ handle \in Handle
  /\ order_cache \in [Rest!OrderIds -> Rest!Statuses \cup {"unknown"}]
  /\ server \in [Rest!OrderIds -> OrderState]

\* While no calls overlap the one that is made has the handle to itself, and
\* what it has set is what is sent unless a DELETE was ever made.
HandleInv ==
  /\ ~overlapped =>
       /\ \A t, u \in Threads : Rest!InRequest(t) /\ Rest!InRequest(u) => t = u
       /\ \A t \in Threads : call_pc[t] \in {"method", "perform"} =>
            /\ handle.target = call[t].target /\ handle.order = call[t].order
            /\ handle.reply_to = t
  /\ ~customised => handle.custom = "none"
  /\ ~overlapped /\ ~customised =>
       \A t \in Threads : call_pc[t] = "perform" =>
         /\ handle.method = call[t].method
         /\ call[t].method = "POST" => handle.quantity = Rest!Body(call[t])
  /\ CallsUndisturbed

\* The server has, or once had, the order.
Known(id) == server[id].status # "unknown"

\* What thread t has been told.  As long as answers go to their callers, its
\* answer is empty until its own comes, and an id in it is the order it asked
\* for; the open orders it lists are the server's, whoever asked.
Told(t) ==
  /\ ~crossed /\ Rest!InRequest(t) => answer[t] = Rest!Silence
  /\ ~mangled /\ ~crossed /\ call_pc[t] = "done" /\ call[t].method = "POST"
       /\ answer[t].order # 0 =>
       /\ Known(answer[t].order)
       /\ server[answer[t].order].quantity = Rest!Body(call[t])
       /\ Rest!Body(call[t]) > 0
  /\ \A id \in answer[t].open : Known(id)

AnswerInv ==
  /\ \A t \in Threads : Told(t)
  /\ \A id \in Rest!OrderIds :
       order_cache[id] # "unknown" => order_cache[id] = "new" /\ Known(id)

\* Whole shares are not more than was asked, and less than a share fewer.
LEMMA WholeSharesBounds ==
  ASSUME NEW q \in Nat
  PROVE  /\ Rest!WholeShares(q) \in Nat /\ Rest!WholeShares(q) <= q
         /\ q < Rest!WholeShares(q) + 10
<1>1. q \div 10 \in Nat /\ q % 10 \in 0 .. 9 /\ q = 10 * (q \div 10) + (q % 10)
  OBVIOUS
<1>2. PICK d \in Nat, r \in 0 .. 9 : q \div 10 = d /\ q = 10 * d + r
  BY <1>1
<1>3. QED
  BY <1>2 DEF Rest!WholeShares

LEMMA RequestFacts ==
  ASSUME NEW r \in Rest!Requests
  PROVE  /\ r.method \in {"GET", "POST", "DELETE"}
         /\ r.target \in {"account", "open", "order", "orders"}
         /\ r.order \in 0 .. MaxOrders /\ r.quantity \in Nat
         /\ Rest!Body(r) \in Nat /\ Rest!Body(r) <= r.quantity
         /\ r.quantity < Rest!Body(r) + 10
         /\ r.method = "POST" => r.target = "orders"
<1>1. MaxOrders \in Nat /\ Quantities \subseteq Nat
  BY RestAssumptions DEF Rest!QuantitiesAssumption, Rest!BoundsAssumption
<1>2. /\ r.method \in {"GET", "POST", "DELETE"}
      /\ r.target \in {"account", "open", "order", "orders"}
      /\ r.order \in 0 .. MaxOrders /\ r.quantity \in Nat
      /\ r.method = "POST" => r.target = "orders"
  <2>1. CASE r \in [method : {"GET"}, target : {"account", "open"}, order : {0},
                    quantity : {0}]
    BY <1>1, <2>1
  <2>2. CASE r \in [method : {"GET", "DELETE"}, target : {"order"}, order : Rest!OrderIds,
                    quantity : {0}]
    <3>1. Rest!OrderIds \subseteq 0 .. MaxOrders /\ 0 \in Nat
      BY <1>1 DEF Rest!OrderIds
    <3>2. /\ r.method \in {"GET", "DELETE"} /\ r.target = "order"
          /\ r.order \in Rest!OrderIds /\ r.quantity = 0
      BY <2>2
    <3>3. QED
      BY <3>1, <3>2
  <2>3. CASE r \in [method : {"POST"}, target : {"orders"}, order : {0}, quantity : Quantities]
    <3>1. r.method = "POST" /\ r.target = "orders" /\ r.order = 0 /\ r.quantity \in Quantities
      BY <2>3
    <3>2. 0 \in 0 .. MaxOrders
      BY <1>1
    <3>3. r.quantity \in Nat
      BY <1>1, <3>1
    <3>4. QED
      BY <3>1, <3>2, <3>3
  <2>4. QED
    BY <2>1, <2>2, <2>3 DEF Rest!Requests
<1>3. /\ Rest!Body(r) \in Nat /\ Rest!Body(r) <= r.quantity
      /\ r.quantity < Rest!Body(r) + 10
  BY <1>2, WholeSharesBounds DEF Rest!Body
<1>4. QED
  BY <1>2, <1>3

LEMMA SilenceType ==
  Rest!Silence \in Answer /\ Rest!Silence.order = 0 /\ Rest!Silence.open = {}
  BY RestAssumptions DEF Rest!BoundsAssumption, Rest!Silence, Answer

\* The server forgets no order and changes no quantity; a new order has the
\* quantity sent.
LEMMA OutcomeFacts ==
  ASSUME RestTypes, NEW o \in Rest!Outcomes
  PROVE  /\ o.server \in [Rest!OrderIds -> OrderState] /\ o.reply \in Answer
         /\ \A id \in Rest!OrderIds :
              Known(id) => /\ o.server[id].status # "unknown"
                           /\ o.server[id].quantity = server[id].quantity
         /\ \A id \in o.reply.open : Known(id)
         /\ Rest!Sent.method = "POST" /\ o.reply.order # 0 =>
              /\ o.server[o.reply.order].status # "unknown"
              /\ o.server[o.reply.order].quantity = Rest!Sent.quantity
              /\ Rest!Sent.quantity > 0
<1>1. /\ handle.quantity \in Nat /\ handle.order \in 0 .. MaxOrders
      /\ Rest!Sent.quantity = handle.quantity
      /\ Rest!OpenOrders \subseteq Rest!OrderIds
      /\ \A id \in Rest!OpenOrders : Known(id) /\ server[id].status = "new"
      /\ server \in [Rest!OrderIds -> OrderState]
  BY DEF RestTypes, Handle, Rest!Sent, Rest!OpenOrders, Known
<1>2. CASE o = [server |-> server, reply |-> Rest!Silence]
  <2>1. o.server = server /\ o.reply = Rest!Silence
    BY <1>2
  <2>2. o.server \in [Rest!OrderIds -> OrderState] /\ o.reply \in Answer
    BY <1>1, <2>1, SilenceType
  <2>3. \A id \in Rest!OrderIds :
              Known(id) => /\ o.server[id].status # "unknown"
                           /\ o.server[id].quantity = server[id].quantity
    BY <2>1 DEF Known
  <2>4. \A id \in o.reply.open : Known(id)
    BY <2>1, SilenceType
  <2>5. o.reply.order = 0
    BY <2>1, SilenceType
  <2>6. QED
    BY <2>2, <2>3, <2>4, <2>5
<1>3. CASE /\ Rest!Sent.method = "GET"
           /\ o = [server |-> server,
                   reply |-> [order |-> handle.order,
                              open |-> IF handle.target = "open" THEN Rest!OpenOrders ELSE {}]]
  <2>1. /\ o.server = server
        /\ o.reply = [order |-> handle.order,
                      open |-> IF handle.target = "open" THEN Rest!OpenOrders ELSE {}]
    BY <1>3
  <2>2. o.server \in [Rest!OrderIds -> OrderState] /\ o.reply \in Answer
    BY <1>1, <2>1 DEF Answer
  <2>3. \A id \in Rest!OrderIds :
          Known(id) => /\ o.server[id].status # "unknown"
                       /\ o.server[id].quantity = server[id].quantity
    BY <2>1 DEF Known
  <2>4. \A id \in o.reply.open : Known(id)
    BY <1>1, <2>1
  <2>5. Rest!Sent.method # "POST"
    BY <1>3
  <2>6. QED
    BY <2>2, <2>3, <2>4, <2>5
<1>4. CASE \E id \in Rest!NextIds :
             /\ Rest!Sent.quantity > 0
             /\ o = [server |-> [server EXCEPT ![id] = [status |-> "new",
                                                      quantity |-> Rest!Sent.quantity]],
                     reply |-> [order |-> id, open |-> {}]]
  <2>1. PICK id \in Rest!NextIds :
          /\ Rest!Sent.quantity > 0
          /\ o = [server |-> [server EXCEPT ![id] = [status |-> "new",
                                                   quantity |-> Rest!Sent.quantity]],
                  reply |-> [order |-> id, open |-> {}]]
    BY <1>4
  <2>2. id \in Rest!OrderIds /\ ~Known(id)
    BY DEF Rest!NextIds, Known
  <2>3. id \in 0 .. MaxOrders
    BY <2>2 DEF Rest!OrderIds
  <2>4. [status |-> "new", quantity |-> Rest!Sent.quantity] \in OrderState
    BY <1>1 DEF OrderState, Rest!Statuses
  <2>5. o.server \in [Rest!OrderIds -> OrderState] /\ o.reply \in Answer
    BY <1>1, <2>1, <2>2, <2>3, <2>4 DEF Answer
  <2>6. \A j \in Rest!OrderIds : j # id => o.server[j] = server[j]
    BY <1>1, <2>1
  <2>7. o.server[id] = [status |-> "new", quantity |-> Rest!Sent.quantity]
    BY <1>1, <2>1, <2>2
  <2>8. o.reply.order = id /\ o.reply.open = {}
    BY <2>1
  <2>9. \A j \in Rest!OrderIds :
          Known(j) => /\ o.server[j].status # "unknown"
                      /\ o.server[j].quantity = server[j].quantity
    BY <2>2, <2>6 DEF Known
  <2>10. \A j \in o.reply.open : Known(j)
    BY <2>8
  <2>11. /\ o.server[o.reply.order].status # "unknown"
         /\ o.server[o.reply.order].quantity = Rest!Sent.quantity
    BY <2>7, <2>8
  <2>12. QED
    BY <2>1, <2>5, <2>9, <2>10, <2>11
<1>5. CASE \E id \in Rest!OpenOrders :
             /\ Rest!Sent.method = "DELETE"
             /\ o = [server |-> [server EXCEPT ![id].status = "canceled"],
                     reply |-> Rest!Silence]
  <2>1. PICK id \in Rest!OpenOrders :
          /\ Rest!Sent.method = "DELETE"
          /\ o = [server |-> [server EXCEPT ![id].status = "canceled"],
                  reply |-> Rest!Silence]
    BY <1>5
  <2>2. o.server \in [Rest!OrderIds -> OrderState]
    BY <1>1, <2>1 DEF OrderState, Rest!Statuses
  <2>3. \A j \in Rest!OrderIds :
          /\ o.server[j].quantity = server[j].quantity
          /\ o.server[j].status \in {server[j].status, "canceled"}
    BY <1>1, <2>1 DEF OrderState
  <2>4. \A j \in Rest!OrderIds : Known(j) => o.server[j].status # "unknown"
    BY <2>3 DEF Known
  <2>5. o.reply \in Answer /\ o.reply.order = 0 /\ \A j \in o.reply.open : Known(j)
    BY <2>1, SilenceType
  <2>6. QED
    BY <2>2, <2>3, <2>4, <2>5
<1>6. QED
  BY <1>2, <1>3, <1>4, <1>5 DEF Rest!Outcomes

----------------------------------------------------------------------------
\* Every step of a thread, and the server's own.
LEMMA RestWho ==
  ASSUME [Rest!Next]_restVars
  PROVE  \/ \E t \in Threads : \/ Rest!Begin(t) \/ Rest!SetTarget(t) \/ Rest!SetMethod(t)
                               \/ Rest!Perform(t) \/ Rest!Return(t)
         \/ Rest!Fill \/ UNCHANGED restVars
  BY DEF Rest!Next

LEMMA RestTypesInit == Rest!Init => RestTypes
<1> SUFFICES ASSUME Rest!Init PROVE RestTypes
  OBVIOUS
<1>1. MaxOrders \in Nat
  BY RestAssumptions DEF Rest!BoundsAssumption
<1>2. (CHOOSE r \in Rest!Requests : r.target = "account") \in Rest!Requests
  <2>1. [method |-> "GET", target |-> "account", order |-> 0, quantity |-> 0] \in Rest!Requests
    BY DEF Rest!Requests
  <2>2. \E r \in Rest!Requests : r.target = "account"
    BY <2>1
  <2>3. QED
    BY <2>2
<1>3. call \in [Threads -> Rest!Requests]
  BY <1>2 DEF Rest!Init
<1>4. answer \in [Threads -> Answer]
  BY SilenceType DEF Rest!Init
<1>5. handle \in Handle
  <2>1. handle = [target |-> "none", order |-> 0, method |-> "GET", custom |-> "none",
                  quantity |-> 0, reply_to |-> Nobody]
    BY DEF Rest!Init, Nobody
  <2>2. 0 \in 0 .. MaxOrders
    BY <1>1
  <2>3. QED
    BY <2>1, <2>2 DEF Handle
<1>6. server \in [Rest!OrderIds -> OrderState]
  BY DEF Rest!Init, OrderState
<1>7. QED
  BY <1>3, <1>4, <1>5, <1>6 DEF Rest!Init, RestTypes

LEMMA HandleChanges ==
  ASSUME RestTypes, NEW t \in Threads
  PROVE  /\ [handle EXCEPT !.target = call[t].target, !.order = call[t].order,
                             !.reply_to = t] \in Handle
         /\ Rest!WithMethod(call[t]) \in Handle
<1>1. call[t] \in Rest!Requests /\ handle \in Handle
  BY DEF RestTypes
<1>2. /\ call[t].target \in {"none", "account", "open", "order", "orders"}
      /\ call[t].order \in 0 .. MaxOrders /\ Rest!Body(call[t]) \in Nat
  BY <1>1, RequestFacts
<1>3. [handle EXCEPT !.target = call[t].target, !.order = call[t].order, !.reply_to = t]
        \in Handle
  BY <1>1, <1>2 DEF Handle
<1>4. /\ [handle EXCEPT !.method = "POST", !.quantity = Rest!Body(call[t])] \in Handle
      /\ [handle EXCEPT !.custom = "DELETE"] \in Handle
      /\ [handle EXCEPT !.method = "GET"] \in Handle
  BY <1>1, <1>2 DEF Handle
<1>5. Rest!WithMethod(call[t])
        \in {[handle EXCEPT !.method = "POST", !.quantity = Rest!Body(call[t])],
             [handle EXCEPT !.custom = "DELETE"], [handle EXCEPT !.method = "GET"]}
  BY DEF Rest!WithMethod
<1>6. QED
  BY <1>3, <1>4, <1>5

LEMMA RestTypesStep ==
  ASSUME RestTypes, [Rest!Next]_restVars
  PROVE  RestTypes'
<1>1. ASSUME NEW t \in Threads, Rest!Begin(t) PROVE RestTypes'
  <2>1. call' \in [Threads -> Rest!Requests]
    BY <1>1 DEF Rest!Begin, RestTypes
  <2>2. call_pc' = [call_pc EXCEPT ![t] = "target"]
    BY <1>1 DEF Rest!Begin
  <2>3. answer' \in [Threads -> Answer]
    BY <1>1, SilenceType DEF Rest!Begin, RestTypes
  <2>4. UNCHANGED <<handle, order_cache, server>>
    BY <1>1 DEF Rest!Begin
  <2>5. QED
    BY <2>1, <2>2, <2>3, <2>4 DEF RestTypes
<1>2. ASSUME NEW t \in Threads, Rest!SetTarget(t) \/ Rest!SetMethod(t) PROVE RestTypes'
  <2>1. handle' \in Handle
    BY <1>2, HandleChanges DEF Rest!SetTarget, Rest!SetMethod
  <2>2. /\ UNCHANGED <<call, answer, order_cache, server>>
        /\ \/ call_pc' = [call_pc EXCEPT ![t] = "method"]
           \/ call_pc' = [call_pc EXCEPT ![t] = "perform"]
    BY <1>2 DEF Rest!SetTarget, Rest!SetMethod
  <2>3. call_pc' \in [Threads -> {"idle", "target", "method", "perform", "done"}]
    BY <2>2 DEF RestTypes
  <2>4. QED
    BY <2>1, <2>2, <2>3 DEF RestTypes
<1>3. ASSUME NEW t \in Threads, Rest!Perform(t) PROVE RestTypes'
  <2>1. PICK o \in Rest!Outcomes : /\ server' = o.server
                                   /\ \/ answer' = answer
                                      \/ answer' = [answer EXCEPT ![handle.reply_to] = o.reply]
    BY <1>3 DEF Rest!Perform
  <2>2. server' \in [Rest!OrderIds -> OrderState] /\ o.reply \in Answer
    BY <2>1, OutcomeFacts
  <2>3. answer' \in [Threads -> Answer]
    BY <2>1, <2>2 DEF RestTypes
  <2>4. call_pc' = [call_pc EXCEPT ![t] = "done"] /\ UNCHANGED <<call, handle, order_cache>>
    BY <1>3 DEF Rest!Perform
  <2>5. QED
    BY <2>2, <2>3, <2>4 DEF RestTypes
<1>4. ASSUME NEW t \in Threads, Rest!Return(t) PROVE RestTypes'
  <2>1. order_cache' \in [Rest!OrderIds -> Rest!Statuses \cup {"unknown"}]
    BY <1>4 DEF Rest!Return, RestTypes, Rest!Statuses
  <2>2. call_pc' = [call_pc EXCEPT ![t] = "idle"] /\ UNCHANGED <<call, answer, handle, server>>
    BY <1>4 DEF Rest!Return
  <2>3. QED
    BY <2>1, <2>2 DEF RestTypes
<1>5. CASE Rest!Fill
  <2>1. server' \in [Rest!OrderIds -> OrderState]
    BY <1>5 DEF Rest!Fill, Rest!OpenOrders, RestTypes, OrderState, Rest!Statuses
  <2>2. QED
    BY <1>5, <2>1 DEF Rest!Fill, RestTypes
<1>6. CASE UNCHANGED restVars
  BY <1>6 DEF restVars, RestTypes
<1>7. QED
  BY <1>1, <1>2, <1>3, <1>4, <1>5, <1>6, RestWho

LEMMA HandleStep ==
  ASSUME RestTypes, HandleInv, [Rest!Next]_restVars
  PROVE  HandleInv'
<1>1. ASSUME NEW t \in Threads, Rest!Begin(t) PROVE HandleInv'
  <2>1. /\ call_pc' = [call_pc EXCEPT ![t] = "target"]
        /\ \A u \in Threads : u # t => call'[u] = call[u]
        /\ UNCHANGED <<handle, customised, mangled, crossed>>
    BY <1>1 DEF Rest!Begin, RestTypes
  <2>2. \A u \in Threads : u # t => call_pc'[u] = call_pc[u]
    BY <2>1 DEF RestTypes
  <2>3. call_pc'[t] = "target"
    BY <2>1 DEF RestTypes
  <2>4. ~overlapped' => ~overlapped /\ \A u \in Threads : ~Rest!InRequest(u)
    BY <1>1 DEF Rest!Begin
  <2>5. ~overlapped' =>
          /\ \A u, v \in Threads : Rest!InRequest(u)' /\ Rest!InRequest(v)' => u = v
          /\ \A u \in Threads : call_pc'[u] \notin {"method", "perform"}
    BY <2>2, <2>3, <2>4 DEF Rest!InRequest
  <2>6. CallsUndisturbed'
    BY <2>1, <2>4 DEF HandleInv, CallsUndisturbed, Rest!CallsUndisturbed
  <2>7. ~customised' => handle'.custom = "none"
    BY <2>1 DEF HandleInv
  <2>8. QED
    BY <2>5, <2>6, <2>7 DEF HandleInv
<1>2. ASSUME NEW t \in Threads, Rest!SetTarget(t) PROVE HandleInv'
  <2>1. /\ call_pc[t] = "target" /\ call_pc' = [call_pc EXCEPT ![t] = "method"]
        /\ UNCHANGED <<call, overlapped, customised, mangled, crossed>>
        /\ handle' = [handle EXCEPT !.target = call[t].target, !.order = call[t].order,
                                      !.reply_to = t]
    BY <1>2 DEF Rest!SetTarget
  <2>2. /\ \A u \in Threads : u # t => call_pc'[u] = call_pc[u]
        /\ call_pc'[t] = "method"
    BY <2>1 DEF RestTypes
  <2>3. /\ handle'.target = call[t].target /\ handle'.order = call[t].order
        /\ handle'.reply_to = t /\ handle'.custom = handle.custom
    BY <2>1 DEF RestTypes, Handle
  <2>4. \A u \in Threads : Rest!InRequest(u)' => Rest!InRequest(u)
    BY <2>1, <2>2 DEF Rest!InRequest
  <2>5. ~overlapped' =>
          /\ \A u, v \in Threads : Rest!InRequest(u)' /\ Rest!InRequest(v)' => u = v
          /\ \A u \in Threads : Rest!InRequest(u)' => u = t
    BY <2>1, <2>4 DEF HandleInv, Rest!InRequest
  <2>6. ~overlapped' =>
          \A u \in Threads : call_pc'[u] \in {"method", "perform"} =>
            /\ handle'.target = call'[u].target /\ handle'.order = call'[u].order
            /\ handle'.reply_to = u
    BY <2>1, <2>3, <2>5 DEF Rest!InRequest
  <2>7. ~overlapped' => \A u \in Threads : call_pc'[u] # "perform"
    BY <2>2, <2>5 DEF Rest!InRequest
  <2>8. ~customised' => handle'.custom = "none"
    BY <2>1, <2>3 DEF HandleInv
  <2>9. CallsUndisturbed'
    BY <2>1 DEF HandleInv, CallsUndisturbed, Rest!CallsUndisturbed
  <2>10. QED
    BY <2>5, <2>6, <2>7, <2>8, <2>9 DEF HandleInv
<1>3. ASSUME NEW t \in Threads, Rest!SetMethod(t) PROVE HandleInv'
  <2>1. /\ call_pc[t] = "method" /\ call_pc' = [call_pc EXCEPT ![t] = "perform"]
        /\ UNCHANGED <<call, overlapped, mangled, crossed>>
        /\ customised' = (customised \/ call[t].method = "DELETE")
        /\ handle' = Rest!WithMethod(call[t])
    BY <1>3 DEF Rest!SetMethod
  <2>2. /\ \A u \in Threads : u # t => call_pc'[u] = call_pc[u]
        /\ call_pc'[t] = "perform"
    BY <2>1 DEF RestTypes
  <2>3. /\ handle'.target = handle.target /\ handle'.order = handle.order
        /\ handle'.reply_to = handle.reply_to
    BY <2>1 DEF RestTypes, Handle, Rest!WithMethod
  <2>4. call[t].method # "DELETE" =>
          /\ handle'.custom = handle.custom
          /\ handle'.method = call[t].method
          /\ call[t].method = "POST" => handle'.quantity = Rest!Body(call[t])
    <3>1. call[t].method \in {"GET", "POST", "DELETE"}
      BY RequestFacts DEF RestTypes
    <3>2. QED
      BY <2>1, <3>1 DEF RestTypes, Handle, Rest!WithMethod
  <2>5. \A u \in Threads : Rest!InRequest(u)' => Rest!InRequest(u)
    BY <2>1, <2>2 DEF Rest!InRequest
  <2>6. ~overlapped' =>
          /\ \A u, v \in Threads : Rest!InRequest(u)' /\ Rest!InRequest(v)' => u = v
          /\ \A u \in Threads : Rest!InRequest(u)' => u = t
    BY <2>1, <2>5 DEF HandleInv, Rest!InRequest
  <2>7. ~overlapped' =>
          \A u \in Threads : call_pc'[u] \in {"method", "perform"} =>
            /\ handle'.target = call'[u].target /\ handle'.order = call'[u].order
            /\ handle'.reply_to = u
    <3>1. ~overlapped => /\ handle.target = call[t].target /\ handle.order = call[t].order
                         /\ handle.reply_to = t
      BY <2>1 DEF HandleInv
    <3>2. QED
      BY <2>1, <2>3, <2>6, <3>1 DEF Rest!InRequest
  <2>8. ~customised' => ~customised /\ call[t].method # "DELETE"
    BY <2>1
  <2>9. ~customised' => handle'.custom = "none"
    BY <2>4, <2>8 DEF HandleInv
  <2>10. ~overlapped' /\ ~customised' =>
           \A u \in Threads : call_pc'[u] = "perform" =>
             /\ handle'.method = call'[u].method
             /\ call'[u].method = "POST" => handle'.quantity = Rest!Body(call'[u])
    BY <2>1, <2>4, <2>6, <2>8 DEF Rest!InRequest
  <2>11. CallsUndisturbed'
    BY <2>1 DEF HandleInv, CallsUndisturbed, Rest!CallsUndisturbed
  <2>12. QED
    BY <2>6, <2>7, <2>9, <2>10, <2>11 DEF HandleInv
<1>4. ASSUME NEW t \in Threads, Rest!Perform(t) PROVE HandleInv'
  <2>1. /\ call_pc[t] = "perform" /\ call_pc' = [call_pc EXCEPT ![t] = "done"]
        /\ UNCHANGED <<call, handle, overlapped, customised>>
        /\ mangled' = (mangled \/ ~Rest!SameRequest(call[t]))
        /\ crossed' = (crossed \/ handle.reply_to # t)
    BY <1>4 DEF Rest!Perform
  <2>2. \A u \in Threads : /\ u # t => call_pc'[u] = call_pc[u]
                           /\ u = t => call_pc'[u] = "done"
    BY <2>1 DEF RestTypes
  <2>3. ~overlapped => handle.reply_to = t
    BY <2>1 DEF HandleInv
  <2>4. ~overlapped /\ ~customised => Rest!SameRequest(call[t])
    BY <2>1 DEF HandleInv, Rest!SameRequest, Rest!Sent
  <2>5. CallsUndisturbed'
    BY <2>1, <2>3, <2>4 DEF HandleInv, CallsUndisturbed, Rest!CallsUndisturbed
  <2>6. \A u \in Threads : /\ Rest!InRequest(u)' => Rest!InRequest(u) /\ u # t
                           /\ call_pc'[u] = "perform" => call_pc[u] = "perform"
                           /\ call_pc'[u] = "method" => call_pc[u] = "method"
    BY <2>2 DEF Rest!InRequest
  <2>7. QED
    BY <2>1, <2>5, <2>6 DEF HandleInv
<1>5. ASSUME NEW t \in Threads, Rest!Return(t) PROVE HandleInv'
  <2>1. /\ call_pc' = [call_pc EXCEPT ![t] = "idle"]
        /\ UNCHANGED <<call, handle, overlapped, customised, mangled, crossed>>
    BY <1>5 DEF Rest!Return
  <2>2. \A u \in Threads : /\ u # t => call_pc'[u] = call_pc[u]
                           /\ u = t => call_pc'[u] = "idle"
    BY <2>1 DEF RestTypes
  <2>3. \A u \in Threads : /\ Rest!InRequest(u)' => Rest!InRequest(u)
                           /\ call_pc'[u] = "perform" => call_pc[u] = "perform"
                           /\ call_pc'[u] = "method" => call_pc[u] = "method"
    BY <2>2 DEF Rest!InRequest
  <2>4. CallsUndisturbed'
    BY <2>1 DEF HandleInv, CallsUndisturbed, Rest!CallsUndisturbed
  <2>5. QED
    BY <2>1, <2>3, <2>4 DEF HandleInv
<1>6. CASE UNCHANGED <<call, call_pc, handle, overlapped, customised, mangled, crossed>>
  BY <1>6 DEF HandleInv, CallsUndisturbed, Rest!CallsUndisturbed, Rest!InRequest
<1>7. CASE Rest!Fill
  BY <1>6, <1>7 DEF Rest!Fill
<1>8. CASE UNCHANGED restVars
  BY <1>6, <1>8 DEF restVars
<1>9. QED
  BY <1>1, <1>2, <1>3, <1>4, <1>5, <1>7, <1>8, RestWho

\* The server keeps the orders it knows, and their quantities.
ServerKeeps ==
  \A id \in Rest!OrderIds :
    Known(id) => Known(id)' /\ server'[id].quantity = server[id].quantity

\* What a thread was told stays true of a server that keeps its orders.
LEMMA StaysTold ==
  ASSUME RestTypes, RestTypes', ServerKeeps, ~crossed' => ~crossed, ~mangled' => ~mangled,
         NEW t \in Threads, Told(t), UNCHANGED call[t], UNCHANGED answer[t],
         Rest!InRequest(t)' => Rest!InRequest(t), call_pc'[t] = "done" => call_pc[t] = "done"
  PROVE  Told(t)'
<1>1. answer[t] \in Answer
  BY DEF RestTypes
<1>2. answer[t].order # 0 => answer[t].order \in Rest!OrderIds
  <2>1. MaxOrders \in Nat /\ answer[t].order \in 0 .. MaxOrders
    BY <1>1, RestAssumptions DEF Rest!BoundsAssumption, Answer
  <2>2. QED
    BY <2>1 DEF Rest!OrderIds
<1>3. answer[t].open \subseteq Rest!OrderIds
  BY <1>1 DEF Answer
<1>4. ~crossed' /\ Rest!InRequest(t)' => answer'[t] = Rest!Silence
  BY DEF Told
<1>5. \A id \in answer'[t].open : Known(id)'
  BY <1>3 DEF Told, ServerKeeps
<1>6. ASSUME ~mangled', ~crossed', call_pc'[t] = "done", call'[t].method = "POST",
             answer'[t].order # 0
      PROVE  /\ server'[answer'[t].order].status # "unknown"
             /\ server'[answer'[t].order].quantity = Rest!Body(call'[t])
             /\ Rest!Body(call'[t]) > 0
  <2>1. /\ Known(answer[t].order) /\ server[answer[t].order].quantity = Rest!Body(call[t])
        /\ Rest!Body(call[t]) > 0
    BY <1>6 DEF Told
  <2>2. answer[t].order \in Rest!OrderIds
    BY <1>2, <1>6
  <2>3. Known(answer[t].order)' /\ UNCHANGED server[answer[t].order].quantity
    BY <2>1, <2>2 DEF ServerKeeps, Known
  <2>4. QED
    BY <2>1, <2>3 DEF Known
<1>7. QED
  BY <1>4, <1>5, <1>6 DEF Told, Known

LEMMA AnswerStep ==
  ASSUME RestTypes, RestTypes', AnswerInv, [Rest!Next]_restVars
  PROVE  AnswerInv'
<1>1. ASSUME NEW t \in Threads, Rest!Begin(t) PROVE AnswerInv'
  <2>1. /\ call_pc' = [call_pc EXCEPT ![t] = "target"]
        /\ answer' = [answer EXCEPT ![t] = Rest!Silence]
        /\ \A u \in Threads : u # t => call'[u] = call[u]
        /\ UNCHANGED <<order_cache, server, mangled, crossed>>
    BY <1>1 DEF Rest!Begin, RestTypes
  <2>2. /\ \A u \in Threads : u # t => call_pc'[u] = call_pc[u] /\ answer'[u] = answer[u]
        /\ call_pc'[t] = "target" /\ answer'[t] = Rest!Silence
    BY <2>1 DEF RestTypes
  <2>3. ServerKeeps
    BY <2>1 DEF ServerKeeps, Known
  <2>4. \A u \in Threads : u # t => Told(u)'
    BY <2>1, <2>2, <2>3, StaysTold DEF AnswerInv, Rest!InRequest
  <2>5. Told(t)'
    BY <2>2, SilenceType DEF Told
  <2>6. QED
    BY <2>1, <2>4, <2>5 DEF AnswerInv, Known
<1>2. ASSUME NEW t \in Threads, Rest!SetTarget(t) \/ Rest!SetMethod(t) PROVE AnswerInv'
  <2>1. /\ call_pc[t] \in {"target", "method"}
        /\ \/ call_pc' = [call_pc EXCEPT ![t] = "method"]
           \/ call_pc' = [call_pc EXCEPT ![t] = "perform"]
        /\ UNCHANGED <<call, answer, order_cache, server, mangled, crossed>>
    BY <1>2 DEF Rest!SetTarget, Rest!SetMethod
  <2>2. \A u \in Threads : /\ Rest!InRequest(u)' => Rest!InRequest(u)
                           /\ call_pc'[u] = "done" => call_pc[u] = "done"
    BY <2>1 DEF RestTypes, Rest!InRequest
  <2>3. ServerKeeps
    BY <2>1 DEF ServerKeeps, Known
  <2>4. \A u \in Threads : Told(u)'
    BY <2>1, <2>2, <2>3, StaysTold DEF AnswerInv
  <2>5. QED
    BY <2>1, <2>4 DEF AnswerInv, Known
<1>3. ASSUME NEW t \in Threads, Rest!Perform(t) PROVE AnswerInv'
  <2>1. PICK o \in Rest!Outcomes : /\ server' = o.server
                                   /\ \/ answer' = answer
                                      \/ answer' = [answer EXCEPT ![handle.reply_to] = o.reply]
    BY <1>3 DEF Rest!Perform
  <2>2. /\ call_pc[t] = "perform" /\ call_pc' = [call_pc EXCEPT ![t] = "done"]
        /\ UNCHANGED <<call, order_cache>>
        /\ mangled' = (mangled \/ ~Rest!SameRequest(call[t]))
        /\ crossed' = (crossed \/ handle.reply_to # t)
    BY <1>3 DEF Rest!Perform
  <2>3. \A u \in Threads : /\ u # t => call_pc'[u] = call_pc[u]
                           /\ u = t => call_pc'[u] = "done"
    BY <2>2 DEF RestTypes
  <2>4. ServerKeeps
    BY <2>1, OutcomeFacts DEF ServerKeeps, Known
  <2>5. \A id \in o.reply.open : Known(id)'
    BY <2>1, <2>4, OutcomeFacts DEF ServerKeeps, Answer
  <2>6. ASSUME NEW u \in Threads PROVE Told(u)'
    <3>1. CASE u # t /\ UNCHANGED answer[u]
      BY <2>2, <2>3, <2>4, <3>1, StaysTold DEF AnswerInv, Rest!InRequest
    <3>2. CASE u # t /\ answer'[u] # answer[u]
      <4>1. handle.reply_to = u /\ answer'[u] = o.reply
        BY <2>1, <3>2 DEF RestTypes
      <4>2. crossed'
        BY <2>2, <3>2, <4>1
      <4>3. QED
        BY <2>5, <4>1, <4>2 DEF Told
    <3>3. CASE u = t
      <4>1. answer'[t] = answer[t] \/ answer'[t] = o.reply
        BY <2>1 DEF RestTypes
      <4>2. \A id \in answer'[t].open : Known(id)'
        <5>1. \A id \in answer[t].open : id \in Rest!OrderIds /\ Known(id)
          BY DEF RestTypes, Answer, AnswerInv, Told
        <5>2. QED
          BY <2>4, <2>5, <4>1, <5>1 DEF ServerKeeps
      <4>3. ~Rest!InRequest(t)'
        BY <2>3 DEF Rest!InRequest
      <4>4. ASSUME ~mangled', ~crossed', call'[t].method = "POST", answer'[t].order # 0
            PROVE  /\ server'[answer'[t].order].status # "unknown"
                   /\ server'[answer'[t].order].quantity = Rest!Body(call'[t])
                   /\ Rest!Body(call'[t]) > 0
        <5>1. ~crossed /\ Rest!SameRequest(call[t])
          BY <2>2, <4>4
        <5>2. answer[t] = Rest!Silence
          BY <2>2, <5>1 DEF AnswerInv, Told, Rest!InRequest
        <5>3. answer'[t] = o.reply /\ o.reply.order # 0
          BY <4>1, <4>4, <5>2, SilenceType
        <5>4. Rest!Sent.method = "POST" /\ Rest!Sent.quantity = Rest!Body(call[t])
          BY <2>2, <4>4, <5>1 DEF Rest!SameRequest
        <5>5. QED
          BY <2>1, <2>2, <5>3, <5>4, OutcomeFacts
      <4>5. QED
        BY <3>3, <4>2, <4>3, <4>4 DEF Told, Known
    <3>4. QED
      BY <3>1, <3>2, <3>3
  <2>7. QED
    BY <2>2, <2>4, <2>6 DEF AnswerInv, ServerKeeps
<1>4. ASSUME NEW t \in Threads, Rest!Return(t) PROVE AnswerInv'
  <2>1. /\ call_pc' = [call_pc EXCEPT ![t] = "idle"]
        /\ UNCHANGED <<call, answer, server, mangled, crossed>>
    BY <1>4 DEF Rest!Return
  <2>2. \A u \in Threads : /\ Rest!InRequest(u)' => Rest!InRequest(u)
                           /\ call_pc'[u] = "done" => call_pc[u] = "done"
    BY <2>1 DEF RestTypes, Rest!InRequest
  <2>3. ServerKeeps
    BY <2>1 DEF ServerKeeps, Known
  <2>4. \A u \in Threads : Told(u)'
    BY <2>1, <2>2, <2>3, StaysTold DEF AnswerInv
  <2>5. \A id \in Rest!OrderIds :
          \/ order_cache'[id] = order_cache[id]
          \/ order_cache'[id] = "new" /\ id \in answer[t].open
    BY <1>4 DEF Rest!Return, RestTypes
  <2>6. \A id \in Rest!OrderIds :
          order_cache'[id] # "unknown" => order_cache'[id] = "new" /\ Known(id)'
    BY <2>1, <2>5 DEF AnswerInv, Told, Known
  <2>7. QED
    BY <2>4, <2>6 DEF AnswerInv
<1>5. CASE Rest!Fill
  <2>1. PICK id \in Rest!OpenOrders : server' = [server EXCEPT ![id].status = "filled"]
    BY <1>5 DEF Rest!Fill
  <2>2. \A j \in Rest!OrderIds :
          /\ server'[j].quantity = server[j].quantity
          /\ server'[j].status \in {server[j].status, "filled"}
    BY <2>1 DEF Rest!OpenOrders, RestTypes, OrderState
  <2>3. ServerKeeps
    BY <2>2 DEF ServerKeeps, Known
  <2>4. UNCHANGED <<call, call_pc, answer, order_cache, mangled, crossed>>
    BY <1>5 DEF Rest!Fill
  <2>5. \A u \in Threads : Told(u)'
    BY <2>3, <2>4, StaysTold DEF AnswerInv, Rest!InRequest
  <2>6. QED
    BY <2>3, <2>4, <2>5 DEF AnswerInv, ServerKeeps
<1>6. CASE UNCHANGED restVars
  BY <1>6 DEF restVars, AnswerInv, Told, Known, Rest!InRequest
<1>7. QED
  BY <1>1, <1>2, <1>3, <1>4, <1>5, <1>6, RestWho

LEMMA RestInit == Rest!Init => HandleInv /\ AnswerInv
<1> SUFFICES ASSUME Rest!Init PROVE HandleInv /\ AnswerInv
  OBVIOUS
<1>1. \A t \in Threads : call_pc[t] = "idle" /\ answer[t] = Rest!Silence
  BY DEF Rest!Init
<1>2. HandleInv
  BY <1>1 DEF Rest!Init, HandleInv, CallsUndisturbed, Rest!CallsUndisturbed, Rest!InRequest
<1>3. AnswerInv
  BY <1>1, SilenceType DEF Rest!Init, AnswerInv, Told
<1>4. QED
  BY <1>2, <1>3

\* The invariants say what the properties say.
LEMMA AnswersTrue ==
  ASSUME RestTypes, AnswerInv
  PROVE  AnswersAreTrue
<1>1. \A t \in Threads : /\ Rest!Body(call[t]) <= call[t].quantity
                         /\ call[t].quantity < Rest!Body(call[t]) + 10
  BY RequestFacts DEF RestTypes
<1>2. Rest!PlacedOrderIsThere
  BY <1>1 DEF AnswerInv, Told, Rest!PlacedOrderIsThere
<1>3. Rest!CacheLagsBehind
  BY DEF AnswerInv, Known, Rest!CacheLagsBehind
<1>4. QED
  BY <1>2, <1>3 DEF AnswersAreTrue

LEMMA RestInvariance == Spec => [](RestTypes /\ HandleInv /\ AnswerInv)
<1>1. Init => RestTypes /\ HandleInv /\ AnswerInv
  BY RestTypesInit, RestInit DEF Init
<1>2. RestTypes /\ HandleInv /\ AnswerInv /\ [Next]_vars
        => (RestTypes /\ HandleInv /\ AnswerInv)'
  BY Sides, RestTypesStep, HandleStep, AnswerStep
<1>3. QED
  BY <1>1, <1>2, PTL DEF Spec

\* Calls that do not overlap, without a DELETE before them, arrive as asked
\* and are answered to whoever asked.
THEOREM CallsArrive == Spec => []CallsUndisturbed
<1>1. HandleInv => CallsUndisturbed
  BY DEF HandleInv
<1>2. QED
  BY <1>1, RestInvariance, PTL

\* An id returned by place_order is an order of the server, for the whole
\* shares asked; what the poll has cached the server knows.
THEOREM AnswersHold == Spec => []AnswersAreTrue
  BY RestInvariance, AnswersTrue, PTL

----------------------------------------------------------------------------
(***************************************************************************)
(* The streaming side: where the frames are.                               *)
(***************************************************************************)
\* The place of a half in the stream of bytes, and the place before the first
\* half still on the wire.
Place(half) == (2 * half[1]) + half[2]

Reached == (2 * sent_frames + 2) - Len(wire)

Handling == ws_pc \in {"handle", "callback"}

FrameTypes ==
  /\ chunk \in Seq(Stream!Half) /\ wire \in Seq(Stream!Half)
  /\ delivered \in Seq(1 .. MaxFrames) /\ sent_frames \in Nat

\* The wire goes on where the last chunk ended.
WireInv == \A k \in 1 .. Len(wire) : Place(wire[k]) = Reached + k

\* A chunk in the thread's hands is a piece of the stream, before the wire.
ChunkInv ==
  Handling =>
    /\ Len(chunk) >= 1
    /\ \A k \in 1 .. Len(chunk) : Place(chunk[k]) = Place(chunk[1]) + (k - 1)
    /\ Place(chunk[1]) + (Len(chunk) - 1) <= Reached

\* The callback runs for a chunk that starts with a whole frame.
CallbackInv == ws_pc = "callback" => chunk[1][2] = 1 /\ Len(chunk) >= 2

\* What was delivered is behind the chunk, and behind the wire.
DeliveredInv ==
  /\ \A i, j \in 1 .. Len(delivered) : i < j => delivered[i] < delivered[j]
  /\ \A i \in 1 .. Len(delivered) :
       /\ 2 * delivered[i] + 2 <= Reached
       /\ Handling => 2 * delivered[i] + 2 < Place(chunk[1])

FrameInv == FrameTypes /\ WireInv /\ ChunkInv /\ CallbackInv /\ DeliveredInv

LEMMA HalfFacts ==
  ASSUME NEW p \in Stream!Half
  PROVE  /\ p[1] \in 1 .. MaxFrames /\ p[2] \in {1, 2} /\ p = <<p[1], p[2]>>
         /\ p[1] \in Nat /\ p[2] \in Nat /\ Place(p) \in Nat
<1>1. p[1] \in 1 .. MaxFrames /\ p[2] \in {1, 2} /\ p = <<p[1], p[2]>>
  BY DEF Stream!Half
<1>2. p[1] \in Nat /\ p[2] \in Nat
  BY <1>1, StreamAssumptions DEF Stream!MaxFramesAssumption
<1>3. Place(p) \in Nat
  BY <1>2 DEF Place
<1>4. QED
  BY <1>1, <1>2, <1>3

LEMMA ReachedType ==
  ASSUME FrameTypes
  PROVE  Reached \in Int /\ Len(wire) \in Nat /\ Reached <= 2 * sent_frames + 2
<1>1. PICK n \in Nat : n = Len(wire)
  BY DEF FrameTypes
<1>2. sent_frames \in Nat
  BY DEF FrameTypes
<1>3. QED
  BY <1>1, <1>2 DEF Reached

LEMMA FrameInit == Stream!Init => FrameInv
<1> SUFFICES ASSUME Stream!Init PROVE FrameInv
  OBVIOUS
<1>1. wire = <<>> /\ chunk = <<>> /\ delivered = <<>> /\ sent_frames = 0 /\ ws_pc = "off"
  BY DEF Stream!Init
<1>2. QED
  BY <1>1 DEF FrameInv, FrameTypes, WireInv, ChunkInv, CallbackInv, DeliveredInv, Handling

\* A step that touches neither the stream nor what was received, and moves
\* the thread at most to where it has no chunk in hand.
LEMMA FramesStill ==
  ASSUME FrameInv, UNCHANGED <<wire, sent_frames, chunk, delivered>>,
         ws_pc' = ws_pc \/ ws_pc' \in {"off", "check", "recv", "done"}
  PROVE  FrameInv'
<1>1. UNCHANGED Reached
  BY DEF Reached
<1>2. (Handling' => Handling) /\ (ws_pc' = "callback" => ws_pc = "callback")
  BY DEF Handling
<1>3. FrameTypes' /\ WireInv' /\ CallbackInv'
  BY <1>1, <1>2 DEF FrameInv, FrameTypes, WireInv, CallbackInv, Place
<1>4. ChunkInv'
  BY <1>1, <1>2 DEF FrameInv, ChunkInv, Place
<1>5. DeliveredInv'
  BY <1>1, <1>2 DEF FrameInv, DeliveredInv, Place
<1>6. QED
  BY <1>3, <1>4, <1>5 DEF FrameInv

\* What is left of the wire after its first n halves.
LEMMA WireRest ==
  ASSUME FrameInv, NEW n \in 0 .. Len(wire), wire' = SubSeq(wire, n + 1, Len(wire)),
         UNCHANGED sent_frames
  PROVE  /\ wire' \in Seq(Stream!Half) /\ Reached' = Reached + n /\ WireInv'
<1>1. wire \in Seq(Stream!Half) /\ sent_frames \in Nat /\ Len(wire) \in Nat /\ n \in Nat
  BY DEF FrameInv, FrameTypes
<1>2. /\ wire' \in Seq(Stream!Half) /\ Len(wire') = Len(wire) - n
      /\ \A k \in 1 .. Len(wire) - n : wire'[k] = wire[n + k]
  BY <1>1
<1>3. Reached' = Reached + n
  <2>1. \A s, l, m \in Nat : (2 * s + 2) - (l - m) = ((2 * s + 2) - l) + m
    OBVIOUS
  <2>2. Reached' = (2 * sent_frames + 2) - (Len(wire) - n)
    BY <1>2 DEF Reached
  <2>3. QED
    BY <1>1, <2>1, <2>2 DEF Reached
<1>4. ASSUME NEW k \in 1 .. Len(wire') PROVE Place(wire[n + k]) = Reached' + k
  <2>1. n + k \in 1 .. Len(wire)
    BY <1>1, <1>2
  <2>2. Place(wire[n + k]) = Reached + (n + k)
    BY <2>1 DEF FrameInv, WireInv
  <2>3. Reached \in Int
    BY ReachedType DEF FrameInv
  <2>4. QED
    BY <1>1, <1>2, <1>3, <2>2, <2>3
<1>5. WireInv'
  BY <1>2, <1>4 DEF WireInv, Place
<1>6. QED
  BY <1>2, <1>3, <1>5

LEMMA FrameReceive ==
  ASSUME FrameInv, Stream!Receive
  PROVE  FrameInv'
<1>1. PICK n \in 1 .. Len(wire) :
        chunk' = SubSeq(wire, 1, n) /\ wire' = SubSeq(wire, n + 1, Len(wire))
  BY DEF Stream!Receive
<1>2. /\ ws_pc' = "handle" /\ UNCHANGED <<delivered, sent_frames>>
  BY DEF Stream!Receive
<1>3. wire \in Seq(Stream!Half) /\ Len(wire) \in Nat /\ n \in Nat /\ n \in 0 .. Len(wire)
  BY <1>1 DEF FrameInv, FrameTypes
<1>4. wire' \in Seq(Stream!Half) /\ Reached' = Reached + n /\ WireInv'
  BY <1>1, <1>2, <1>3, WireRest
<1>5. /\ chunk' \in Seq(Stream!Half) /\ Len(chunk') = n
      /\ \A k \in 1 .. n : chunk'[k] = wire[k]
  BY <1>1, <1>3
<1>6. Reached \in Int
  BY ReachedType DEF FrameInv
<1>7. \A k \in 1 .. n : Place(wire[k]) = Reached + k
  BY <1>1, <1>3 DEF FrameInv, WireInv
<1>8. ChunkInv'
  <2>1. 1 \in 1 .. n
    BY <1>1
  <2>2. Place(chunk[1])' = Reached + 1
    BY <1>5, <1>7, <2>1 DEF Place
  <2>3. ASSUME NEW k \in 1 .. n PROVE Place(wire[k]) = Place(chunk[1])' + (k - 1)
    <3>1. Place(wire[k]) = Reached + k
      BY <1>7
    <3>2. QED
      BY <1>3, <1>6, <2>2, <3>1
  <2>4. Place(chunk[1])' + (n - 1) <= Reached'
    BY <1>3, <1>4, <1>6, <2>2
  <2>5. QED
    BY <1>1, <1>5, <2>3, <2>4 DEF ChunkInv, Place
<1>9. DeliveredInv'
  <2>1. Place(chunk[1])' = Reached + 1
    BY <1>1, <1>5, <1>7 DEF Place
  <2>2. ASSUME NEW i \in 1 .. Len(delivered)
        PROVE  2 * delivered[i] + 2 <= Reached' /\ 2 * delivered[i] + 2 < Reached + 1
    <3>1. delivered[i] \in Nat
      BY StreamAssumptions DEF Stream!MaxFramesAssumption, FrameInv, FrameTypes
    <3>2. 2 * delivered[i] + 2 <= Reached
      BY DEF FrameInv, DeliveredInv
    <3>3. QED
      BY <1>3, <1>4, <1>6, <3>1, <3>2
  <2>3. QED
    BY <1>2, <2>1, <2>2 DEF FrameInv, DeliveredInv, Place
<1>10. CallbackInv'
  BY <1>2 DEF CallbackInv
<1>11. FrameTypes'
  BY <1>2, <1>4, <1>5 DEF FrameInv, FrameTypes
<1>12. QED
  BY <1>4, <1>8, <1>9, <1>10, <1>11 DEF FrameInv

LEMMA FrameHandle ==
  ASSUME FrameInv, Stream!Handle
  PROVE  FrameInv'
<1>1. /\ ws_pc = "handle" /\ UNCHANGED <<chunk, delivered, wire, sent_frames>>
      /\ ws_pc' \in {"callback", "check"}
      /\ ws_pc' = "callback" => chunk[1][2] = 1 /\ Len(chunk) >= 2
  BY DEF Stream!Handle, Stream!wireVars
<1>2. UNCHANGED Reached
  BY <1>1 DEF Reached
<1>3. CallbackInv'
  BY <1>1 DEF CallbackInv
<1>4. FrameTypes' /\ WireInv'
  BY <1>1, <1>2 DEF FrameInv, FrameTypes, WireInv, Place
<1>5. ChunkInv'
  BY <1>1, <1>2 DEF FrameInv, ChunkInv, Handling, Place
<1>6. DeliveredInv'
  BY <1>1, <1>2 DEF FrameInv, DeliveredInv, Handling, Place
<1>7. QED
  BY <1>3, <1>4, <1>5, <1>6 DEF FrameInv

\* The frame handed to the callback comes after those delivered before, and
\* ends before the wire begins.
LEMMA NextFrame ==
  ASSUME FrameInv, ws_pc = "callback"
  PROVE  /\ chunk[1][1] \in 1 .. MaxFrames
         /\ 2 * chunk[1][1] + 2 <= Reached
         /\ \A i \in 1 .. Len(delivered) : delivered[i] < chunk[1][1]
         /\ chunk[2] = <<chunk[1][1], 2>>
<1>1. /\ chunk[1][2] = 1 /\ Len(chunk) >= 2 /\ Len(chunk) \in Nat
      /\ chunk[1] \in Stream!Half /\ chunk[2] \in Stream!Half
  BY DEF FrameInv, FrameTypes, CallbackInv
<1>2. /\ Place(chunk[2]) = Place(chunk[1]) + 1
      /\ Place(chunk[1]) + (Len(chunk) - 1) <= Reached
  <2>1. 2 \in 1 .. Len(chunk)
    BY <1>1
  <2>2. Place(chunk[2]) = Place(chunk[1]) + (2 - 1)
    BY <2>1 DEF FrameInv, ChunkInv, Handling
  <2>3. QED
    BY <2>2 DEF FrameInv, ChunkInv, Handling
<1>3. PICK f \in 1 .. MaxFrames : chunk[1][1] = f
  BY <1>1, HalfFacts
<1>4. f \in Nat /\ Reached \in Int
  BY StreamAssumptions, ReachedType DEF Stream!MaxFramesAssumption, FrameInv
<1>5. Place(chunk[1]) = 2 * f + 1
  BY <1>1, <1>3 DEF Place
<1>6. 2 * f + 2 <= Reached
  BY <1>1, <1>2, <1>4, <1>5
<1>7. ASSUME NEW i \in 1 .. Len(delivered) PROVE delivered[i] < f
  <2>1. delivered[i] \in Nat
    BY StreamAssumptions DEF Stream!MaxFramesAssumption, FrameInv, FrameTypes
  <2>2. 2 * delivered[i] + 2 < 2 * f + 1
    BY <1>5 DEF FrameInv, DeliveredInv, Handling
  <2>3. QED
    BY <1>4, <2>1, <2>2
<1>8. chunk[2] = <<f, 2>>
  <2>1. PICK g \in Nat, h \in {1, 2} : chunk[2] = <<g, h>>
    BY <1>1, HalfFacts
  <2>2. 2 * g + h = 2 * f + 2
    BY <1>2, <1>4, <1>5, <2>1 DEF Place
  <2>3. g = f /\ h = 2
    BY <1>4, <2>1, <2>2
  <2>4. QED
    BY <2>1, <2>3
<1>9. QED
  BY <1>3, <1>6, <1>7, <1>8

LEMMA FrameCallback ==
  ASSUME FrameInv, Stream!Callback
  PROVE  FrameInv'
<1>1. /\ ws_pc = "callback" /\ ws_pc' = "check"
      /\ delivered' = Append(delivered, chunk[1][1])
      /\ UNCHANGED <<chunk, wire, sent_frames>>
  BY DEF Stream!Callback, Stream!wireVars
<1>2. PICK f \in 1 .. MaxFrames :
        /\ chunk[1][1] = f /\ 2 * f + 2 <= Reached
        /\ \A i \in 1 .. Len(delivered) : delivered[i] < f
  BY <1>1, NextFrame
<1>3. delivered \in Seq(1 .. MaxFrames) /\ Len(delivered) \in Nat
  BY DEF FrameInv, FrameTypes
<1>4. /\ delivered' \in Seq(1 .. MaxFrames) /\ Len(delivered') = Len(delivered) + 1
      /\ \A i \in 1 .. Len(delivered) : delivered'[i] = delivered[i]
      /\ delivered'[Len(delivered) + 1] = f
  BY <1>1, <1>2, <1>3
<1>5. UNCHANGED Reached /\ ~Handling'
  BY <1>1 DEF Reached, Handling
<1>6. DeliveredInv'
  <2>1. \A i \in 1 .. Len(delivered') : i \in 1 .. Len(delivered) \/ i = Len(delivered) + 1
    BY <1>3, <1>4
  <2>2. ASSUME NEW i \in 1 .. Len(delivered'), NEW j \in 1 .. Len(delivered'), i < j
        PROVE  delivered'[i] < delivered'[j]
    <3>1. i \in 1 .. Len(delivered)
      BY <1>3, <1>4, <2>2
    <3>2. CASE j \in 1 .. Len(delivered)
      BY <1>4, <2>2, <3>1, <3>2 DEF FrameInv, DeliveredInv
    <3>3. CASE j = Len(delivered) + 1
      BY <1>2, <1>4, <3>1, <3>3
    <3>4. QED
      BY <2>1, <3>2, <3>3
  <2>3. ASSUME NEW i \in 1 .. Len(delivered') PROVE 2 * delivered'[i] + 2 <= Reached
    <3>1. CASE i \in 1 .. Len(delivered)
      BY <1>4, <3>1 DEF FrameInv, DeliveredInv
    <3>2. CASE i = Len(delivered) + 1
      BY <1>2, <1>4, <3>2
    <3>3. QED
      BY <2>1, <3>1, <3>2
  <2>4. QED
    BY <1>5, <2>2, <2>3 DEF DeliveredInv
<1>7. FrameTypes' /\ WireInv'
  BY <1>1, <1>4, <1>5 DEF FrameInv, FrameTypes, WireInv, Place
<1>8. ChunkInv' /\ CallbackInv'
  BY <1>1, <1>5 DEF ChunkInv, CallbackInv
<1>9. QED
  BY <1>6, <1>7, <1>8 DEF FrameInv

LEMMA FramePeerSends ==
  ASSUME FrameInv, Stream!PeerSends
  PROVE  FrameInv'
<1>1. PICK s \in Nat : s = sent_frames
  BY DEF FrameInv, FrameTypes
<1>2. /\ s + 1 \in 1 .. MaxFrames /\ sent_frames' = s + 1
      /\ wire' = wire \o <<<<s + 1, 1>>, <<s + 1, 2>>>>
      /\ UNCHANGED <<ws_pc, chunk, delivered>>
  BY <1>1, StreamAssumptions
     DEF Stream!MaxFramesAssumption, Stream!PeerSends, Stream!threadVars
<1>3. PICK n \in Nat : n = Len(wire)
  BY DEF FrameInv, FrameTypes
<1>4. /\ wire' \in Seq(Stream!Half) /\ Len(wire') = n + 2
      /\ \A k \in 1 .. n : wire'[k] = wire[k]
      /\ wire'[n + 1] = <<s + 1, 1>> /\ wire'[n + 2] = <<s + 1, 2>>
  <2>1. wire \in Seq(Stream!Half)
    BY DEF FrameInv, FrameTypes
  <2>2. <<<<s + 1, 1>>, <<s + 1, 2>>>> \in Seq(Stream!Half)
    BY <1>2 DEF Stream!Half
  <2>3. QED
    BY <1>2, <1>3, <2>1, <2>2
<1>5. Reached = (2 * s + 2) - n /\ Reached' = Reached
  BY <1>1, <1>2, <1>3, <1>4 DEF Reached
<1>6. WireInv'
  <2>1. ASSUME NEW k \in 1 .. n + 2 PROVE Place(wire'[k]) = Reached + k
    <3>1. CASE k \in 1 .. n
      BY <1>3, <1>4, <3>1 DEF FrameInv, WireInv
    <3>2. CASE k = n + 1
      BY <1>3, <1>4, <1>5, <3>2 DEF Place
    <3>3. CASE k = n + 2
      BY <1>3, <1>4, <1>5, <3>3 DEF Place
    <3>4. QED
      BY <1>3, <3>1, <3>2, <3>3
  <2>2. QED
    BY <1>4, <1>5, <2>1 DEF WireInv, Place
<1>7. FrameTypes' /\ CallbackInv'
  BY <1>1, <1>2, <1>4 DEF FrameInv, FrameTypes, CallbackInv
<1>8. ChunkInv'
  BY <1>2, <1>5 DEF FrameInv, ChunkInv, Handling, Place
<1>9. DeliveredInv'
  BY <1>2, <1>5 DEF FrameInv, DeliveredInv, Handling, Place
<1>10. QED
  BY <1>6, <1>7, <1>8, <1>9 DEF FrameInv

LEMMA FrameHandshake ==
  ASSUME FrameInv, Stream!Handshake
  PROVE  FrameInv'
<1>1. /\ UNCHANGED <<ws_pc, chunk, delivered, sent_frames>>
      /\ \E n \in 0 .. Len(wire) : wire' = SubSeq(wire, n + 1, Len(wire))
  BY DEF Stream!Handshake, Stream!threadVars
<1>2. PICK n \in 0 .. Len(wire) : wire' = SubSeq(wire, n + 1, Len(wire))
  BY <1>1
<1>3. wire' \in Seq(Stream!Half) /\ Reached' = Reached + n /\ WireInv'
  BY <1>1, <1>2, WireRest
<1>4. /\ Reached \in Int /\ n \in Nat
      /\ \A x \in Int : x <= Reached => x <= Reached'
  BY <1>3, ReachedType DEF FrameInv
<1>5. FrameTypes' /\ CallbackInv'
  BY <1>1, <1>3 DEF FrameInv, FrameTypes, CallbackInv
<1>6. ChunkInv'
  <2>1. SUFFICES ASSUME Handling PROVE Place(chunk[1]) + (Len(chunk) - 1) <= Reached'
    BY <1>1 DEF FrameInv, ChunkInv, Handling, Place
  <2>2. Len(chunk) \in Nat /\ Len(chunk) >= 1 /\ chunk[1] \in Stream!Half
    BY <2>1 DEF FrameInv, FrameTypes, ChunkInv
  <2>3. Place(chunk[1]) + (Len(chunk) - 1) \in Int
    BY <2>2, HalfFacts
  <2>4. QED
    BY <1>4, <2>1, <2>3 DEF FrameInv, ChunkInv
<1>7. DeliveredInv'
  <2>1. ASSUME NEW i \in 1 .. Len(delivered) PROVE 2 * delivered[i] + 2 <= Reached'
    <3>1. delivered[i] \in Nat
      BY StreamAssumptions DEF Stream!MaxFramesAssumption, FrameInv, FrameTypes
    <3>2. QED
      BY <1>4, <3>1 DEF FrameInv, DeliveredInv
  <2>2. QED
    BY <1>1, <2>1 DEF FrameInv, DeliveredInv, Handling, Place
<1>8. QED
  BY <1>3, <1>5, <1>6, <1>7 DEF FrameInv

LEMMA FrameStep ==
  ASSUME FrameInv, [Stream!Next]_streamVars
  PROVE  FrameInv'
<1>1. \/ Stream!Receive \/ Stream!Handle \/ Stream!Callback \/ Stream!PeerSends
      \/ Stream!Handshake
      \/ /\ UNCHANGED <<wire, sent_frames, chunk, delivered>>
         /\ ws_pc' = ws_pc \/ ws_pc' \in {"off", "check", "recv", "done"}
  <2>1. CASE Stream!Main
    BY <2>1 DEF Stream!Main, Stream!Connect, Stream!StartPoll, Stream!OpenSocket,
       Stream!StartStream, Stream!ClearFlags, Stream!CloseSocket, Stream!JoinStream,
       Stream!JoinOrders, Stream!threadVars, Stream!wireVars
  <2>2. CASE Stream!BeginDisconnect \/ Stream!SetTradeCallback \/ Stream!PeerCloses
    BY <2>2 DEF Stream!BeginDisconnect, Stream!SetTradeCallback, Stream!PeerCloses,
       Stream!threadVars, Stream!wireVars
  <2>3. CASE Stream!OrdersThreadEnds \/ Stream!CheckStreaming \/ Stream!ReceiveNothing
    BY <2>3 DEF Stream!OrdersThreadEnds, Stream!CheckStreaming, Stream!ReceiveNothing,
       Stream!wireVars
  <2>4. CASE UNCHANGED streamVars
    BY <2>4 DEF streamVars
  <2>5. QED
    BY <2>1, <2>2, <2>3, <2>4 DEF Stream!Next, Stream!Stream
<1>2. QED
  BY <1>1, FrameReceive, FrameHandle, FrameCallback, FramePeerSends, FrameHandshake,
     FramesStill

LEMMA FramesInOrder ==
  ASSUME FrameInv
  PROVE  TradesInOrder
<1>1. DOMAIN delivered = 1 .. Len(delivered)
  BY DEF FrameInv, FrameTypes
<1>2. \A i, j \in DOMAIN delivered : i < j => delivered[i] < delivered[j]
  BY <1>1 DEF FrameInv, DeliveredInv
<1>3. ASSUME NEW i \in DOMAIN delivered PROVE delivered[i] <= sent_frames
  <2>1. delivered[i] \in Nat /\ sent_frames \in Nat
    BY StreamAssumptions DEF Stream!MaxFramesAssumption, FrameInv, FrameTypes
  <2>2. 2 * delivered[i] + 2 <= Reached
    BY <1>1, <1>3 DEF FrameInv, DeliveredInv
  <2>3. Reached \in Int /\ Reached <= 2 * sent_frames + 2
    BY ReachedType DEF FrameInv
  <2>4. QED
    BY <2>1, <2>2, <2>3
<1>4. ws_pc = "callback" => Len(chunk) >= 2 /\ chunk[2] = <<chunk[1][1], 2>>
  BY NextFrame DEF FrameInv, CallbackInv
<1>5. QED
  BY <1>2, <1>3, <1>4 DEF TradesInOrder, Stream!TradesInOrder

\* Trades are delivered in the order sent, none twice, and only frames that
\* recv returned whole.
THEOREM TradesOrdered == Spec => []TradesInOrder
<1>1. Init => FrameInv
  BY FrameInit DEF Init
<1>2. FrameInv /\ [Next]_vars => FrameInv'
  BY Sides, FrameStep
<1>3. FrameInv => TradesInOrder
  BY FramesInOrder
<1>4. QED
  BY <1>1, <1>2, <1>3, PTL DEF Spec

----------------------------------------------------------------------------
(***************************************************************************)
(* The streaming side: what is left behind.                                *)
(***************************************************************************)
\* The socket exists only while its descriptor is kept; what disconnect has
\* closed or joined stays so.
SocketInv ==
  /\ opened => m_ws_socket
  /\ main_pc \in {"joinStream", "joinOrders", "returned"} => ~opened
  /\ main_pc \in {"joinOrders", "returned"} => ws_pc \in {"off", "done"}
  /\ main_pc = "returned" => orders_thread \in {"off", "done"}

LEMMA SocketStep ==
  ASSUME SocketInv, [Stream!Next]_streamVars
  PROVE  SocketInv'
<1>1. CASE Stream!Connect \/ Stream!StartPoll \/ Stream!OpenSocket \/ Stream!Handshake
  BY <1>1 DEF SocketInv, Stream!Connect, Stream!StartPoll, Stream!OpenSocket, Stream!Handshake,
     Stream!MainMoves, Stream!threadVars
<1>2. CASE Stream!StartStream \/ Stream!SetTradeCallback \/ Stream!BeginDisconnect
  BY <1>2 DEF SocketInv, Stream!StartStream, Stream!SetTradeCallback, Stream!BeginDisconnect,
     Stream!MainMoves, Stream!threadVars
<1>3. CASE Stream!ClearFlags \/ Stream!CloseSocket \/ Stream!JoinStream \/ Stream!JoinOrders
  BY <1>3 DEF SocketInv, Stream!ClearFlags, Stream!CloseSocket, Stream!JoinStream,
     Stream!JoinOrders, Stream!MainMoves, Stream!threadVars
<1>4. CASE Stream!OrdersThreadEnds \/ Stream!Stream \/ Stream!ReceiveNothing
  BY <1>4 DEF SocketInv, Stream!OrdersThreadEnds, Stream!Stream, Stream!CheckStreaming,
     Stream!Receive, Stream!Handle, Stream!Callback, Stream!ReceiveNothing, Stream!Worker
<1>5. CASE Stream!PeerSends \/ Stream!PeerCloses
  BY <1>5 DEF SocketInv, Stream!PeerSends, Stream!PeerCloses, Stream!threadVars
<1>6. CASE UNCHANGED streamVars
  BY <1>6 DEF SocketInv, streamVars
<1>7. QED
  BY <1>1, <1>2, <1>3, <1>4, <1>5, <1>6 DEF Stream!Next, Stream!Main

\* When disconnect has returned, neither thread runs and no socket is open.
THEOREM NothingLeft == Spec => []DisconnectLeavesNothing
<1>1. Init => SocketInv
  BY DEF Init, Stream!Init, SocketInv
<1>2. SocketInv /\ [Next]_vars => SocketInv'
  BY Sides, SocketStep
<1>3. SocketInv => DisconnectLeavesNothing
  BY DEF SocketInv, DisconnectLeavesNothing, Stream!DisconnectLeavesNothing
<1>4. QED
  BY <1>1, <1>2, <1>3, PTL DEF Spec
=============================================================================
