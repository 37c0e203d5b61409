------------------------- MODULE RiskClientsProofs -------------------------
(***************************************************************************)
(* The overshoot bounds of RiskClients, for any number of clients, any     *)
(* orders and any limits, changed at any time.                             *)
(***************************************************************************)
EXTENDS RiskClients, FiniteSetTheorems, TLAPS

\* The clients with an approved order, and those whose order is a buy.
Active == {c \in Clients : approved[c] # NoOrder}
Buyers == {c \in Active : approved[c].is_buy}

Cost(c) == Notional(approved[c], PriceUsed(approved[c]))

ExposureBound == ExposureCap + (Cardinality(Clients) - 1) * OrderCap

\* Every approved order may still count one trade; and nobody is approved
\* unless some limit record allows a trade.
TradesInv ==
  /\ today_trades + Cardinality(Active) <= TradesCap + Cardinality(Clients) - 1
  /\ Active # {} => TradesCap >= 1

\* Some approved buy fits under the bound together with one order of the
\* maximum size for every other: the last one the gate let through, or, once
\* that is booked, any other.
ExposureInv ==
  /\ total_exposure <= ExposureBound
  /\ \A c \in Active : Cost(c) <= OrderCap
  /\ Buyers # {} =>
       \E c \in Buyers :
         total_exposure + Cost(c) + (Cardinality(Buyers) - 1) * OrderCap
           <= ExposureBound

Inv == TypeOK /\ TradesInv /\ ExposureInv

----------------------------------------------------------------------------
\* How many clients there are, and how many are active or buying.
LEMMA Sizes ==
  /\ IsFiniteSet(Active) /\ IsFiniteSet(Buyers)
  /\ Cardinality(Clients) \in Nat /\ Cardinality(Clients) >= 1
  /\ Cardinality(Active) \in Nat /\ Cardinality(Active) <= Cardinality(Clients)
  /\ Cardinality(Buyers) \in Nat /\ Cardinality(Buyers) <= Cardinality(Clients)
<1>1. IsFiniteSet(Clients) /\ Clients # {}
  BY ClientsAssumption
<1>2. Active \subseteq Clients /\ Buyers \subseteq Clients
  BY DEF Active, Buyers
<1>3. /\ IsFiniteSet(Active) /\ Cardinality(Active) <= Cardinality(Clients)
      /\ IsFiniteSet(Buyers) /\ Cardinality(Buyers) <= Cardinality(Clients)
  BY <1>1, <1>2, FS_Subset
<1>4. QED
  BY <1>1, <1>3, FS_CardinalityType, FS_EmptySet

\* One factor more, or fewer, of a natural number.
LEMMA Distribute ==
  ASSUME NEW k \in Int, NEW m \in Nat
  PROVE  (k + 1) * m = k * m + m /\ k * m \in Int
  OBVIOUS

LEMMA Monotone ==
  ASSUME NEW j \in Nat, NEW k \in Nat, NEW m \in Nat, j <= k
  PROVE  j * m <= k * m /\ j * m \in Nat /\ k * m \in Nat
  OBVIOUS

\* An order's price and notional, and what the gate checks about it.
LEMMA OrderType ==
  ASSUME NEW o \in Orders
  PROVE  /\ o \in Order
         /\ PriceUsed(o) \in Nat
         /\ Notional(o, PriceUsed(o)) \in Nat
<1>1. o \in Order
  BY OrdersAssumption
<1>2. PriceUsed(o) \in Nat /\ o.quantity \in Nat
  BY <1>1 DEF Order, PriceUsed
<1>3. QED
  BY <1>1, <1>2 DEF Notional

\* The limits in force never exceed the caps.
LEMMA LimitsType ==
  ASSUME TypeOK
  PROVE  /\ limits.max_portfolio_exposure \in Nat /\ ExposureCap \in Nat
         /\ limits.max_portfolio_exposure <= ExposureCap
         /\ limits.max_order_size \in Nat /\ OrderCap \in Nat
         /\ limits.max_order_size <= OrderCap
         /\ limits.max_daily_trades \in Nat /\ TradesCap \in Nat
         /\ limits.max_daily_trades <= TradesCap
  BY CapsAssumption DEF TypeOK, LimitRecord

\* The bound on the exposure is a natural number at least the cap.
LEMMA BoundType ==
  /\ ExposureBound \in Nat
  /\ ExposureBound >= ExposureCap
<1>1. Cardinality(Clients) - 1 \in Nat /\ ExposureCap \in Nat /\ OrderCap \in Nat
  BY Sizes, CapsAssumption
<1>2. (Cardinality(Clients) - 1) * OrderCap \in Nat
  BY <1>1, Monotone
<1>3. QED
  BY <1>1, <1>2 DEF ExposureBound

\* The first state satisfies the invariant.
LEMMA InitInv == Init => Inv
<1> SUFFICES ASSUME Init PROVE Inv
  OBVIOUS
<1>1. RiskTypeOK
  BY LimitsAssumption DEF Init, RiskInit, RiskTypeOK
<1>2. TypeOK
  BY <1>1, CapsAssumption DEF Init, RiskInit, TypeOK
<1>3. Active = {} /\ Buyers = {}
  BY DEF Init, Active, Buyers
<1>4. Cardinality(Active) <= 0
  BY <1>3, FS_EmptySet
<1>5. TradesInv
  BY <1>3, <1>4, Sizes, CapsAssumption DEF Init, RiskInit, TradesInv
<1>6. ExposureInv
  BY <1>3, BoundType DEF Init, RiskInit, ExposureInv
<1>7. QED
  BY <1>2, <1>5, <1>6 DEF Inv

\* Every step keeps the state well typed.
LEMMA TypeStep == ASSUME TypeOK, [Next]_vars PROVE TypeOK'
<1> USE DEF TypeOK, RiskTypeOK, riskVars
<1>1. ASSUME NEW c \in Clients, Approve(c) PROVE TypeOK'
  BY <1>1 DEF Approve
<1>2. ASSUME NEW c \in Clients, Fill(c) PROVE TypeOK'
  <2> DEFINE o == approved[c]
             n == Notional(o, PriceUsed(o))
  <2>1. o \in Orders
    BY <1>2 DEF Fill
  <2>2. n \in Nat /\ o.quantity \in Nat /\ o.symbol \in Symbols
    BY <2>1, OrderType DEF Order
  <2>3. \A m \in Int : FloorAtZero(m) \in Nat
    BY DEF FloorAtZero
  <2>4. total_exposure' \in Nat
    BY <1>2, <2>2, <2>3 DEF Fill, OnOrderFilled
  <2>5. positions' \in [Symbols -> Nat]
    BY <1>2, <2>2, <2>3 DEF Fill, OnOrderFilled
  <2>6. QED
    BY <1>2, <2>4, <2>5 DEF Fill, OnOrderFilled
<1>3. ASSUME NEW c \in Clients, Drop(c) PROVE TypeOK'
  BY <1>3 DEF Drop
<1>4. CASE RecordPnl
  BY <1>4, PnlAssumption DEF RecordPnl, UpdateDailyPnl
<1>5. CASE StartDay
  BY <1>5 DEF StartDay, ResetDaily
<1>6. CASE ChangeLimits
  BY <1>6, CapsAssumption DEF ChangeLimits, SetLimits
<1>7. CASE UNCHANGED vars
  BY <1>7 DEF vars
<1>8. QED
  BY <1>1, <1>2, <1>3, <1>4, <1>5, <1>6, <1>7 DEF Next

\* A client that gives its order up leaves the active set, and the buyers' if
\* it was one; the others' costs stay what they were.
LEMMA Leaving ==
  ASSUME TypeOK, NEW c \in Active, approved' = [approved EXCEPT ![c] = NoOrder]
  PROVE  /\ Active' = Active \ {c}
         /\ Cardinality(Active') = Cardinality(Active) - 1
         /\ Buyers' = Buyers \ {c}
         /\ \A d \in Active' : Cost(d)' = Cost(d)
<1>1. \A d \in Clients : approved'[d] = IF d = c THEN NoOrder ELSE approved[d]
  BY DEF TypeOK, Active
<1>2. Active' = Active \ {c}
  BY <1>1 DEF Active
<1>3. Buyers' = Buyers \ {c}
  BY <1>1, <1>2 DEF Buyers, Active
<1>4. \A d \in Active' : Cost(d)' = Cost(d)
  BY <1>1, <1>2 DEF Active, Cost
<1>5. QED
  BY <1>2, <1>3, <1>4, Sizes, FS_RemoveElement

\* Approving uses up room in the count; filling moves a trade into it.
LEMMA TradesStep ==
  ASSUME TypeOK, TradesInv, [Next]_vars
  PROVE  TradesInv'
<1>1. today_trades \in Nat /\ TradesCap \in Nat
  BY CapsAssumption DEF TypeOK, RiskTypeOK
<1>2. ASSUME NEW c \in Clients, Approve(c) PROVE TradesInv'
  <2>1. today_trades' = today_trades /\ today_trades < limits.max_daily_trades
    BY <1>2 DEF Approve, CanSubmitOrder, riskVars
  <2>2. Cardinality(Active') \in Nat /\ Cardinality(Active') <= Cardinality(Clients)
    <3>1. IsFiniteSet(Clients) /\ Active' \subseteq Clients
      BY ClientsAssumption DEF Active
    <3>2. QED
      BY <3>1, FS_Subset, FS_CardinalityType
  <2>3. QED
    BY <1>1, <2>1, <2>2, LimitsType, Sizes DEF TradesInv
<1>3. ASSUME NEW c \in Clients, Fill(c) PROVE TradesInv'
  <2>1. c \in Active /\ today_trades' = today_trades + 1
    BY <1>3 DEF Fill, Active, OnOrderFilled
  <2>2. Active' \subseteq Active /\ Cardinality(Active') = Cardinality(Active) - 1
    BY <1>3, <2>1, Leaving DEF Fill
  <2>3. QED
    BY <1>1, <2>1, <2>2, Sizes DEF TradesInv
<1>4. ASSUME NEW c \in Clients, Drop(c) PROVE TradesInv'
  <2>1. c \in Active /\ today_trades' = today_trades
    BY <1>4 DEF Drop, Active, riskVars
  <2>2. Active' \subseteq Active /\ Cardinality(Active') = Cardinality(Active) - 1
    BY <1>4, <2>1, Leaving DEF Drop
  <2>3. QED
    BY <1>1, <2>1, <2>2, Sizes DEF TradesInv
<1>5. CASE StartDay
  <2>1. Active' = Active /\ today_trades' \in Nat /\ today_trades' <= 0
    BY <1>5 DEF StartDay, ResetDaily, Active
  <2>2. CASE Active = {}
    <3>1. Cardinality(Active) <= 0
      BY <2>2, FS_EmptySet
    <3>2. QED
      BY <1>1, <2>1, <2>2, <3>1, Sizes DEF TradesInv
  <2>3. CASE Active # {}
    BY <1>1, <2>1, <2>3, Sizes DEF TradesInv
  <2>4. QED
    BY <2>2, <2>3
<1>6. CASE RecordPnl \/ ChangeLimits \/ UNCHANGED vars
  BY <1>6 DEF RecordPnl, UpdateDailyPnl, ChangeLimits, SetLimits, vars, riskVars,
              TradesInv, Active
<1>7. QED
  BY <1>2, <1>3, <1>4, <1>5, <1>6 DEF Next

\* What an approved order costs is a natural number.
LEMMA CostType ==
  ASSUME TypeOK, NEW c \in Active
  PROVE  Cost(c) \in Nat
  BY OrderType DEF TypeOK, Active, Cost

\* Once a client gives up its order, the exposure moves by its cost at most
\* and only if it was a buy.
LEMMA ExposureLeaving ==
  ASSUME TypeOK, TypeOK', ExposureInv, NEW c \in Active,
         approved' = [approved EXCEPT ![c] = NoOrder],
         \/ total_exposure' <= total_exposure
         \/ c \in Buyers /\ total_exposure' = total_exposure + Cost(c)
  PROVE  ExposureInv'
<1> DEFINE K == Cardinality(Buyers)
           M == OrderCap
<1>1. /\ Active' = Active \ {c}
      /\ Buyers' = Buyers \ {c}
      /\ \A d \in Active' : Cost(d)' = Cost(d)
  BY Leaving
<1>2. /\ total_exposure \in Nat /\ total_exposure' \in Nat /\ M \in Nat
      /\ K \in Nat /\ ExposureBound \in Nat
      /\ \A d \in Active : Cost(d) \in Nat /\ Cost(d) <= M
      /\ Buyers \subseteq Active
  BY CapsAssumption, Sizes, BoundType, CostType
  DEF TypeOK, RiskTypeOK, ExposureInv, Buyers
<1>3. \A d \in Active' : Cost(d)' <= M
  BY <1>1, <1>2
<1>4. CASE total_exposure' <= total_exposure
  <2>1. total_exposure' <= ExposureBound
    BY <1>2, <1>4 DEF ExposureInv
  <2>2. ASSUME Buyers' # {}
        PROVE  \E d \in Buyers' :
                 total_exposure' + Cost(d)' + (Cardinality(Buyers') - 1) * M
                   <= ExposureBound
    <3>1. PICK b \in Buyers : total_exposure + Cost(b) + (K - 1) * M <= ExposureBound
      BY <1>1, <2>2 DEF ExposureInv
    <3>2. CASE c \notin Buyers
      <4>1. Buyers' = Buyers /\ b \in Active'
        BY <1>1, <1>2, <3>2
      <4>2. Cardinality(Buyers') = K /\ Cost(b)' = Cost(b)
        BY <1>1, <4>1
      <4>3. (K - 1) * M \in Int
        BY <1>2
      <4>4. total_exposure' + Cost(b) + (K - 1) * M <= ExposureBound
        BY <1>2, <1>4, <3>1, <4>3
      <4>5. QED
        BY <3>1, <4>1, <4>2, <4>4
    <3>3. CASE c \in Buyers
      <4>1. Cardinality(Buyers') = K - 1
        BY <1>1, <3>3, Sizes, FS_RemoveElement
      <4>2. (K - 1) * M = (K - 2) * M + M /\ (K - 2) * M \in Int
        BY <1>2, Distribute
      <4>3. PICK d : d \in Buyers'
        BY <2>2
      <4>4. d \in Active' /\ Cost(d)' = Cost(d) /\ Cost(d) \in Nat /\ Cost(d) <= M
        BY <1>1, <1>2, <4>3
      <4>5. total_exposure' + Cost(d) + (K - 2) * M <= ExposureBound
        BY <1>2, <1>4, <3>1, <4>2, <4>4
      <4>6. QED
        BY <1>2, <4>1, <4>3, <4>4, <4>5
    <3>4. QED
      BY <3>2, <3>3
  <2>3. QED
    BY <1>3, <2>1, <2>2 DEF ExposureInv, ExposureBound
<1>5. CASE c \in Buyers /\ total_exposure' = total_exposure + Cost(c)
  <2>1. PICK b \in Buyers : total_exposure + Cost(b) + (K - 1) * M <= ExposureBound
    BY <1>5 DEF ExposureInv
  <2>2. Cardinality(Buyers') = K - 1
    BY <1>1, <1>5, Sizes, FS_RemoveElement
  <2>3. (K - 1) * M = (K - 2) * M + M /\ (K - 2) * M \in Int
    BY <1>2, Distribute
  <2>4. CASE Buyers' = {}
    <3>1. b = c
      BY <1>1, <2>4
    <3>2. K - 1 \in Nat
      BY <1>2, <1>5, Sizes, FS_EmptySet
    <3>3. (K - 1) * M \in Nat
      BY <1>2, <3>2, Monotone
    <3>4. total_exposure' <= ExposureBound
      BY <1>2, <1>5, <2>1, <3>1, <3>3
    <3>5. QED
      BY <1>3, <2>4, <3>4 DEF ExposureInv, ExposureBound
  <2>5. CASE Buyers' # {}
    \* The order that still fits: the witness, unless it is the one booked.
    <3>1. PICK d \in Buyers' : b # c => d = b
      BY <1>1, <2>5
    <3>2. /\ d \in Active' /\ Cost(d)' = Cost(d)
          /\ Cost(d) \in Nat /\ Cost(d) <= M
          /\ Cost(c) \in Nat /\ Cost(c) <= M
      BY <1>1, <1>2
    <3>3. Cost(c) + Cost(d) <= Cost(b) + M
      BY <1>2, <3>1, <3>2
    <3>4. total_exposure' + Cost(d) + (K - 2) * M <= ExposureBound
      BY <1>2, <1>5, <2>1, <2>3, <3>2, <3>3
    <3>5. \E e \in Buyers' :
            total_exposure' + Cost(e)' + (Cardinality(Buyers') - 1) * M
              <= ExposureBound
      BY <1>2, <2>2, <3>1, <3>2, <3>4
    <3>6. K - 2 \in Nat
      <4>1. Cardinality(Buyers') # 0 /\ Cardinality(Buyers') \in Nat
        BY <1>1, <2>5, Sizes, FS_RemoveElement, FS_EmptySet, FS_CardinalityType
      <4>2. QED
        BY <1>2, <2>2, <4>1
    <3>7. (K - 2) * M \in Nat
      BY <1>2, <3>6, Monotone
    <3>8. total_exposure' <= ExposureBound
      BY <1>2, <3>2, <3>4, <3>7
    <3>9. QED
      BY <1>3, <3>5, <3>8 DEF ExposureInv, ExposureBound
  <2>6. QED
    BY <2>4, <2>5
<1>6. QED
  BY <1>4, <1>5

\* An approved buy fits with everything the others can have in flight.
LEMMA ExposureApprove ==
  ASSUME TypeOK, TypeOK', ExposureInv, NEW c \in Clients, Approve(c)
  PROVE  ExposureInv'
<1> DEFINE K == Cardinality(Buyers)
           M == OrderCap
           N == Cardinality(Clients)
<1>1. PICK o \in Orders, balance \in Balances :
        /\ approved[c] = NoOrder
        /\ CanSubmitOrder(o, balance, PriceUsed(o))
        /\ approved' = [approved EXCEPT ![c] = o]
        /\ UNCHANGED riskVars
  BY DEF Approve
<1>2. /\ total_exposure \in Nat /\ M \in Nat /\ ExposureCap \in Nat
      /\ K \in Nat /\ N \in Nat /\ ExposureBound \in Nat
      /\ limits.max_portfolio_exposure \in Nat /\ limits.max_order_size \in Nat
      /\ limits.max_portfolio_exposure <= ExposureCap
      /\ limits.max_order_size <= M
  BY LimitsType, Sizes, BoundType DEF TypeOK, RiskTypeOK
<1>3. o # NoOrder /\ Notional(o, PriceUsed(o)) \in Nat
  BY NoOrderAssumption, OrderType
<1>4. \A d \in Clients : approved'[d] = IF d = c THEN o ELSE approved[d]
  BY <1>1 DEF TypeOK
<1>5. c \notin Active /\ c \notin Buyers
  BY <1>1 DEF Active, Buyers
<1>6. Active' = Active \cup {c}
  BY <1>3, <1>4 DEF Active
<1>7. /\ Cost(c)' = Notional(o, PriceUsed(o))
      /\ \A d \in Active : Cost(d)' = Cost(d)
  BY <1>4, <1>5 DEF Active, Cost
<1>8. Cost(c)' <= M
  BY <1>1, <1>2, <1>3, <1>7 DEF CanSubmitOrder
<1>9. /\ \A d \in Active' : Cost(d)' <= M
      /\ total_exposure' = total_exposure /\ total_exposure <= ExposureBound
  BY <1>1, <1>6, <1>7, <1>8 DEF ExposureInv, riskVars
<1>10. CASE o.is_buy
  <2>1. Buyers' = Buyers \cup {c}
    BY <1>4, <1>6, <1>10 DEF Buyers, Active
  <2>2. Cardinality(Buyers') = K + 1
    BY <1>5, <2>1, Sizes, FS_AddElement
  <2>3. K + 1 <= N
    <3>1. IsFiniteSet(Clients) /\ Buyers' \subseteq Clients
      BY ClientsAssumption DEF Buyers, Active
    <3>2. Cardinality(Buyers') <= N
      BY <3>1, FS_Subset
    <3>3. QED
      BY <2>2, <3>2
  <2>4. total_exposure + Cost(c)' <= ExposureCap
    BY <1>1, <1>2, <1>3, <1>7, <1>10 DEF CanSubmitOrder, BuyFits
  <2>5. /\ K * M <= (N - 1) * M
        /\ K * M \in Nat /\ (N - 1) * M \in Nat
    BY <1>2, <2>3, Monotone
  <2>6. total_exposure + Cost(c)' + K * M <= ExposureCap + (N - 1) * M
    BY <1>2, <1>3, <1>7, <2>4, <2>5
  <2>7. total_exposure' + Cost(c)' + (Cardinality(Buyers') - 1) * M <= ExposureBound'
    BY <1>2, <1>9, <2>2, <2>6 DEF ExposureBound
  <2>8. c \in Buyers'
    BY <2>1
  <2>9. QED
    BY <1>9, <2>7, <2>8 DEF ExposureInv, ExposureBound
<1>11. CASE ~o.is_buy
  <2>1. Buyers' = Buyers
    <3>1. approved'[c] = o /\ c \notin Buyers'
      BY <1>4, <1>11 DEF Buyers
    <3>2. \A d \in Active : approved'[d] = approved[d]
      BY <1>4, <1>5 DEF Active
    <3>3. QED
      BY <1>6, <3>1, <3>2 DEF Buyers
  <2>2. \A d \in Buyers : Cost(d)' = Cost(d)
    BY <1>7 DEF Buyers
  <2>3. QED
    BY <1>9, <2>1, <2>2 DEF ExposureInv, ExposureBound
<1>12. QED
  BY <1>10, <1>11

\* Every step keeps some approved buy within the bound.
LEMMA ExposureStep ==
  ASSUME TypeOK, TypeOK', ExposureInv, [Next]_vars
  PROVE  ExposureInv'
<1>1. ASSUME NEW c \in Clients, Approve(c) PROVE ExposureInv'
  BY <1>1, ExposureApprove
<1>2. ASSUME NEW c \in Clients, Fill(c) PROVE ExposureInv'
  <2>1. c \in Active /\ approved' = [approved EXCEPT ![c] = NoOrder]
    BY <1>2 DEF Fill, Active
  <2>2. total_exposure \in Nat /\ Cost(c) \in Nat
    BY <2>1, CostType DEF TypeOK, RiskTypeOK
  <2>3. CASE approved[c].is_buy
    <3>1. c \in Buyers /\ total_exposure' = total_exposure + Cost(c)
      BY <1>2, <2>1, <2>3 DEF Fill, OnOrderFilled, Buyers, Cost
    <3>2. QED
      BY <2>1, <3>1, ExposureLeaving
  <2>4. CASE ~approved[c].is_buy
    <3>1. total_exposure' = FloorAtZero(total_exposure - Cost(c))
      BY <1>2, <2>4 DEF Fill, OnOrderFilled, Cost
    <3>2. total_exposure' <= total_exposure
      BY <2>2, <3>1 DEF FloorAtZero
    <3>3. QED
      BY <2>1, <3>2, ExposureLeaving
  <2>5. QED
    BY <2>3, <2>4
<1>3. ASSUME NEW c \in Clients, Drop(c) PROVE ExposureInv'
  <2>1. c \in Active /\ approved' = [approved EXCEPT ![c] = NoOrder]
    BY <1>3 DEF Drop, Active
  <2>2. total_exposure' <= total_exposure
    BY <1>3 DEF Drop, riskVars, TypeOK, RiskTypeOK
  <2>3. QED
    BY <2>1, <2>2, ExposureLeaving
<1>4. CASE RecordPnl \/ StartDay \/ ChangeLimits \/ UNCHANGED vars
  <2>1. UNCHANGED <<approved, total_exposure>>
    BY <1>4 DEF RecordPnl, UpdateDailyPnl, StartDay, ResetDaily, ChangeLimits,
                SetLimits, vars, riskVars
  <2>2. QED
    BY <2>1 DEF ExposureInv, ExposureBound, Active, Buyers, Cost
<1>5. QED
  BY <1>1, <1>2, <1>3, <1>4 DEF Next

----------------------------------------------------------------------------
\* The invariant holds in every behaviour.
THEOREM Invariance == Spec => []Inv
<1>1. Inv /\ [Next]_vars => Inv'
  <2> SUFFICES ASSUME Inv, [Next]_vars PROVE Inv'
    OBVIOUS
  <2>1. TypeOK'
    BY TypeStep DEF Inv
  <2>2. TradesInv'
    BY TradesStep DEF Inv
  <2>3. ExposureInv'
    BY <2>1, ExposureStep DEF Inv
  <2>4. QED
    BY <2>1, <2>2, <2>3 DEF Inv
<1>2. QED
  BY InitInv, <1>1, PTL DEF Spec

\* The portfolio exposure overshoots its limit by one order of the maximum
\* size per other client at most.
THEOREM ExposureOvershootHolds == Spec => []ExposureOvershootBounded
<1>1. Inv => ExposureOvershootBounded
  BY DEF Inv, ExposureInv, ExposureBound, ExposureOvershootBounded
<1>2. QED
  BY Invariance, <1>1, PTL

\* The daily trade count overshoots its limit by one per other client at most.
THEOREM TradesOvershootHolds == Spec => []TradesOvershootBounded
<1>1. ASSUME Inv PROVE TradesOvershootBounded
  <2>1. today_trades \in Nat /\ TradesCap \in Nat
    BY <1>1, CapsAssumption DEF Inv, TypeOK, RiskTypeOK
  <2>2. today_trades + Cardinality(Active) <= TradesCap + Cardinality(Clients) - 1
    BY <1>1 DEF Inv, TradesInv
  <2>3. QED
    BY <2>1, <2>2, Sizes DEF TradesOvershootBounded
<1>2. QED
  BY Invariance, <1>1, PTL
============================================================================
