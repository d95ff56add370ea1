---------------------------- MODULE MarketProofs ----------------------------
(***************************************************************************)
(* Theorems about Market for every set of traders, every finite or         *)
(* infinite set of prices and quantities that fit a long, and every width  *)
(* of long: the types, the agreement of the four containers that name an   *)
(* order, the uncrossed book, the price at which an order may trade, and   *)
(* the totals: every price point is the sum of the open orders at its      *)
(* price, and trading creates neither units nor money.  The totals are     *)
(* sums over sets, so that half starts with what such a sum is.            *)
(*                                                                         *)
(* Last, the matching loop implements price-time priority.  The abstract   *)
(* market settles an order where it is placed.  So that proof is about one *)
(* iteration: the two orders at the front of the books are the newest      *)
(* order and the first of those that it meets, and what is left to settle  *)
(* after their trade is what was left before it, less the trade.           *)
(***************************************************************************)
EXTENDS MarketRefinement, FoldProofs

-----------------------------------------------------------------------------
(* Values and maps. *)

\* The sum that a long holds is one of its values.
LEMMA LongInRange ==
  ASSUME NEW x \in Int
  PROVE  Long(x) \in LongRange
<1> DEFINE n == 2 * LongMax + 2
<1>1. n \in Nat \ {0}
  BY MarketAssumption
<1>2. (x + LongMax + 1) % n \in 0..(n - 1)
  <2>1. x + LongMax + 1 \in Int
    BY MarketAssumption
  <2> HIDE DEF n
  <2> QED BY <1>1, <2>1
<1> QED BY <1>2, MarketAssumption DEF Long, LongRange

\* An assignment to a map keeps the other entries.
LEMMA PutMap ==
  ASSUME NEW f, NEW key, NEW value
  PROVE  /\ DOMAIN Put(f, key, value) = DOMAIN f \cup {key}
         /\ Put(f, key, value)[key] = value
         /\ \A k \in DOMAIN f : k # key => Put(f, key, value)[k] = f[k]
         /\ Put(f, key, value) = [k \in DOMAIN f \cup {key} |-> Put(f, key, value)[k]]
BY DEF Put

\* An erase keeps the other entries.
LEMMA DropMap ==
  ASSUME NEW f, NEW key
  PROVE  /\ DOMAIN Drop(f, key) = DOMAIN f \ {key}
         /\ \A k \in DOMAIN f \ {key} : Drop(f, key)[k] = f[k]
         /\ Drop(f, key) = [k \in DOMAIN f \ {key} |-> f[k]]
BY DEF Drop, Restrict

\* A new order joins the ids of its level and leaves the others alone.
LEMMA InsertIdLevels ==
  ASSUME NEW levels, NEW price, NEW id, NEW S,
         levels \in [DOMAIN levels -> SUBSET S], id \in S
  PROVE  /\ DOMAIN InsertId(levels, price, id) = DOMAIN levels \cup {price}
         /\ InsertId(levels, price, id)
              \in [DOMAIN levels \cup {price} -> SUBSET S]
         /\ \A p \in DOMAIN levels \cup {price} :
              InsertId(levels, price, id)[p] =
                (IF p \in DOMAIN levels THEN levels[p] ELSE {})
                \cup (IF p = price THEN {id} ELSE {})
<1> DEFINE new == IF price \in DOMAIN levels THEN levels[price] \cup {id} ELSE {id}
<1>1. InsertId(levels, price, id)
        = [p \in DOMAIN levels \cup {price} |-> IF p = price THEN new ELSE levels[p]]
  BY DEF InsertId, Put
<1>2. new \in SUBSET S
  OBVIOUS
<1> QED BY <1>1, <1>2

\* An id leaves its level, the others stay, and no level becomes empty.
LEMMA EraseIdLevels ==
  ASSUME NEW levels, NEW S, levels \in [DOMAIN levels -> SUBSET S],
         NEW price \in DOMAIN levels, NEW id
  PROVE  LET less == EraseId(levels, price, id) IN
         /\ DOMAIN less \subseteq DOMAIN levels
         /\ less \in [DOMAIN less -> SUBSET S]
         /\ \A p \in DOMAIN less :
              less[p] = levels[p] \ (IF p = price THEN {id} ELSE {})
         /\ \A p \in DOMAIN levels :
              p \notin DOMAIN less <=> p = price /\ levels[p] = {id}
<1>1. CASE levels[price] = {id}
  <2>1. EraseId(levels, price, id) = [p \in DOMAIN levels \ {price} |-> levels[p]]
    BY <1>1 DEF EraseId, Drop, Restrict
  <2>2. \A p \in DOMAIN levels \ {price} : levels[p] = levels[p] \ {}
    OBVIOUS
  <2> QED BY <1>1, <2>1, <2>2
<1>2. CASE levels[price] # {id}
  <2>1. EraseId(levels, price, id)
          = [p \in DOMAIN levels |-> IF p = price THEN levels[p] \ {id} ELSE levels[p]]
    BY <1>2 DEF EraseId, Put
  <2> QED BY <1>2, <2>1
<1> QED BY <1>1, <1>2

\* An erase keeps the type of a side of the book.
LEMMA EraseIdType ==
  ASSUME NEW levels, NEW S, levels \in [DOMAIN levels -> SUBSET S],
         DOMAIN levels \subseteq Prices,
         NEW price \in DOMAIN levels, NEW id
  PROVE  /\ DOMAIN EraseId(levels, price, id) \subseteq Prices
         /\ EraseId(levels, price, id)
              \in [DOMAIN EraseId(levels, price, id) -> SUBSET S]
BY EraseIdLevels

\* A price point keeps its type when a total changes.
LEMMA AddDepthType ==
  ASSUME NEW points, points \in [DOMAIN points -> Depth],
         DOMAIN points \subseteq Prices,
         NEW price \in Prices, NEW bidDiff \in Int, NEW askDiff \in Int
  PROVE  LET after == AddDepth(points, price, bidDiff, askDiff) IN
         /\ DOMAIN after \subseteq Prices
         /\ after \in [DOMAIN after -> Depth]
<1> DEFINE old == IF price \in DOMAIN points THEN points[price] ELSE NoDepth
           new == [bids |-> Long(old.bids + bidDiff),
                   asks |-> Long(old.asks + askDiff)]
<1>1. old.bids \in Int /\ old.asks \in Int
  BY MarketAssumption DEF Depth, LongRange, NoDepth
<1>2. new \in Depth
  <2>1. Long(old.bids + bidDiff) \in LongRange /\ Long(old.asks + askDiff) \in LongRange
    BY <1>1, LongInRange
  <2> QED BY <2>1 DEF Depth
<1>3. AddDepth(points, price, bidDiff, askDiff)
        = IF new = NoDepth THEN Drop(points, price) ELSE Put(points, price, new)
  BY DEF AddDepth
<1> HIDE DEF new
<1>4. CASE new = NoDepth
  <2>1. AddDepth(points, price, bidDiff, askDiff)
          = [p \in DOMAIN points \ {price} |-> points[p]]
    BY <1>3, <1>4 DEF Drop, Restrict
  <2> QED BY <2>1
<1>5. CASE new # NoDepth
  <2>1. AddDepth(points, price, bidDiff, askDiff)
          = [p \in DOMAIN points \cup {price} |-> IF p = price THEN new ELSE points[p]]
    BY <1>3, <1>5 DEF Put
  <2> QED BY <1>2, <2>1
<1> QED BY <1>4, <1>5

-----------------------------------------------------------------------------
(* Types. *)

\* The quantity of a trade is positive and neither order has less of it.
LEMMA MatchType ==
  ASSUME TypeOK, NEW i \in DOMAIN orders, NEW j \in DOMAIN orders
  PROVE  /\ Match(i, j) \in [price : Prices, quantity : 1..LongMax]
         /\ Match(i, j).quantity <= orders[i].quantity
         /\ Match(i, j).quantity <= orders[j].quantity
         /\ Match(i, j).quantity \in {orders[i].quantity, orders[j].quantity}
<1>1. orders[i] \in Order /\ orders[j] \in Order
  BY DEF TypeOK
<1>2. orders[i].quantity \in 1..LongMax /\ orders[j].quantity \in 1..LongMax
  BY <1>1 DEF Order
<1>3. orders[i].price \in Prices /\ orders[j].price \in Prices
  BY <1>1 DEF Order
<1> QED BY <1>2, <1>3, MarketAssumption DEF Match

\* A confirmed trade leaves every position a position.
LEMMA ConfirmType ==
  ASSUME NEW book, book \in [DOMAIN book -> Position],
         NEW trader, NEW type \in OrderTypes,
         NEW t \in [price : Prices, quantity : 1..LongMax]
  PROVE  /\ DOMAIN Confirm(book, trader, type, t) = DOMAIN book
         /\ Confirm(book, trader, type, t) \in [DOMAIN book -> Position]
<1> DEFINE c == Long(book[trader].count + Sign(type) * t.quantity)
           m == Long(book[trader].pnl - Sign(type) * t.price * t.quantity)
<1>1. ASSUME trader \in DOMAIN book
      PROVE  c \in LongRange /\ m \in LongRange
  <2>1. book[trader].count \in Int /\ book[trader].pnl \in Int
    BY <1>1, MarketAssumption DEF Position, LongRange
  <2>2. t.price \in Int /\ t.quantity \in Int /\ Sign(type) \in Int
    BY MarketAssumption DEF Sign
  <2>3. Sign(type) * t.price * t.quantity \in Int /\ Sign(type) * t.quantity \in Int
    BY <2>2
  <2> QED BY <2>1, <2>3, LongInRange
<1>2. Confirm(book, trader, type, t)
        = [book EXCEPT ![trader] = [count |-> c, pnl |-> m]]
  BY DEF Confirm
<1> HIDE DEF c, m
<1>3. trader \in DOMAIN book => [count |-> c, pnl |-> m] \in Position
  BY <1>1 DEF Position
<1> QED BY <1>2, <1>3

\* A trade confirms two positions, which may be the same one.
LEMMA ConfirmBoth ==
  ASSUME NEW book, book \in [DOMAIN book -> Position],
         NEW buyer, NEW seller,
         NEW t \in [price : Prices, quantity : 1..LongMax]
  PROVE  LET both == Confirm(Confirm(book, buyer, "bid", t), seller, "ask", t)
         IN  DOMAIN both = DOMAIN book /\ both \in [DOMAIN book -> Position]
<1> DEFINE once == Confirm(book, buyer, "bid", t)
<1>1. "bid" \in OrderTypes /\ "ask" \in OrderTypes
  BY DEF OrderTypes
<1>2. DOMAIN once = DOMAIN book /\ once \in [DOMAIN book -> Position]
  BY <1>1, ConfirmType
<1> HIDE DEF once
<1>3. /\ DOMAIN Confirm(once, seller, "ask", t) = DOMAIN once
      /\ Confirm(once, seller, "ask", t) \in [DOMAIN once -> Position]
  BY <1>1, <1>2, ConfirmType
<1>4. /\ DOMAIN Confirm(once, seller, "ask", t) = DOMAIN book
      /\ Confirm(once, seller, "ask", t) \in [DOMAIN book -> Position]
  BY <1>2, <1>3
<1> QED BY <1>4 DEF once

\* The orders at the front of the books are open, and they cross.
LEMMA FrontOrders ==
  ASSUME TypeOK, BookIntegrity, NEW i, NEW j, BookFront(i, j)
  PROVE  /\ i \in DOMAIN orders /\ orders[i].type = "bid"
         /\ orders[i].price \in DOMAIN bids /\ i \in bids[orders[i].price]
         /\ j \in DOMAIN orders /\ orders[j].type = "ask"
         /\ orders[j].price \in DOMAIN asks /\ j \in asks[orders[j].price]
         /\ orders[j].price <= orders[i].price
         /\ i # j
<1>1. PICK b \in DOMAIN bids, a \in DOMAIN asks : a <= b /\ i \in bids[b] /\ j \in asks[a]
  BY DEF BookFront
<1>2. /\ i \in DOMAIN orders /\ orders[i].type = "bid" /\ orders[i].price = b
      /\ j \in DOMAIN orders /\ orders[j].type = "ask" /\ orders[j].price = a
  BY <1>1 DEF BookIntegrity, LevelsHoldOrders, Levels, OrderTypes
<1> QED BY <1>1, <1>2

\* The types hold at the start.
LEMMA TypeInit == Init => TypeOK
<1> SUFFICES ASSUME Init PROVE TypeOK
  OBVIOUS
<1>1. EmptyMap = [k \in {} |-> k] /\ DOMAIN EmptyMap = {}
  BY DEF EmptyMap
<1>2. \A S : EmptyMap \in [DOMAIN EmptyMap -> S]
  BY DEF EmptyMap
<1>3. NoTrade \in Trade
  BY MarketAssumption DEF NoTrade, Trade
<1>4. 0 \in 0..MaxOrders
  BY MarketAssumption
<1>5. [t \in Traders |-> {}] \in [Traders -> SUBSET (1..0)]
  OBVIOUS
<1> HIDE DEF EmptyMap
<1> QED BY <1>1, <1>2, <1>3, <1>4, <1>5 DEF Init, TypeOK

\* A new order of either type keeps the types of what both handlers change.
LEMMA NewOrderType ==
  ASSUME TypeOK, NEW trader \in Traders, NEW type \in OrderTypes,
         NEW price \in Prices, NEW quantity \in Quantities,
         NewOrder(trader, type, price, quantity)
  PROVE  /\ orderCount' \in 0..MaxOrders /\ orderCount' = orderCount + 1
         /\ traderOrders' \in [Traders -> SUBSET (1..orderCount')]
         /\ DOMAIN orders' \subseteq 1..orderCount'
         /\ orders' \in [DOMAIN orders' -> Order]
         /\ 1..orderCount \subseteq 1..orderCount'
<1>1. orderCount \in Nat /\ orderCount' = orderCount + 1 /\ orderCount' \in 0..MaxOrders
  BY MarketAssumption DEF TypeOK, NewOrder
<1>2. 1..orderCount \subseteq 1..orderCount' /\ orderCount' \in 1..orderCount'
  BY <1>1
<1> DEFINE o == [trader |-> trader, type |-> type, price |-> price, quantity |-> quantity]
<1>3. o \in Order
  BY MarketAssumption DEF Order
<1>4. orders' = [k \in DOMAIN orders \cup {orderCount'} |->
                   IF k = orderCount' THEN o ELSE orders[k]]
  BY <1>1 DEF NewOrder, Put
<1>5. DOMAIN orders' \subseteq 1..orderCount' /\ orders' \in [DOMAIN orders' -> Order]
  <2> HIDE DEF o
  <2> QED BY <1>2, <1>3, <1>4 DEF TypeOK
<1>6. traderOrders' \in [Traders -> SUBSET (1..orderCount')]
  BY <1>1, <1>2 DEF TypeOK, NewOrder
<1> QED BY <1>1, <1>2, <1>5, <1>6

\* Every step keeps the types; the loop's step needs to know that the orders
\* it trades are open, which is what BookIntegrity says of the books.
LEMMA TypeStep == TypeOK /\ BookIntegrity /\ [Next]_vars => TypeOK'
<1> SUFFICES ASSUME TypeOK, BookIntegrity, [Next]_vars PROVE TypeOK'
  OBVIOUS
<1>1. ASSUME NEW t \in Traders, RegisterAccount(t) PROVE TypeOK'
  <2>1. DOMAIN accounts' \subseteq Traders /\ accounts' \in [DOMAIN accounts' -> Position]
    <3>1. CASE t \in DOMAIN accounts
      BY <1>1, <3>1 DEF RegisterAccount, TypeOK
    <3>2. CASE t \notin DOMAIN accounts
      <4>1. accounts' = [k \in DOMAIN accounts \cup {t} |->
                           IF k = t THEN [count |-> 0, pnl |-> 0] ELSE accounts[k]]
        BY <1>1, <3>2 DEF RegisterAccount, Put
      <4>2. [count |-> 0, pnl |-> 0] \in Position
        BY MarketAssumption DEF Position, LongRange
      <4> QED BY <4>1, <4>2 DEF TypeOK
    <3> QED BY <3>1, <3>2
  <2> QED BY <1>1, <2>1 DEF RegisterAccount, TypeOK
<1>2. ASSUME NEW t \in Traders, NEW p \in Prices, NEW q \in Quantities, PlaceBid(t, p, q)
      PROVE  TypeOK'
  <2>1. NewOrder(t, "bid", p, q)
    BY <1>2 DEF PlaceBid
  <2>2. DOMAIN pricePoints' \subseteq Prices /\ pricePoints' \in [DOMAIN pricePoints' -> Depth]
    <3>1. q \in Int /\ 0 \in Int
      BY MarketAssumption
    <3>2. pricePoints' = AddDepth(pricePoints, p, q, 0)
      BY <1>2 DEF PlaceBid, AddBidDepth
    <3>3. pricePoints \in [DOMAIN pricePoints -> Depth] /\ DOMAIN pricePoints \subseteq Prices
      BY DEF TypeOK
    <3> QED BY <3>1, <3>2, <3>3, AddDepthType
  <2>3. DOMAIN bids' \subseteq Prices /\ bids' \in [DOMAIN bids' -> SUBSET (1..orderCount')]
    <3>1. bids \in [DOMAIN bids -> SUBSET (1..orderCount')] /\ orderCount + 1 \in 1..orderCount'
      BY <2>1, NewOrderType DEF TypeOK, OrderTypes
    <3>2. bids' = InsertId(bids, p, orderCount + 1)
      BY <1>2 DEF PlaceBid
    <3>3. DOMAIN bids \subseteq Prices
      BY DEF TypeOK
    <3> DEFINE S == 1..orderCount'
               id == orderCount + 1
    <3> HIDE DEF S, id
    <3>4. bids \in [DOMAIN bids -> SUBSET S] /\ id \in S
      BY <3>1 DEF S, id
    <3>5. /\ DOMAIN InsertId(bids, p, id) = DOMAIN bids \cup {p}
          /\ InsertId(bids, p, id) \in [DOMAIN bids \cup {p} -> SUBSET S]
      BY <3>4, InsertIdLevels
    <3>6. bids' = InsertId(bids, p, id)
      BY <3>2 DEF id
    <3>7. DOMAIN bids' \subseteq Prices /\ bids' \in [DOMAIN bids' -> SUBSET S]
      BY <3>3, <3>5, <3>6
    <3> QED BY <3>7 DEF S
  <2>4. DOMAIN asks' \subseteq Prices /\ asks' \in [DOMAIN asks' -> SUBSET (1..orderCount')]
    BY <1>2, <2>1, NewOrderType DEF PlaceBid, TypeOK, OrderTypes
  <2> QED BY <2>1, <2>2, <2>3, <2>4, NewOrderType DEF NewOrder, TypeOK, OrderTypes
<1>3. ASSUME NEW t \in Traders, NEW p \in Prices, NEW q \in Quantities, PlaceAsk(t, p, q)
      PROVE  TypeOK'
  <2>1. NewOrder(t, "ask", p, q)
    BY <1>3 DEF PlaceAsk
  <2>2. DOMAIN pricePoints' \subseteq Prices /\ pricePoints' \in [DOMAIN pricePoints' -> Depth]
    <3>1. q \in Int /\ 0 \in Int
      BY MarketAssumption
    <3>2. pricePoints' = AddDepth(pricePoints, p, 0, q)
      BY <1>3 DEF PlaceAsk, AddAskDepth
    <3>3. pricePoints \in [DOMAIN pricePoints -> Depth] /\ DOMAIN pricePoints \subseteq Prices
      BY DEF TypeOK
    <3> QED BY <3>1, <3>2, <3>3, AddDepthType
  <2>3. DOMAIN asks' \subseteq Prices /\ asks' \in [DOMAIN asks' -> SUBSET (1..orderCount')]
    <3>1. asks \in [DOMAIN asks -> SUBSET (1..orderCount')] /\ orderCount + 1 \in 1..orderCount'
      BY <2>1, NewOrderType DEF TypeOK, OrderTypes
    <3>2. asks' = InsertId(asks, p, orderCount + 1)
      BY <1>3 DEF PlaceAsk
    <3>3. DOMAIN asks \subseteq Prices
      BY DEF TypeOK
    <3> DEFINE S == 1..orderCount'
               id == orderCount + 1
    <3> HIDE DEF S, id
    <3>4. asks \in [DOMAIN asks -> SUBSET S] /\ id \in S
      BY <3>1 DEF S, id
    <3>5. /\ DOMAIN InsertId(asks, p, id) = DOMAIN asks \cup {p}
          /\ InsertId(asks, p, id) \in [DOMAIN asks \cup {p} -> SUBSET S]
      BY <3>4, InsertIdLevels
    <3>6. asks' = InsertId(asks, p, id)
      BY <3>2 DEF id
    <3>7. DOMAIN asks' \subseteq Prices /\ asks' \in [DOMAIN asks' -> SUBSET S]
      BY <3>3, <3>5, <3>6
    <3> QED BY <3>7 DEF S
  <2>4. DOMAIN bids' \subseteq Prices /\ bids' \in [DOMAIN bids' -> SUBSET (1..orderCount')]
    BY <1>3, <2>1, NewOrderType DEF PlaceAsk, TypeOK, OrderTypes
  <2> QED BY <2>1, <2>2, <2>3, <2>4, NewOrderType DEF NewOrder, TypeOK, OrderTypes
<1>4. ASSUME NEW t \in Traders, NEW id \in DOMAIN orders, CancelOrder(t, id)
      PROVE  TypeOK'
  <2>1. orders[id] \in Order /\ orders[id].price \in Prices /\ -orders[id].quantity \in Int
    BY MarketAssumption DEF TypeOK, Order
  <2>2. DOMAIN pricePoints' \subseteq Prices /\ pricePoints' \in [DOMAIN pricePoints' -> Depth]
    <3>1. \E d, e \in Int : pricePoints' = AddDepth(pricePoints, orders[id].price, d, e)
      BY <1>4, <2>1 DEF CancelOrder, AddBidDepth, AddAskDepth
    <3>2. pricePoints \in [DOMAIN pricePoints -> Depth] /\ DOMAIN pricePoints \subseteq Prices
      BY DEF TypeOK
    <3> QED BY <2>1, <3>1, <3>2, AddDepthType
  <2>3. orders[id].price \in DOMAIN Levels(orders[id].type)
    BY DEF BookIntegrity, OrdersFiled
  <2>4. DOMAIN bids' \subseteq Prices /\ bids' \in [DOMAIN bids' -> SUBSET (1..orderCount)]
    <3>1. \/ bids' = bids
          \/ \E p \in DOMAIN bids : bids' = EraseId(bids, p, id)
      BY <1>4, <2>3 DEF CancelOrder, Levels, TypeOK, Order, OrderTypes
    <3> DEFINE S == 1..orderCount
    <3> HIDE DEF S
    <3>2. bids \in [DOMAIN bids -> SUBSET S] /\ DOMAIN bids \subseteq Prices
      BY DEF S, TypeOK
    <3>3. DOMAIN bids' \subseteq Prices /\ bids' \in [DOMAIN bids' -> SUBSET S]
      BY <3>1, <3>2, EraseIdType
    <3> QED BY <3>3 DEF S
  <2>5. DOMAIN asks' \subseteq Prices /\ asks' \in [DOMAIN asks' -> SUBSET (1..orderCount)]
    <3>1. \/ asks' = asks
          \/ \E p \in DOMAIN asks : asks' = EraseId(asks, p, id)
      BY <1>4, <2>3 DEF CancelOrder, Levels, TypeOK, Order, OrderTypes
    <3> DEFINE S == 1..orderCount
    <3> HIDE DEF S
    <3>2. asks \in [DOMAIN asks -> SUBSET S] /\ DOMAIN asks \subseteq Prices
      BY DEF S, TypeOK
    <3>3. DOMAIN asks' \subseteq Prices /\ asks' \in [DOMAIN asks' -> SUBSET S]
      BY <3>1, <3>2, EraseIdType
    <3> QED BY <3>3 DEF S
  <2>6. DOMAIN orders' \subseteq 1..orderCount /\ orders' \in [DOMAIN orders' -> Order]
    BY <1>4 DEF CancelOrder, Drop, Restrict, TypeOK
  <2>7. traderOrders' \in [Traders -> SUBSET (1..orderCount)]
    BY <1>4 DEF CancelOrder, TypeOK
  <2> QED BY <1>4, <2>2, <2>4, <2>5, <2>6, <2>7 DEF CancelOrder, TypeOK
<1>5. ASSUME ExecuteTrade PROVE TypeOK'
  <2> PICK i \in DOMAIN orders, j \in DOMAIN orders :
        LET t == Match(i, j)
            done == Filled(i, j, t.quantity)
        IN
        /\ BookFront(i, j)
        /\ lastTrade' = t
        /\ accounts' = Confirm(Confirm(accounts, orders[i].trader, "bid", t),
                               orders[j].trader, "ask", t)
        /\ pricePoints' = AddAskDepth(
                            AddBidDepth(pricePoints, orders[i].price, -t.quantity),
                            orders[j].price, -t.quantity)
        /\ orders' = [k \in DOMAIN orders \ done |->
                        IF k \in {i, j}
                          THEN [orders[k] EXCEPT !.quantity = @ - t.quantity]
                          ELSE orders[k]]
        /\ traderOrders' = [traderOrders EXCEPT
                              ![orders[i].trader] = @ \ (done \cap {i}),
                              ![orders[j].trader] = @ \ (done \cap {j})]
        /\ bids' = IF i \in done THEN EraseId(bids, orders[i].price, i) ELSE bids
        /\ asks' = IF j \in done THEN EraseId(asks, orders[j].price, j) ELSE asks
    BY <1>5 DEF ExecuteTrade
  <2> DEFINE t == Match(i, j)
             done == Filled(i, j, t.quantity)
  <2>1. t \in [price : Prices, quantity : 1..LongMax]
    BY MatchType
  <2>2. orders[i] \in Order /\ orders[j] \in Order
    BY DEF TypeOK
  <2>3. lastTrade' \in Trade
    BY <2>1 DEF Trade
  <2>4. DOMAIN accounts' = DOMAIN accounts /\ accounts' \in [DOMAIN accounts -> Position]
    <3>1. accounts \in [DOMAIN accounts -> Position]
      BY DEF TypeOK
    <3>2. accounts' = Confirm(Confirm(accounts, orders[i].trader, "bid", t),
                              orders[j].trader, "ask", t)
      OBVIOUS
    <3> HIDE DEF t
    <3> QED BY <2>1, <3>1, <3>2, ConfirmBoth
  <2>5. DOMAIN pricePoints' \subseteq Prices /\ pricePoints' \in [DOMAIN pricePoints' -> Depth]
    <3> DEFINE once == AddBidDepth(pricePoints, orders[i].price, -t.quantity)
    <3>1. -t.quantity \in Int /\ orders[i].price \in Prices /\ orders[j].price \in Prices
      BY <2>1, <2>2, MarketAssumption DEF Order
    <3>2. DOMAIN once \subseteq Prices /\ once \in [DOMAIN once -> Depth]
      BY <3>1, AddDepthType DEF AddBidDepth, TypeOK
    <3>3. pricePoints' = AddAskDepth(once, orders[j].price, -t.quantity)
      OBVIOUS
    <3> HIDE DEF once, t
    <3>4. \E d, e \in Int : pricePoints' = AddDepth(once, orders[j].price, d, e)
      BY <3>1, <3>3 DEF AddAskDepth
    <3> QED BY <3>1, <3>2, <3>4, AddDepthType
  <2>6. DOMAIN orders' \subseteq 1..orderCount /\ orders' \in [DOMAIN orders' -> Order]
    <3>1. DOMAIN orders' = DOMAIN orders \ done
      OBVIOUS
    <3>2. ASSUME NEW k \in DOMAIN orders', k \in {i, j}
          PROVE  orders'[k] \in Order
      <4>1. k \in DOMAIN orders /\ orders[k].quantity # t.quantity
        BY <3>1, <3>2 DEF Filled
      <4>2. orders[k].quantity - t.quantity \in 1..LongMax
        BY <2>1, <2>2, <3>2, <4>1, MatchType, MarketAssumption DEF Order
      <4>3. orders'[k] = [orders[k] EXCEPT !.quantity = @ - t.quantity]
        BY <3>2
      <4> HIDE DEF t
      <4> QED BY <4>1, <4>2, <4>3 DEF Order, TypeOK
    <3>3. ASSUME NEW k \in DOMAIN orders', k \notin {i, j}
          PROVE  orders'[k] \in Order
      BY <3>3 DEF TypeOK
    <3>4. orders' = [k \in DOMAIN orders' |-> orders'[k]]
      OBVIOUS
    <3> QED BY <3>1, <3>2, <3>3, <3>4 DEF TypeOK
  <2>7. traderOrders' \in [Traders -> SUBSET (1..orderCount)]
    BY <2>2 DEF TypeOK
  <2>8. DOMAIN bids' \subseteq Prices /\ bids' \in [DOMAIN bids' -> SUBSET (1..orderCount)]
    <3>1. \/ bids' = bids
          \/ \E p \in DOMAIN bids : bids' = EraseId(bids, p, i)
      BY FrontOrders
    <3> DEFINE S == 1..orderCount
    <3> HIDE DEF S
    <3>2. bids \in [DOMAIN bids -> SUBSET S] /\ DOMAIN bids \subseteq Prices
      BY DEF S, TypeOK
    <3>3. DOMAIN bids' \subseteq Prices /\ bids' \in [DOMAIN bids' -> SUBSET S]
      BY <3>1, <3>2, EraseIdType
    <3> QED BY <3>3 DEF S
  <2>9. DOMAIN asks' \subseteq Prices /\ asks' \in [DOMAIN asks' -> SUBSET (1..orderCount)]
    <3>1. \/ asks' = asks
          \/ \E p \in DOMAIN asks : asks' = EraseId(asks, p, j)
      BY FrontOrders
    <3> DEFINE S == 1..orderCount
    <3> HIDE DEF S
    <3>2. asks \in [DOMAIN asks -> SUBSET S] /\ DOMAIN asks \subseteq Prices
      BY DEF S, TypeOK
    <3>3. DOMAIN asks' \subseteq Prices /\ asks' \in [DOMAIN asks' -> SUBSET S]
      BY <3>1, <3>2, EraseIdType
    <3> QED BY <3>3 DEF S
  <2>10. orderCount' = orderCount /\ matching' = matching
    BY <1>5 DEF ExecuteTrade
  <2> QED BY <2>3, <2>4, <2>5, <2>6, <2>7, <2>8, <2>9, <2>10 DEF TypeOK
<1>6. ASSUME EndMatching PROVE TypeOK'
  BY <1>6 DEF EndMatching, TypeOK
<1>7. ASSUME UNCHANGED vars PROVE TypeOK'
  BY <1>7 DEF vars, TypeOK
<1> QED BY <1>1, <1>2, <1>3, <1>4, <1>5, <1>6, <1>7 DEF Next

-----------------------------------------------------------------------------
(* The four containers agree. *)

\* A side of the book loses exactly the ids in gone, and levels left empty.
ShrinksTo(levels, less, gone) ==
  /\ DOMAIN less \subseteq DOMAIN levels
  /\ \A p \in DOMAIN less : less[p] = levels[p] \ gone /\ less[p] # {}
  /\ \A p \in DOMAIN levels : p \notin DOMAIN less => levels[p] \subseteq gone

\* Erasing the only gone id of a side is such a loss.
LEMMA EraseShrinks ==
  ASSUME NEW levels, NEW S, levels \in [DOMAIN levels -> SUBSET S],
         \A p \in DOMAIN levels : levels[p] # {},
         NEW price \in DOMAIN levels, NEW gone, NEW id \in gone,
         id \in levels[price],
         \A p \in DOMAIN levels : \A k \in levels[p] :
           k \in gone => k = id /\ p = price
  PROVE  ShrinksTo(levels, EraseId(levels, price, id), gone)
<1> DEFINE less == EraseId(levels, price, id)
<1>1. /\ DOMAIN less \subseteq DOMAIN levels
      /\ \A p \in DOMAIN less : less[p] = levels[p] \ (IF p = price THEN {id} ELSE {})
      /\ \A p \in DOMAIN levels : p \notin DOMAIN less <=> p = price /\ levels[p] = {id}
  BY EraseIdLevels
<1> HIDE DEF less
<1>2. \A p \in DOMAIN less : less[p] = levels[p] \ gone
  BY <1>1
<1>3. \A p \in DOMAIN less : less[p] # {}
  BY <1>1
<1> QED BY <1>1, <1>2, <1>3 DEF ShrinksTo, less

\* So is leaving a side alone that holds no gone id.
LEMMA KeepShrinks ==
  ASSUME NEW levels, NEW S, levels \in [DOMAIN levels -> SUBSET S],
         \A p \in DOMAIN levels : levels[p] # {}, NEW gone,
         \A p \in DOMAIN levels : \A k \in levels[p] : k \notin gone
  PROVE  ShrinksTo(levels, levels, gone)
BY DEF ShrinksTo

\* The containers still agree when each of them loses the same orders.
LEMMA ShrinkIntegrity ==
  ASSUME TypeOK, BookIntegrity, NEW gone,
         DOMAIN accounts' = DOMAIN accounts,
         DOMAIN orders' = DOMAIN orders \ gone,
         \A k \in DOMAIN orders' : /\ orders'[k].trader = orders[k].trader
                                   /\ orders'[k].type = orders[k].type
                                   /\ orders'[k].price = orders[k].price,
         \A t \in Traders : traderOrders'[t] = traderOrders[t] \ gone,
         ShrinksTo(bids, bids', gone), ShrinksTo(asks, asks', gone)
  PROVE  BookIntegrity'
<1>1. OrdersFiled'
  <2> SUFFICES ASSUME NEW id \in DOMAIN orders'
               PROVE  /\ orders'[id].trader \in DOMAIN accounts'
                      /\ id \in traderOrders'[orders'[id].trader]
                      /\ orders'[id].type = "bid" =>
                           /\ orders'[id].price \in DOMAIN bids'
                           /\ id \in bids'[orders'[id].price]
                      /\ orders'[id].type # "bid" =>
                           /\ orders'[id].price \in DOMAIN asks'
                           /\ id \in asks'[orders'[id].price]
    BY DEF OrdersFiled, Levels
  <2>1. id \in DOMAIN orders /\ id \notin gone /\ orders[id] \in Order
    BY DEF TypeOK
  <2>2. orders'[id].trader \in DOMAIN accounts' /\ id \in traderOrders'[orders'[id].trader]
    BY <2>1 DEF BookIntegrity, OrdersFiled, Order
  <2>3. CASE orders[id].type = "bid"
    BY <2>1, <2>2, <2>3 DEF BookIntegrity, OrdersFiled, Levels, ShrinksTo
  <2>4. CASE orders[id].type = "ask"
    BY <2>1, <2>2, <2>4 DEF BookIntegrity, OrdersFiled, Levels, ShrinksTo
  <2> QED BY <2>1, <2>3, <2>4 DEF Order, OrderTypes
<1>2. LevelsHoldOrders'
  <2>1. \A p \in DOMAIN bids' : bids'[p] # {} /\ \A id \in bids'[p] :
          id \in DOMAIN orders' /\ orders'[id].type = "bid" /\ orders'[id].price = p
    BY DEF BookIntegrity, LevelsHoldOrders, Levels, OrderTypes, ShrinksTo
  <2>2. \A p \in DOMAIN asks' : asks'[p] # {} /\ \A id \in asks'[p] :
          id \in DOMAIN orders' /\ orders'[id].type = "ask" /\ orders'[id].price = p
    BY DEF BookIntegrity, LevelsHoldOrders, Levels, OrderTypes, ShrinksTo
  <2> QED BY <2>1, <2>2 DEF LevelsHoldOrders, Levels, OrderTypes
<1>3. ListsHoldOrders'
  BY DEF BookIntegrity, ListsHoldOrders
<1> QED BY <1>1, <1>2, <1>3 DEF BookIntegrity

\* The containers agree on a new order, which none of them named before.
LEMMA NewOrderIntegrity ==
  ASSUME TypeOK, BookIntegrity, NEW trader \in Traders, NEW type \in OrderTypes,
         NEW price \in Prices, NEW quantity \in Quantities,
         NewOrder(trader, type, price, quantity),
         bids' = IF type = "bid" THEN InsertId(bids, price, orderCount + 1) ELSE bids,
         asks' = IF type = "ask" THEN InsertId(asks, price, orderCount + 1) ELSE asks
  PROVE  BookIntegrity'
<1> DEFINE n == orderCount + 1
           o == [trader |-> trader, type |-> type, price |-> price, quantity |-> quantity]
<1>1. n \notin 1..orderCount /\ n \in Nat
  BY MarketAssumption DEF TypeOK
<1>2. /\ trader \in DOMAIN accounts /\ accounts' = accounts
      /\ traderOrders' = [traderOrders EXCEPT ![trader] = @ \cup {n}]
      /\ orders' = [k \in DOMAIN orders \cup {n} |-> IF k = n THEN o ELSE orders[k]]
  BY DEF NewOrder, Put
<1>3. ASSUME type = "bid"
      PROVE  /\ DOMAIN bids' = DOMAIN bids \cup {price}
             /\ \A p \in DOMAIN bids' :
                  bids'[p] = (IF p \in DOMAIN bids THEN bids[p] ELSE {})
                             \cup (IF p = price THEN {n} ELSE {})
  BY <1>3 DEF InsertId, Put
<1>4. ASSUME type = "ask"
      PROVE  /\ DOMAIN asks' = DOMAIN asks \cup {price}
             /\ \A p \in DOMAIN asks' :
                  asks'[p] = (IF p \in DOMAIN asks THEN asks[p] ELSE {})
                             \cup (IF p = price THEN {n} ELSE {})
  BY <1>4 DEF InsertId, Put
<1>5. /\ type = "bid" => asks' = asks
      /\ type = "ask" => bids' = bids
  OBVIOUS
<1>6. /\ n \notin DOMAIN orders
      /\ \A k \in DOMAIN orders : k # n /\ orders'[k] = orders[k]
      /\ n \in DOMAIN orders' /\ orders'[n] = o
      /\ DOMAIN orders' = DOMAIN orders \cup {n}
  BY <1>1, <1>2 DEF TypeOK
<1> HIDE DEF n
<1>7. OrdersFiled'
  <2> SUFFICES ASSUME NEW id \in DOMAIN orders'
               PROVE  /\ orders'[id].trader \in DOMAIN accounts'
                      /\ id \in traderOrders'[orders'[id].trader]
                      /\ orders'[id].type = "bid" =>
                           /\ orders'[id].price \in DOMAIN bids'
                           /\ id \in bids'[orders'[id].price]
                      /\ orders'[id].type # "bid" =>
                           /\ orders'[id].price \in DOMAIN asks'
                           /\ id \in asks'[orders'[id].price]
    BY DEF OrdersFiled, Levels
  <2>1. traderOrders \in [Traders -> SUBSET (1..orderCount)]
    BY DEF TypeOK
  <2>2. CASE id = n
    BY <1>2, <1>3, <1>4, <1>6, <2>1, <2>2 DEF Levels, OrderTypes
  <2>3. CASE id # n
    <3>1. id \in DOMAIN orders /\ orders'[id] = orders[id] /\ orders[id] \in Order
      BY <1>6, <2>3 DEF TypeOK
    <3>2. orders'[id].trader \in DOMAIN accounts' /\ id \in traderOrders'[orders'[id].trader]
      BY <1>2, <2>1, <3>1 DEF BookIntegrity, OrdersFiled, Order
    <3>3. CASE orders[id].type = "bid"
      BY <1>3, <1>5, <3>1, <3>2, <3>3 DEF BookIntegrity, OrdersFiled, Levels, OrderTypes
    <3>4. CASE orders[id].type = "ask"
      BY <1>4, <1>5, <3>1, <3>2, <3>4 DEF BookIntegrity, OrdersFiled, Levels, OrderTypes
    <3> QED BY <3>1, <3>3, <3>4 DEF Order, OrderTypes
  <2> QED BY <2>2, <2>3
<1>8. LevelsHoldOrders'
  <2>1. \A p \in DOMAIN bids' : bids'[p] # {} /\ \A id \in bids'[p] :
          id \in DOMAIN orders' /\ orders'[id].type = "bid" /\ orders'[id].price = p
    BY <1>3, <1>5, <1>6 DEF BookIntegrity, LevelsHoldOrders, Levels, OrderTypes
  <2>2. \A p \in DOMAIN asks' : asks'[p] # {} /\ \A id \in asks'[p] :
          id \in DOMAIN orders' /\ orders'[id].type = "ask" /\ orders'[id].price = p
    BY <1>4, <1>5, <1>6 DEF BookIntegrity, LevelsHoldOrders, Levels, OrderTypes
  <2> QED BY <2>1, <2>2 DEF LevelsHoldOrders, Levels, OrderTypes
<1>9. ListsHoldOrders'
  <2>1. traderOrders \in [Traders -> SUBSET (1..orderCount)]
    BY DEF TypeOK
  <2> QED BY <1>2, <1>6, <2>1 DEF BookIntegrity, ListsHoldOrders
<1> QED BY <1>7, <1>8, <1>9 DEF BookIntegrity

\* The containers agree at the start, where all of them are empty.
LEMMA IntegrityInit == Init => BookIntegrity
BY DEF Init, BookIntegrity, OrdersFiled, LevelsHoldOrders, ListsHoldOrders,
       Levels, EmptyMap

\* What one iteration of the loop does, with its two orders named.
Trades(i, j) ==
  LET t    == Match(i, j)
      done == Filled(i, j, t.quantity)
  IN
  /\ BookFront(i, j)
  /\ lastTrade' = t
  /\ DOMAIN accounts' = DOMAIN accounts
  /\ orders' = [k \in DOMAIN orders \ done |->
                  IF k \in {i, j}
                    THEN [orders[k] EXCEPT !.quantity = @ - t.quantity]
                    ELSE orders[k]]
  /\ traderOrders' = [traderOrders EXCEPT
                        ![orders[i].trader] = @ \ (done \cap {i}),
                        ![orders[j].trader] = @ \ (done \cap {j})]
  /\ bids' = IF i \in done THEN EraseId(bids, orders[i].price, i) ELSE bids
  /\ asks' = IF j \in done THEN EraseId(asks, orders[j].price, j) ELSE asks
  /\ UNCHANGED <<orderCount, matching>>

\* An iteration trades two open orders.
LEMMA ExecuteTrades ==
  ASSUME TypeOK, ExecuteTrade
  PROVE  matching /\ \E i \in DOMAIN orders, j \in DOMAIN orders : Trades(i, j)
<1>1. \A i, j : \A t :
        DOMAIN Confirm(Confirm(accounts, i, "bid", t), j, "ask", t) = DOMAIN accounts
  BY DEF Confirm
<1>2. PICK i \in DOMAIN orders, j \in DOMAIN orders :
        LET t == Match(i, j)
            done == Filled(i, j, t.quantity)
        IN
        /\ BookFront(i, j)
        /\ lastTrade' = t
        /\ accounts' = Confirm(Confirm(accounts, orders[i].trader, "bid", t),
                               orders[j].trader, "ask", t)
        /\ orders' = [k \in DOMAIN orders \ done |->
                        IF k \in {i, j}
                          THEN [orders[k] EXCEPT !.quantity = @ - t.quantity]
                          ELSE orders[k]]
        /\ traderOrders' = [traderOrders EXCEPT
                              ![orders[i].trader] = @ \ (done \cap {i}),
                              ![orders[j].trader] = @ \ (done \cap {j})]
        /\ bids' = IF i \in done THEN EraseId(bids, orders[i].price, i) ELSE bids
        /\ asks' = IF j \in done THEN EraseId(asks, orders[j].price, j) ELSE asks
  BY DEF ExecuteTrade
<1>3. matching /\ UNCHANGED <<orderCount, matching>>
  BY DEF ExecuteTrade
<1>4. DOMAIN accounts' = DOMAIN accounts
  BY <1>1, <1>2
<1>5. Trades(i, j)
  BY <1>2, <1>3, <1>4 DEF Trades
<1> QED BY <1>3, <1>5

\* Every step keeps the agreement.
LEMMA IntegrityStep == TypeOK /\ BookIntegrity /\ [Next]_vars => BookIntegrity'
<1> SUFFICES ASSUME TypeOK, BookIntegrity, [Next]_vars PROVE BookIntegrity'
  OBVIOUS
<1> DEFINE S == 1..orderCount
<1>a. /\ bids \in [DOMAIN bids -> SUBSET S] /\ \A p \in DOMAIN bids : bids[p] # {}
      /\ asks \in [DOMAIN asks -> SUBSET S] /\ \A p \in DOMAIN asks : asks[p] # {}
  BY DEF TypeOK, BookIntegrity, LevelsHoldOrders, Levels, OrderTypes
<1>b. /\ \A p \in DOMAIN bids : \A k \in bids[p] :
           k \in DOMAIN orders /\ orders[k].type = "bid" /\ orders[k].price = p
      /\ \A p \in DOMAIN asks : \A k \in asks[p] :
           k \in DOMAIN orders /\ orders[k].type = "ask" /\ orders[k].price = p
  BY DEF BookIntegrity, LevelsHoldOrders, Levels, OrderTypes
<1> HIDE DEF S
<1>1. ASSUME NEW t \in Traders, RegisterAccount(t) PROVE BookIntegrity'
  <2>1. DOMAIN accounts \subseteq DOMAIN accounts'
    BY <1>1 DEF RegisterAccount, Put
  <2> QED BY <1>1, <2>1 DEF RegisterAccount, BookIntegrity, OrdersFiled,
             LevelsHoldOrders, ListsHoldOrders, Levels
<1>2. ASSUME NEW t \in Traders, NEW p \in Prices, NEW q \in Quantities, PlaceBid(t, p, q)
      PROVE  BookIntegrity'
  BY <1>2, NewOrderIntegrity DEF PlaceBid, OrderTypes
<1>3. ASSUME NEW t \in Traders, NEW p \in Prices, NEW q \in Quantities, PlaceAsk(t, p, q)
      PROVE  BookIntegrity'
  BY <1>3, NewOrderIntegrity DEF PlaceAsk, OrderTypes
<1>4. ASSUME NEW t \in Traders, NEW id \in DOMAIN orders, CancelOrder(t, id)
      PROVE  BookIntegrity'
  <2> DEFINE gone == {id}
  <2>1. orders' = [k \in DOMAIN orders \ {id} |-> orders[k]]
    BY <1>4 DEF CancelOrder, Drop, Restrict
  <2>2. orders[id].trader = t /\ orders[id].type \in OrderTypes
    BY <1>4 DEF CancelOrder, TypeOK, Order
  <2>3. \A u \in Traders : traderOrders'[u] = traderOrders[u] \ gone
    <3>1. \A u \in Traders : u # t => id \notin traderOrders[u]
      BY <2>2 DEF BookIntegrity, ListsHoldOrders
    <3>2. traderOrders' = [traderOrders EXCEPT ![t] = @ \ {id}]
      BY <1>4 DEF CancelOrder
    <3> QED BY <3>1, <3>2 DEF TypeOK
  <2>4. ShrinksTo(bids, bids', gone)
    <3>1. CASE orders[id].type = "bid"
      <4>0. \A p \in DOMAIN bids : \A k \in bids[p] :
              k \in gone => k = id /\ p = orders[id].price
        BY <1>b
      <4>1. bids' = EraseId(bids, orders[id].price, id)
        BY <1>4, <3>1 DEF CancelOrder
      <4>2. orders[id].price \in DOMAIN bids /\ id \in bids[orders[id].price]
        BY <3>1 DEF BookIntegrity, OrdersFiled, Levels
      <4>3. id \in gone
        OBVIOUS
      <4> HIDE DEF gone
      <4> QED BY <1>a, <4>0, <4>1, <4>2, <4>3, EraseShrinks
    <3>2. CASE orders[id].type # "bid"
      <4>1. bids' = bids
        BY <1>4, <3>2 DEF CancelOrder
      <4>2. \A p \in DOMAIN bids : \A k \in bids[p] : k \notin gone
        BY <1>b, <3>2
      <4> QED BY <1>a, <4>1, <4>2, KeepShrinks
    <3> QED BY <3>1, <3>2
  <2>5. ShrinksTo(asks, asks', gone)
    <3>1. CASE orders[id].type = "ask"
      <4>0. \A p \in DOMAIN asks : \A k \in asks[p] :
              k \in gone => k = id /\ p = orders[id].price
        BY <1>b
      <4>1. asks' = EraseId(asks, orders[id].price, id)
        BY <1>4, <3>1 DEF CancelOrder
      <4>2. orders[id].price \in DOMAIN asks /\ id \in asks[orders[id].price]
        BY <3>1 DEF BookIntegrity, OrdersFiled, Levels
      <4>3. id \in gone
        OBVIOUS
      <4> HIDE DEF gone
      <4> QED BY <1>a, <4>0, <4>1, <4>2, <4>3, EraseShrinks
    <3>2. CASE orders[id].type # "ask"
      <4>1. asks' = asks
        BY <1>4, <2>2, <3>2 DEF CancelOrder, OrderTypes
      <4>2. \A p \in DOMAIN asks : \A k \in asks[p] : k \notin gone
        BY <1>b, <3>2
      <4> QED BY <1>a, <4>1, <4>2, KeepShrinks
    <3> QED BY <3>1, <3>2
  <2>6. accounts' = accounts
    BY <1>4 DEF CancelOrder
  <2> HIDE DEF gone
  <2>7. DOMAIN orders' = DOMAIN orders \ gone /\ \A k \in DOMAIN orders' : orders'[k] = orders[k]
    BY <2>1 DEF gone
  <2> QED BY <2>3, <2>4, <2>5, <2>6, <2>7, ShrinkIntegrity
<1>5. ASSUME ExecuteTrade PROVE BookIntegrity'
  <2> PICK i \in DOMAIN orders, j \in DOMAIN orders : Trades(i, j)
    BY <1>5, ExecuteTrades
  <2> DEFINE t == Match(i, j)
             gone == Filled(i, j, t.quantity)
  <2>1. /\ orders[i].type = "bid" /\ orders[j].type = "ask" /\ i # j
        /\ orders[i].price \in DOMAIN bids /\ i \in bids[orders[i].price]
        /\ orders[j].price \in DOMAIN asks /\ j \in asks[orders[j].price]
    BY FrontOrders DEF Trades
  <2>2. gone \subseteq {i, j}
    BY DEF Filled
  <2>3. /\ orders' = [k \in DOMAIN orders \ gone |->
                        IF k \in {i, j}
                          THEN [orders[k] EXCEPT !.quantity = @ - t.quantity]
                          ELSE orders[k]]
        /\ traderOrders' = [traderOrders EXCEPT
                              ![orders[i].trader] = @ \ (gone \cap {i}),
                              ![orders[j].trader] = @ \ (gone \cap {j})]
        /\ bids' = IF i \in gone THEN EraseId(bids, orders[i].price, i) ELSE bids
        /\ asks' = IF j \in gone THEN EraseId(asks, orders[j].price, j) ELSE asks
        /\ DOMAIN accounts' = DOMAIN accounts
    BY DEF Trades
  <2> HIDE DEF t, gone
  <2>4. \A k \in DOMAIN orders' : /\ orders'[k].trader = orders[k].trader
                                  /\ orders'[k].type = orders[k].type
                                  /\ orders'[k].price = orders[k].price
    <3>1. \A k \in DOMAIN orders : orders[k] \in Order
      BY DEF TypeOK
    <3> QED BY <2>3, <3>1 DEF Order
  <2>5. \A u \in Traders : traderOrders'[u] = traderOrders[u] \ gone
    <3>1. \A u \in Traders : /\ i \in traderOrders[u] => u = orders[i].trader
                             /\ j \in traderOrders[u] => u = orders[j].trader
      BY DEF BookIntegrity, ListsHoldOrders
    <3>2. traderOrders \in [Traders -> SUBSET (1..orderCount)]
      BY DEF TypeOK
    <3>3. \A u \in Traders : traderOrders'[u] =
            (traderOrders[u] \ (IF u = orders[i].trader THEN gone \cap {i} ELSE {}))
              \ (IF u = orders[j].trader THEN gone \cap {j} ELSE {})
      BY <2>3, <3>2
    <3> QED BY <2>2, <3>1, <3>3
  <2>6. ShrinksTo(bids, bids', gone)
    <3>1. CASE i \in gone
      <4>1. \A p \in DOMAIN bids : \A k \in bids[p] :
              k \in gone => k = i /\ p = orders[i].price
        BY <1>b, <2>1, <2>2
      <4> QED BY <1>a, <2>1, <2>3, <3>1, <4>1, EraseShrinks
    <3>2. CASE i \notin gone
      <4>1. \A p \in DOMAIN bids : \A k \in bids[p] : k \notin gone
        BY <1>b, <2>1, <2>2, <3>2
      <4> QED BY <1>a, <2>3, <3>2, <4>1, KeepShrinks
    <3> QED BY <3>1, <3>2
  <2>7. ShrinksTo(asks, asks', gone)
    <3>1. CASE j \in gone
      <4>1. \A p \in DOMAIN asks : \A k \in asks[p] :
              k \in gone => k = j /\ p = orders[j].price
        BY <1>b, <2>1, <2>2
      <4> QED BY <1>a, <2>1, <2>3, <3>1, <4>1, EraseShrinks
    <3>2. CASE j \notin gone
      <4>1. \A p \in DOMAIN asks : \A k \in asks[p] : k \notin gone
        BY <1>b, <2>1, <2>2, <3>2
      <4> QED BY <1>a, <2>3, <3>2, <4>1, KeepShrinks
    <3> QED BY <3>1, <3>2
  <2> QED BY <2>3, <2>4, <2>5, <2>6, <2>7, ShrinkIntegrity
<1>6. ASSUME EndMatching PROVE BookIntegrity'
  BY <1>6 DEF EndMatching, BookIntegrity, OrdersFiled, LevelsHoldOrders,
              ListsHoldOrders, Levels
<1>7. ASSUME UNCHANGED vars PROVE BookIntegrity'
  BY <1>7 DEF vars, BookIntegrity, OrdersFiled, LevelsHoldOrders,
              ListsHoldOrders, Levels
<1> QED BY <1>1, <1>2, <1>3, <1>4, <1>5, <1>6, <1>7 DEF Next

\* Types and agreement are one inductive invariant: the loop's step has a
\* type only because the books name open orders.
BookInv == TypeOK /\ BookIntegrity

\* Types and the agreement of the containers hold in every reachable state.
LEMMA BookInvariant == Spec => []BookInv
<1>1. Init => BookInv
  BY TypeInit, IntegrityInit DEF BookInv
<1>2. BookInv /\ [Next]_vars => BookInv'
  BY TypeStep, IntegrityStep DEF BookInv
<1> QED BY <1>1, <1>2, PTL DEF Spec

\* Totals, positions and quantities stay in their types for every width of
\* long and every set of prices and quantities that it holds.
THEOREM TypeCorrect == Spec => []TypeOK
<1>1. BookInv => TypeOK
  BY DEF BookInv
<1> QED BY <1>1, BookInvariant, PTL

\* The four containers that name an order agree in every state.
THEOREM BookAgrees == Spec => []BookIntegrity
<1>1. BookInv => BookIntegrity
  BY DEF BookInv
<1> QED BY <1>1, BookInvariant, PTL

-----------------------------------------------------------------------------
(* No crossed book. *)

\* No order crosses at the start, where there is none.
LEMMA CrossInit == Init => OnlyNewestCrosses
BY DEF Init, OnlyNewestCrosses, EmptyMap

\* At rest the next order is the only one that may cross, and the loop ends
\* only where no bid meets an ask.
LEMMA CrossStep == BookInv /\ OnlyNewestCrosses /\ [Next]_vars => OnlyNewestCrosses'
<1> SUFFICES ASSUME TypeOK, BookIntegrity, OnlyNewestCrosses, [Next]_vars
             PROVE  OnlyNewestCrosses'
  BY DEF BookInv
<1>1. ASSUME NEW t \in Traders, RegisterAccount(t) PROVE OnlyNewestCrosses'
  BY <1>1 DEF RegisterAccount, OnlyNewestCrosses
<1>2. ASSUME NEW t \in Traders, NEW type \in OrderTypes,
             NEW p \in Prices, NEW q \in Quantities, NewOrder(t, type, p, q)
      PROVE  OnlyNewestCrosses'
  <2>1. /\ ~matching /\ matching' = TRUE /\ orderCount' = orderCount + 1
        /\ DOMAIN orders' = DOMAIN orders \cup {orderCount'}
        /\ \A k \in DOMAIN orders : k # orderCount' => orders'[k] = orders[k]
    BY <1>2 DEF NewOrder, Put
  <2> QED BY <2>1 DEF OnlyNewestCrosses
<1>3. ASSUME NEW t \in Traders, NEW id \in DOMAIN orders, CancelOrder(t, id)
      PROVE  OnlyNewestCrosses'
  <2>1. ~matching /\ orders' = [k \in DOMAIN orders \ {id} |-> orders[k]]
    BY <1>3 DEF CancelOrder, Drop, Restrict
  <2> QED BY <2>1 DEF OnlyNewestCrosses
<1>4. ASSUME ExecuteTrade PROVE OnlyNewestCrosses'
  <2>1. PICK i \in DOMAIN orders, j \in DOMAIN orders : Trades(i, j)
    BY <1>4, ExecuteTrades
  <2>2. DOMAIN orders' \subseteq DOMAIN orders /\ UNCHANGED <<orderCount, matching>>
    BY <2>1 DEF Trades
  <2>3. \A k \in DOMAIN orders' : /\ orders'[k].type = orders[k].type
                                  /\ orders'[k].price = orders[k].price
    <3>1. \A k \in DOMAIN orders : orders[k] \in Order
      BY DEF TypeOK
    <3> QED BY <2>1, <3>1 DEF Trades, Order
  <2> QED BY <2>2, <2>3 DEF OnlyNewestCrosses
<1>5. ASSUME EndMatching PROVE OnlyNewestCrosses'
  <2>1. orders' = orders /\ \A b \in DOMAIN bids, a \in DOMAIN asks : b < a
    BY <1>5 DEF EndMatching
  <2>2. \A i, j \in DOMAIN orders :
          orders[i].type = "bid" /\ orders[j].type = "ask"
            => orders[i].price < orders[j].price
    BY <2>1 DEF BookIntegrity, OrdersFiled, Levels
  <2>3. \A i \in DOMAIN orders : orders[i].price \in Int
    BY MarketAssumption DEF TypeOK, Order
  <2> QED BY <2>1, <2>2, <2>3 DEF OnlyNewestCrosses
<1>6. ASSUME UNCHANGED vars PROVE OnlyNewestCrosses'
  BY <1>6 DEF vars, OnlyNewestCrosses
<1> QED BY <1>1, <1>2, <1>3, <1>4, <1>5, <1>6
        DEF Next, PlaceBid, PlaceAsk, OrderTypes

\* The book is uncrossed at rest, and inside the loop only the newest order
\* can still trade.
THEOREM NeverCrossed == Spec => []OnlyNewestCrosses
<1>1. Init => OnlyNewestCrosses
  BY CrossInit
<1> QED BY <1>1, CrossStep, BookInvariant, PTL DEF Spec

\* Every order trades within its limit, a resting one at its own price: of
\* the two orders of a trade the newer one is the order just placed, because
\* no older pair crosses.
THEOREM LimitsKept == Spec => LimitsRespected
<1> DEFINE Fair == matching => \A id \in DOMAIN orders : Loses(id) =>
                     LET o == orders[id] IN
                     /\ o.type = "bid" => lastTrade'.price <= o.price
                     /\ o.type = "ask" => lastTrade'.price >= o.price
                     /\ id # orderCount => lastTrade'.price = o.price
<1>1. BookInv /\ OnlyNewestCrosses /\ [Next]_vars => [Fair]_vars
  <2> SUFFICES ASSUME TypeOK, BookIntegrity, OnlyNewestCrosses, Next, matching,
                      NEW id \in DOMAIN orders, Loses(id)
               PROVE  LET o == orders[id] IN
                      /\ o.type = "bid" => lastTrade'.price <= o.price
                      /\ o.type = "ask" => lastTrade'.price >= o.price
                      /\ id # orderCount => lastTrade'.price = o.price
    BY DEF BookInv
  <2>1. \A k \in DOMAIN orders : /\ orders[k] \in Order /\ orders[k].quantity \in Int
                                 /\ orders[k].price \in Int /\ k \in 1..orderCount
    BY MarketAssumption DEF TypeOK, Order
  <2>2. ExecuteTrade
    <3>1. ~EndMatching
      BY <2>1 DEF EndMatching, Loses
    <3> QED BY <3>1 DEF Next, RegisterAccount, PlaceBid, PlaceAsk, NewOrder, CancelOrder
  <2>3. PICK i \in DOMAIN orders, j \in DOMAIN orders : Trades(i, j)
    BY <2>2, ExecuteTrades
  <2>4. /\ orders[i].type = "bid" /\ orders[j].type = "ask" /\ i # j
        /\ orders[j].price <= orders[i].price
    BY <2>3, FrontOrders DEF Trades
  <2>5. id \in {i, j}
    <3>1. id \notin {i, j} => id \in DOMAIN orders' /\ orders'[id] = orders[id]
      BY <2>3 DEF Trades, Filled
    <3> QED BY <2>1, <3>1 DEF Loses
  <2>6. orderCount \in {i, j}
    BY <2>4 DEF OnlyNewestCrosses
  <2>7. lastTrade'.price = IF j < i THEN orders[j].price ELSE orders[i].price
    BY <2>3 DEF Trades, Match
  <2>8. i \in Int /\ j \in Int /\ i <= orderCount /\ j <= orderCount /\ orderCount \in Int
    BY <2>1, MarketAssumption DEF TypeOK
  <2> QED BY <2>1, <2>4, <2>5, <2>6, <2>7, <2>8
<1> QED BY <1>1, BookInvariant, NeverCrossed, PTL DEF Spec, LimitsRespected

-----------------------------------------------------------------------------
(* Sums. *)

\* The element that a sum takes first, and the recursion of a sum.
First(s) == CHOOSE x \in s : TRUE

IsRec(f, g, S) ==
  g = [s \in SUBSET S |-> IF s = {} THEN 0 ELSE f[First(s)] + g[s \ {First(s)}]]

LEMMA FirstIn == \A s : s # {} => First(s) \in s
BY DEF First

LEMMA SumDef ==
  ASSUME NEW f, NEW S
  PROVE  SumFunctionOnSet(f, S) = (CHOOSE g : IsRec(f, g, S))[S]
BY DEF IsRec, First, SumFunctionOnSet, FoldFunctionOnSet, MapThenFoldSet

\* Two functions that satisfy the recursion agree where both are defined.
LEMMA RecUnique ==
  ASSUME NEW f, NEW S, NEW T \in SUBSET S, IsFiniteSet(S),
         NEW g, NEW h, IsRec(f, g, S), IsRec(f, h, T)
  PROVE  g[T] = h[T]
<1> DEFINE Good == {U \in SUBSET T : g[U] = h[U]}
<1>1. IsFiniteSet(T)
  BY FS_Subset
<1>2. ASSUME NEW U \in SUBSET T, \A V \in SUBSET U : V # U => V \in Good
      PROVE  U \in Good
  <2>1. /\ g[U] = IF U = {} THEN 0 ELSE f[First(U)] + g[U \ {First(U)}]
        /\ h[U] = IF U = {} THEN 0 ELSE f[First(U)] + h[U \ {First(U)}]
    BY DEF IsRec
  <2>2. U # {} => U \ {First(U)} \in Good
    BY <1>2, FirstIn
  <2> QED BY <2>1, <2>2
<1> HIDE DEF Good
<1>3. \A U \in SUBSET T : U \in Good
  BY <1>1, <1>2, SubsetInduction
<1> QED BY <1>3 DEF Good

\* A function that satisfies the recursion exists on the subsets of a finite
\* set.
LEMMA RecExists ==
  ASSUME NEW f, NEW S, IsFiniteSet(S)
  PROVE  \E g : IsRec(f, g, S)
<1> DEFINE Good == {T \in SUBSET S : \E g : IsRec(f, g, T)}
           H(U) == CHOOSE g : IsRec(f, g, U)
<1>1. ASSUME NEW T \in SUBSET S, \A U \in SUBSET T : U # T => U \in Good
      PROVE  T \in Good
  <2>1. \A U \in SUBSET T : U # T => IsRec(f, H(U), U)
    BY <1>1
  <2> HIDE DEF H
  <2>2. ASSUME NEW U \in SUBSET T, U # T, U # {}
        PROVE  H(U)[U] = f[First(U)] + H(U \ {First(U)})[U \ {First(U)}]
    <3>1. IsRec(f, H(U), U) /\ IsRec(f, H(U \ {First(U)}), U \ {First(U)})
      BY <2>1, <2>2, FirstIn
    <3>2. IsFiniteSet(U)
      BY FS_Subset
    <3>3. H(U)[U \ {First(U)}] = H(U \ {First(U)})[U \ {First(U)}]
      BY <3>1, <3>2, RecUnique
    <3>4. H(U)[U] = f[First(U)] + H(U)[U \ {First(U)}]
      BY <3>1, <2>2 DEF IsRec
    <3> QED BY <3>3, <3>4
  <2> DEFINE h == [s \in SUBSET T |-> IF s = {} THEN 0
                     ELSE f[First(s)] + H(s \ {First(s)})[s \ {First(s)}]]
  <2>3. ASSUME NEW s \in SUBSET T, s # {}
        PROVE  h[s \ {First(s)}] = H(s \ {First(s)})[s \ {First(s)}]
    <3> DEFINE U == s \ {First(s)}
    <3>1. U \in SUBSET T /\ U # T
      BY <2>3, FirstIn
    <3> HIDE DEF U
    <3>2. ASSUME U # {} PROVE h[U] = H(U)[U]
      <4>1. h[U] = f[First(U)] + H(U \ {First(U)})[U \ {First(U)}]
        BY <3>1, <3>2
      <4>2. H(U)[U] = f[First(U)] + H(U \ {First(U)})[U \ {First(U)}]
        BY <3>1, <3>2, <2>2
      <4> QED BY <4>1, <4>2
    <3>3. ASSUME U = {} PROVE h[U] = H(U)[U]
      <4>1. IsRec(f, H(U), U)
        BY <2>1, <3>1
      <4>2. H(U)[U] = 0
        BY <3>3, <4>1 DEF IsRec
      <4>3. h[U] = 0
        BY <3>1, <3>3
      <4> QED BY <4>2, <4>3
    <3> HIDE DEF h
    <3> QED BY <3>2, <3>3 DEF U
  <2>4. h = [s \in SUBSET T |-> IF s = {} THEN 0 ELSE f[First(s)] + h[s \ {First(s)}]]
    BY <2>3
  <2> HIDE DEF h
  <2>5. IsRec(f, h, T)
    BY <2>4 DEF IsRec
  <2> QED BY <2>5
<1> HIDE DEF Good
<1>2. \A T \in SUBSET S : T \in Good
  BY <1>1, SubsetInduction
<1>3. S \in Good
  BY <1>2
<1> QED BY <1>3 DEF Good

\* A sum over a finite set takes its elements off one by one.
LEMMA SumFirst ==
  ASSUME NEW f, NEW S, IsFiniteSet(S), S # {}
  PROVE  SumFunctionOnSet(f, S)
           = f[First(S)] + SumFunctionOnSet(f, S \ {First(S)})
<1> DEFINE G(U) == CHOOSE g : IsRec(f, g, U)
           U == S \ {First(S)}
<1>1. IsFiniteSet(U) /\ U \in SUBSET S
  BY FS_RemoveElement
<1>2. IsRec(f, G(S), S) /\ IsRec(f, G(U), U)
  BY <1>1, RecExists
<1>3. SumFunctionOnSet(f, S) = G(S)[S] /\ SumFunctionOnSet(f, U) = G(U)[U]
  BY SumDef
<1> HIDE DEF G
<1>4. G(S)[U] = G(U)[U]
  BY <1>1, <1>2, RecUnique
<1>5. G(S)[S] = f[First(S)] + G(S)[U]
  BY <1>2 DEF IsRec
<1> QED BY <1>3, <1>4, <1>5

LEMMA SumEmpty ==
  ASSUME NEW f
  PROVE  SumFunctionOnSet(f, {}) = 0
<1>1. IsRec(f, CHOOSE g : IsRec(f, g, {}), {})
  BY RecExists, FS_EmptySet
<1> QED BY <1>1, SumDef DEF IsRec

\* A sum of integers is an integer.
LEMMA SumType ==
  ASSUME NEW S, IsFiniteSet(S), NEW f, \A x \in S : f[x] \in Int
  PROVE  SumFunctionOnSet(f, S) \in Int
<1> DEFINE Good == {T \in SUBSET S : SumFunctionOnSet(f, T) \in Int}
<1>1. ASSUME NEW T \in SUBSET S, \A U \in SUBSET T : U # T => U \in Good
      PROVE  T \in Good
  <2>1. CASE T = {}
    BY <2>1, SumEmpty
  <2>2. CASE T # {}
    <3>1. IsFiniteSet(T)
      BY FS_Subset
    <3>2. First(T) \in T /\ T \ {First(T)} \in Good
      BY <1>1, <2>2, FirstIn
    <3>3. SumFunctionOnSet(f, T) = f[First(T)] + SumFunctionOnSet(f, T \ {First(T)})
      BY <2>2, <3>1, SumFirst
    <3> QED BY <3>2, <3>3
  <2> QED BY <2>1, <2>2
<1> HIDE DEF Good
<1>2. \A T \in SUBSET S : T \in Good
  BY <1>1, SubsetInduction
<1>3. S \in Good
  BY <1>2
<1> QED BY <1>3 DEF Good

\* Any element may be taken off first.
LEMMA SumRemove ==
  ASSUME NEW S, IsFiniteSet(S), NEW f, \A x \in S : f[x] \in Int, NEW y \in S
  PROVE  SumFunctionOnSet(f, S) = f[y] + SumFunctionOnSet(f, S \ {y})
<1> DEFINE Sum(T) == SumFunctionOnSet(f, T)
           Good == {T \in SUBSET S : \A x \in T : Sum(T) = f[x] + Sum(T \ {x})}
<1> HIDE DEF Sum
<1>1. ASSUME NEW T \in SUBSET S, \A U \in SUBSET T : U # T => U \in Good
      PROVE  T \in Good
  <2> SUFFICES ASSUME NEW x \in T PROVE Sum(T) = f[x] + Sum(T \ {x})
    OBVIOUS
  <2> DEFINE c == First(T)
             U == (T \ {c}) \ {x}
  <2>1. c \in T
    BY FirstIn
  <2>2. \A V \in SUBSET S : V # {} => Sum(V) = f[First(V)] + Sum(V \ {First(V)})
    BY FS_Subset, SumFirst DEF Sum
  <2>3. \A V \in SUBSET S : Sum(V) \in Int
    BY FS_Subset, SumType DEF Sum
  <2>4. Sum(T) = f[c] + Sum(T \ {c})
    BY <2>2
  <2> HIDE DEF c
  <2>5. CASE x = c
    BY <2>4, <2>5
  <2>6. CASE x # c
    <3>1. T \ {c} \in Good /\ T \ {x} \in Good
      BY <1>1, <2>1
    <3>2. Sum(T \ {c}) = f[x] + Sum(U)
      BY <2>6, <3>1
    <3>3. U = (T \ {x}) \ {c}
      OBVIOUS
    <3>4. Sum(T \ {x}) = f[c] + Sum(U)
      BY <2>1, <2>6, <3>1, <3>3
    <3>5. Sum(U) \in Int /\ f[x] \in Int /\ f[c] \in Int
      BY <2>1, <2>3
    <3> HIDE DEF U
    <3> QED BY <2>4, <3>2, <3>4, <3>5
  <2> QED BY <2>5, <2>6
<1>2. \A T \in SUBSET S : T \in Good
  <2> HIDE DEF Good
  <2> QED BY <1>1, SubsetInduction
<1>3. S \in Good
  BY <1>2
<1>4. Sum(S) = f[y] + Sum(S \ {y})
  BY <1>3
<1> QED BY <1>4 DEF Sum

\* A sum depends on the values of its elements alone.
LEMMA SumSame ==
  ASSUME NEW S, IsFiniteSet(S), NEW f, NEW g, \A x \in S : f[x] = g[x]
  PROVE  SumFunctionOnSet(f, S) = SumFunctionOnSet(g, S)
<1> DEFINE Good == {T \in SUBSET S : SumFunctionOnSet(f, T) = SumFunctionOnSet(g, T)}
<1>1. ASSUME NEW T \in SUBSET S, \A U \in SUBSET T : U # T => U \in Good
      PROVE  T \in Good
  <2>1. CASE T = {}
    BY <2>1, SumEmpty
  <2>2. CASE T # {}
    <3>1. IsFiniteSet(T)
      BY FS_Subset
    <3>2. First(T) \in T /\ T \ {First(T)} \in Good
      BY <1>1, <2>2, FirstIn
    <3>3. /\ SumFunctionOnSet(f, T) = f[First(T)] + SumFunctionOnSet(f, T \ {First(T)})
          /\ SumFunctionOnSet(g, T) = g[First(T)] + SumFunctionOnSet(g, T \ {First(T)})
      BY <2>2, <3>1, SumFirst
    <3> QED BY <3>2, <3>3
  <2> QED BY <2>1, <2>2
<1> HIDE DEF Good
<1>2. \A T \in SUBSET S : T \in Good
  BY <1>1, SubsetInduction
<1>3. S \in Good
  BY <1>2
<1> QED BY <1>3 DEF Good

-----------------------------------------------------------------------------
(* A long is a number modulo its width. *)

\* Quotient and remainder are unique.
LEMMA ModUnique ==
  ASSUME NEW n \in Nat \ {0}, NEW a \in Int, NEW k \in Int, NEW r \in 0..(n - 1),
         a = n * k + r
  PROVE  a % n = r
<1> DEFINE q == a \div n
           m == a % n
<1>1. q \in Int /\ m \in 0..(n - 1) /\ a = n * q + m
  OBVIOUS
<1> HIDE DEF q, m
<1>2. CASE k = q
  <2>1. n * k = n * q /\ n * k \in Int
    BY <1>1, <1>2
  <2>2. m = r
    BY <1>1, <2>1
  <2> QED BY <2>2 DEF m
<1>3. CASE k < q
  <2>1. n * (q - k) >= n
    BY <1>1, <1>3, SMT
  <2> QED BY <1>1, <2>1, SMT
<1>4. CASE k > q
  <2>1. n * (k - q) >= n
    BY <1>1, <1>4, SMT
  <2> QED BY <1>1, <2>1, SMT
<1> QED BY <1>1, <1>2, <1>3, <1>4

\* A remainder may be taken before an addition.
LEMMA ModAdd ==
  ASSUME NEW n \in Nat \ {0}, NEW a \in Int, NEW y \in Int
  PROVE  ((a % n) + y) % n = (a + y) % n
<1> DEFINE b == (a % n) + y
           r == b % n
           qa == a \div n
           qb == b \div n
<1>1. a % n \in Int /\ qa \in Int /\ a = n * qa + (a % n)
  OBVIOUS
<1>2. b \in Int /\ r \in 0..(n - 1) /\ qb \in Int /\ b = n * qb + r
  BY <1>1
<1>3. a + y = n * qa + (n * qb + r)
  BY <1>1, <1>2
<1> HIDE DEF qa, qb, r, b
<1>4. n * (qa + qb) = n * qa + n * qb
  BY <1>1, <1>2, SMT
<1>5. qa + qb \in Int /\ a + y \in Int /\ a + y = n * (qa + qb) + r
  BY <1>1, <1>2, <1>3, <1>4, SMT
<1>6. (a + y) % n = r
  BY <1>2, <1>5, ModUnique
<1> QED BY <1>6 DEF r, b

\* A sum that wraps may wrap once more on the way.
LEMMA LongAdd ==
  ASSUME NEW x \in Int, NEW y \in Int
  PROVE  Long(Long(x) + y) = Long(x + y)
<1> DEFINE n == 2 * LongMax + 2
           h == LongMax + 1
<1>1. n \in Nat \ {0} /\ h \in Int
  BY MarketAssumption
<1> HIDE DEF n, h
<1>2. \A z \in Int : Long(z) = ((z + h) % n) - h /\ (z + h) % n \in Int
  <2> SUFFICES ASSUME NEW z \in Int PROVE Long(z) = ((z + h) % n) - h /\ (z + h) % n \in Int
    OBVIOUS
  <2>1. z + LongMax + 1 = z + h
    BY MarketAssumption DEF h
  <2> QED BY <1>1, <2>1 DEF Long, n, h
<1>3. Long(x) + y + h = ((x + h) % n) + y
  BY <1>1, <1>2
<1>4. (((x + h) % n) + y) % n = ((x + h) + y) % n
  <2>1. x + h \in Int
    BY <1>1
  <2> QED BY <1>1, <2>1, ModAdd
<1>5. (x + h) + y = (x + y) + h
  BY <1>1
<1>6. Long(x) + y \in Int /\ x + y \in Int
  BY <1>1, <1>2
<1>7. Long(Long(x) + y) = ((Long(x) + y + h) % n) - h
  BY <1>2, <1>6
<1>8. Long(x + y) = (((x + y) + h) % n) - h
  BY <1>2, <1>6
<1> QED BY <1>3, <1>4, <1>5, <1>7, <1>8

\* Zero is a long.
LEMMA LongZero == Long(0) = 0
<1> DEFINE n == 2 * LongMax + 2
           h == LongMax + 1
<1>1. n \in Nat \ {0} /\ h \in 0..(n - 1) /\ 0 + LongMax + 1 = h
  BY MarketAssumption
<1>2. h = n * 0 + h
  BY <1>1
<1>3. h % n = h
  <2> HIDE DEF n, h
  <2> QED BY <1>1, <1>2, ModUnique
<1> QED BY <1>1, <1>3 DEF Long

-----------------------------------------------------------------------------
(* The price points. *)

\* The open orders of one side at one price, and their quantity.
Side(os, type, price) ==
  {id \in DOMAIN os : os[id].type = type /\ os[id].price = price}

Total(os, type, price) ==
  SumFunctionOnSet([id \in DOMAIN os |-> os[id].quantity], Side(os, type, price))

\* What one order adds to the total of a side.
Share(os, id, type, price) == IF id \in Side(os, type, price) THEN os[id].quantity ELSE 0

\* Maps of orders, as far as totals look at them.
IsBook(os) == /\ IsFiniteSet(DOMAIN os)
              /\ \A id \in DOMAIN os : os[id].quantity \in Int

LEMMA TotalType ==
  ASSUME NEW os, IsBook(os), NEW type, NEW price
  PROVE  Total(os, type, price) \in Int
<1> DEFINE f == [id \in DOMAIN os |-> os[id].quantity]
           S == Side(os, type, price)
<1>1. IsFiniteSet(S) /\ \A x \in S : f[x] \in Int
  BY FS_Subset DEF IsBook, Side
<1> HIDE DEF f, S
<1>2. SumFunctionOnSet(f, S) \in Int
  BY <1>1, SumType
<1> QED BY <1>2 DEF f, S, Total

\* If two books differ in one order, their totals differ by its shares.
LEMMA TotalChange ==
  ASSUME NEW os, NEW new, NEW id, IsBook(os), IsBook(new),
         DOMAIN new \ {id} = DOMAIN os \ {id},
         \A k \in DOMAIN os \ {id} : new[k] = os[k],
         NEW type, NEW price
  PROVE  Total(new, type, price)
           = Total(os, type, price) - Share(os, id, type, price) + Share(new, id, type, price)
<1> DEFINE Sum(b, S) == SumFunctionOnSet([k \in DOMAIN b |-> b[k].quantity], S)
           rest == Side(os, type, price) \ {id}
<1>1. rest = Side(new, type, price) \ {id}
  BY DEF Side
<1>2. IsFiniteSet(rest)
  BY FS_Subset DEF IsBook, Side
<1>3. Sum(os, rest) = Sum(new, rest)
  <2> DEFINE f == [k \in DOMAIN os |-> os[k].quantity]
             g == [k \in DOMAIN new |-> new[k].quantity]
  <2>1. \A x \in rest : f[x] = g[x]
    BY <1>1 DEF Side
  <2> HIDE DEF f, g, rest
  <2>2. SumFunctionOnSet(f, rest) = SumFunctionOnSet(g, rest)
    BY <1>2, <2>1, SumSame
  <2> QED BY <2>2 DEF f, g
<1>4. ASSUME NEW b, IsBook(b), rest = Side(b, type, price) \ {id}
      PROVE  /\ Total(b, type, price) = Share(b, id, type, price) + Sum(b, rest)
             /\ Share(b, id, type, price) \in Int /\ Sum(b, rest) \in Int
  <2> DEFINE f == [k \in DOMAIN b |-> b[k].quantity]
             S == Side(b, type, price)
  <2>1. /\ IsFiniteSet(S) /\ \A x \in S : f[x] \in Int
        /\ \A x \in rest : f[x] \in Int
    BY <1>4, FS_Subset DEF IsBook, Side
  <2>2. id \in S => Share(b, id, type, price) = f[id] /\ f[id] \in Int
    BY <2>1 DEF Share, Side
  <2>3. id \notin S => Share(b, id, type, price) = 0 /\ rest = S
    BY <1>4 DEF Share
  <2>4. rest = S \ {id}
    BY <1>4
  <2>5. Total(b, type, price) = SumFunctionOnSet(f, S) /\ Sum(b, rest) = SumFunctionOnSet(f, rest)
    BY DEF Total
  <2> HIDE DEF f, S, rest, Sum
  <2>6. SumFunctionOnSet(f, rest) \in Int
    BY <1>2, <2>1, SumType
  <2>7. CASE id \in S
    <3>1. SumFunctionOnSet(f, S) = f[id] + SumFunctionOnSet(f, S \ {id})
      BY <2>1, <2>7, SumRemove
    <3> QED BY <2>2, <2>4, <2>5, <2>6, <2>7, <3>1
  <2>8. CASE id \notin S
    BY <2>3, <2>5, <2>6, <2>8
  <2> QED BY <2>7, <2>8
<1>5. /\ Total(os, type, price) = Share(os, id, type, price) + Sum(os, rest)
      /\ Share(os, id, type, price) \in Int /\ Sum(os, rest) \in Int
  <2> HIDE DEF Sum, rest
  <2> QED BY <1>4 DEF rest
<1>6. /\ Total(new, type, price) = Share(new, id, type, price) + Sum(new, rest)
      /\ Share(new, id, type, price) \in Int /\ Sum(new, rest) \in Int
  BY <1>1, <1>4
<1> HIDE DEF Sum, rest
<1> QED BY <1>3, <1>5, <1>6

\* The price points show the totals of a book.
Shows(points, os) ==
  \A p \in Prices :
    LET depth == [bids |-> Long(Total(os, "bid", p)), asks |-> Long(Total(os, "ask", p))]
    IN  IF p \in DOMAIN points THEN points[p] = depth /\ depth # NoDepth
                               ELSE depth = NoDepth

\* When one order comes, goes or loses quantity, and its price point is
\* changed by as much, the price points show the new totals.
LEMMA DepthChange ==
  ASSUME NEW points, DOMAIN points \subseteq Prices,
         NEW os, NEW new, NEW id, IsBook(os), IsBook(new), Shows(points, os),
         DOMAIN new \ {id} = DOMAIN os \ {id},
         \A k \in DOMAIN os \ {id} : new[k] = os[k],
         NEW price \in Prices, NEW bidDiff \in Int, NEW askDiff \in Int,
         Share(new, id, "bid", price) = Share(os, id, "bid", price) + bidDiff,
         Share(new, id, "ask", price) = Share(os, id, "ask", price) + askDiff,
         \A p \in Prices \ {price} : /\ Share(new, id, "bid", p) = Share(os, id, "bid", p)
                                     /\ Share(new, id, "ask", p) = Share(os, id, "ask", p)
  PROVE  Shows(AddDepth(points, price, bidDiff, askDiff), new)
<1> DEFINE after == AddDepth(points, price, bidDiff, askDiff)
           depth(b, p) == [bids |-> Long(Total(b, "bid", p)), asks |-> Long(Total(b, "ask", p))]
           old == IF price \in DOMAIN points THEN points[price] ELSE NoDepth
           sum == [bids |-> Long(old.bids + bidDiff), asks |-> Long(old.asks + askDiff)]
<1>1. \A b, t, p : IsBook(b) => Total(b, t, p) \in Int
  BY TotalType
<1>2. \A b : IsBook(b) => \A t, p : Share(b, id, t, p) \in Int
  BY DEF Share, Side, IsBook
<1>3. \A t, p : Total(new, t, p) = Total(os, t, p) - Share(os, id, t, p) + Share(new, id, t, p)
  BY TotalChange
<1>4. /\ Total(new, "bid", price) = Total(os, "bid", price) + bidDiff
      /\ Total(new, "ask", price) = Total(os, "ask", price) + askDiff
  BY <1>1, <1>2, <1>3
<1>5. \A p \in Prices \ {price} : /\ Total(new, "bid", p) = Total(os, "bid", p)
                                  /\ Total(new, "ask", p) = Total(os, "ask", p)
  BY <1>1, <1>2, <1>3
<1>6. old = depth(os, price)
  BY DEF Shows
<1>7. sum = depth(new, price)
  <2>1. old.bids = Long(Total(os, "bid", price)) /\ old.asks = Long(Total(os, "ask", price))
    BY <1>6
  <2>2. /\ Long(Long(Total(os, "bid", price)) + bidDiff) = Long(Total(new, "bid", price))
        /\ Long(Long(Total(os, "ask", price)) + askDiff) = Long(Total(new, "ask", price))
    BY <1>1, <1>4, LongAdd
  <2> HIDE DEF old
  <2> QED BY <2>1, <2>2
<1>8. after = IF sum = NoDepth THEN Drop(points, price) ELSE Put(points, price, sum)
  BY DEF AddDepth
<1> HIDE DEF after, old, sum
<1>9. /\ DOMAIN Drop(points, price) = DOMAIN points \ {price}
      /\ \A p \in DOMAIN points \ {price} : Drop(points, price)[p] = points[p]
  BY DropMap
<1>10. /\ DOMAIN Put(points, price, sum) = DOMAIN points \cup {price}
       /\ Put(points, price, sum)[price] = sum
       /\ \A p \in DOMAIN points : p # price => Put(points, price, sum)[p] = points[p]
  BY DEF Put
<1>11. ASSUME NEW p \in Prices
       PROVE  IF p \in DOMAIN after THEN after[p] = depth(new, p) /\ depth(new, p) # NoDepth
                                   ELSE depth(new, p) = NoDepth
  <2>1. CASE p = price
    <3>1. CASE sum = NoDepth
      <4>1. p \notin DOMAIN after
        BY <1>8, <2>1, <3>1, <1>9
      <4> QED BY <1>7, <2>1, <3>1, <4>1
    <3>2. CASE sum # NoDepth
      <4>1. p \in DOMAIN after /\ after[p] = sum
        BY <1>8, <2>1, <3>2, <1>10
      <4> QED BY <1>7, <2>1, <3>2, <4>1
    <3> QED BY <3>1, <3>2
  <2>2. CASE p # price
    <3>1. depth(new, p) = depth(os, p)
      BY <1>5, <2>2
    <3>2. (p \in DOMAIN after <=> p \in DOMAIN points) /\ (p \in DOMAIN points => after[p] = points[p])
      <4>1. CASE sum = NoDepth
        BY <1>8, <2>2, <4>1, <1>9
      <4>2. CASE sum # NoDepth
        BY <1>8, <2>2, <4>2, <1>10
      <4> QED BY <4>1, <4>2
    <3>3. IF p \in DOMAIN points THEN points[p] = depth(os, p) /\ depth(os, p) # NoDepth
                                 ELSE depth(os, p) = NoDepth
      BY DEF Shows
    <3> HIDE DEF depth
    <3> QED BY <3>1, <3>2, <3>3
  <2> QED BY <2>1, <2>2
<1> QED BY <1>11 DEF Shows, after

LEMMA DepthIsShows == DepthIsBook <=> Shows(pricePoints, orders)
BY DEF DepthIsBook, Shows, SideTotal, Total, Side

LEMMA DepthIsShowsNext == DepthIsBook' <=> Shows(pricePoints', orders')
BY DEF DepthIsBook, Shows, SideTotal, Total, Side

\* A map of open orders is a book.
LEMMA OrdersBook ==
  ASSUME NEW n \in Nat, NEW os, DOMAIN os \subseteq 1..n, os \in [DOMAIN os -> Order]
  PROVE  /\ IsBook(os)
         /\ n + 1 \notin DOMAIN os
         /\ \A id \in DOMAIN os : /\ os[id].type \in OrderTypes
                                  /\ os[id].price \in Prices
                                  /\ os[id].quantity \in 1..LongMax
<1>1. IsFiniteSet(1..n)
  BY FS_Interval
<1>2. IsFiniteSet(DOMAIN os)
  BY <1>1, FS_Subset
<1>3. \A id \in DOMAIN os : /\ os[id].type \in OrderTypes
                            /\ os[id].price \in Prices
                            /\ os[id].quantity \in 1..LongMax
  BY DEF Order
<1>4. \A id \in DOMAIN os : os[id].quantity \in Int
  BY <1>3, MarketAssumption
<1>5. n + 1 \notin DOMAIN os
  OBVIOUS
<1> QED BY <1>2, <1>3, <1>4, <1>5 DEF IsBook

\* Without orders there are no totals.
LEMMA DepthInit == Init => DepthIsBook
<1> SUFFICES ASSUME Init PROVE Shows(pricePoints, orders)
  BY DepthIsShows
<1>1. DOMAIN orders = {} /\ DOMAIN pricePoints = {}
  BY DEF Init, EmptyMap
<1>2. \A t, p : Side(orders, t, p) = {}
  BY <1>1 DEF Side
<1>3. \A t, p : Total(orders, t, p) = 0
  BY <1>2, SumEmpty DEF Total
<1> QED BY <1>1, <1>3, LongZero DEF Shows, NoDepth

\* A new order adds its quantity to its side of its price.
LEMMA DepthPlaced ==
  ASSUME TypeOK, TypeOK', DepthIsBook,
         NEW trader \in Traders, NEW type \in OrderTypes, NEW price \in Prices,
         NEW quantity \in Quantities, NewOrder(trader, type, price, quantity)
  PROVE  Shows(AddDepth(pricePoints, price, IF type = "bid" THEN quantity ELSE 0,
                                            IF type = "ask" THEN quantity ELSE 0), orders')
<1> DEFINE id == orderCount + 1
           bidDiff == IF type = "bid" THEN quantity ELSE 0
           askDiff == IF type = "ask" THEN quantity ELSE 0
           new == orders'
<1>1. IsBook(orders) /\ id \notin DOMAIN orders
  <2>1. orderCount \in Nat
    BY MarketAssumption DEF TypeOK
  <2> QED BY <2>1, OrdersBook DEF TypeOK
<1>2. IsBook(new)
  <2>1. orderCount' \in Nat /\ DOMAIN new \subseteq 1..orderCount' /\ new \in [DOMAIN new -> Order]
    BY MarketAssumption DEF TypeOK
  <2> HIDE DEF new
  <2> QED BY <2>1, OrdersBook
<1>3. new = [k \in DOMAIN orders \cup {id} |->
               IF k = id THEN [trader |-> trader, type |-> type,
                               price |-> price, quantity |-> quantity]
               ELSE orders[k]]
  BY DEF NewOrder, Put
<1>4. quantity \in Int /\ bidDiff \in Int /\ askDiff \in Int
  BY MarketAssumption
<1>5. /\ \A k \in DOMAIN orders \ {id} : new[k] = orders[k]
      /\ DOMAIN new \ {id} = DOMAIN orders \ {id}
      /\ id \in DOMAIN new /\ new[id].type = type /\ new[id].price = price
      /\ new[id].quantity = quantity
  BY <1>3
<1>6. \A t, p : Share(orders, id, t, p) = 0
  BY <1>1 DEF Share, Side
<1>7. \A t, p : Share(new, id, t, p) = IF t = type /\ p = price THEN quantity ELSE 0
  <2> HIDE DEF new, id
  <2> QED BY <1>5 DEF Share, Side
<1>8. /\ Share(new, id, "bid", price) = Share(orders, id, "bid", price) + bidDiff
      /\ Share(new, id, "ask", price) = Share(orders, id, "ask", price) + askDiff
      /\ \A p \in Prices \ {price} :
           /\ Share(new, id, "bid", p) = Share(orders, id, "bid", p)
           /\ Share(new, id, "ask", p) = Share(orders, id, "ask", p)
  <2> HIDE DEF id, new
  <2> QED BY <1>4, <1>6, <1>7 DEF OrderTypes
<1>9. DOMAIN pricePoints \subseteq Prices /\ Shows(pricePoints, orders)
  BY DepthIsShows DEF TypeOK
<1> HIDE DEF id, bidDiff, askDiff, new
<1>10. Shows(AddDepth(pricePoints, price, bidDiff, askDiff), new)
  BY <1>1, <1>2, <1>4, <1>5, <1>8, <1>9, DepthChange
<1> QED BY <1>10 DEF bidDiff, askDiff, new

\* From os to new, order id of this side and price loses q of its k shares,
\* and is gone when it has lost them all.
Lost(os, new, id, type, price, k, q) ==
  /\ id \in DOMAIN os /\ k \in Int /\ q \in Int
  /\ os[id].type = type /\ os[id].price = price /\ os[id].quantity = k
  /\ k = q => id \notin DOMAIN new
  /\ k # q => /\ id \in DOMAIN new /\ new[id].quantity = k - q
              /\ new[id].type = type /\ new[id].price = price

\* What an order loses, completely or in part, its side loses.
LEMMA ShareLess ==
  ASSUME NEW os, NEW new, NEW id, NEW type, NEW price, NEW k, NEW q,
         Lost(os, new, id, type, price, k, q)
  PROVE  /\ Share(new, id, type, price) = Share(os, id, type, price) + (-q)
         /\ \A t, p : ~(t = type /\ p = price)
              => Share(new, id, t, p) = 0 /\ Share(os, id, t, p) = 0
<1>0. /\ id \in DOMAIN os /\ k \in Int /\ q \in Int
      /\ os[id].type = type /\ os[id].price = price /\ os[id].quantity = k
      /\ k = q => id \notin DOMAIN new
      /\ k # q => /\ id \in DOMAIN new /\ new[id].quantity = k - q
                  /\ new[id].type = type /\ new[id].price = price
  BY DEF Lost
<1>1. \A t, p : Share(os, id, t, p) = IF t = type /\ p = price THEN k ELSE 0
  BY <1>0 DEF Share, Side
<1>2. \A t, p : Share(new, id, t, p) = IF t = type /\ p = price THEN k - q ELSE 0
  <2>1. CASE k = q
    <3>1. k - q = 0
      BY <1>0, <2>1
    <3>2. id \notin DOMAIN new
      BY <1>0, <2>1
    <3> QED BY <3>1, <3>2 DEF Share, Side
  <2>2. CASE k # q
    <3>1. /\ id \in DOMAIN new /\ new[id].type = type /\ new[id].price = price
          /\ new[id].quantity = k - q
      BY <1>0, <2>2
    <3> QED BY <3>1 DEF Share, Side
  <2> QED BY <2>1, <2>2
<1> QED BY <1>0, <1>1, <1>2

\* A cancelled order takes its quantity off.
LEMMA DepthCancelled ==
  ASSUME TypeOK, TypeOK', DepthIsBook, NEW trader \in Traders,
         NEW id \in DOMAIN orders, CancelOrder(trader, id)
  PROVE  DepthIsBook'
<1> DEFINE o == orders[id]
           bidDiff == IF o.type = "bid" THEN -o.quantity ELSE 0
           askDiff == IF o.type = "ask" THEN -o.quantity ELSE 0
           new == orders'
<1>1. IsBook(orders) /\ o \in Order /\ o.quantity \in Int /\ o.price \in Prices /\ o.type \in OrderTypes
  <2>1. orderCount \in Nat
    BY MarketAssumption DEF TypeOK
  <2>2. IsBook(orders)
    BY <2>1, OrdersBook DEF TypeOK
  <2> QED BY <2>2, MarketAssumption DEF TypeOK, Order
<1>2. IsBook(new)
  <2>1. orderCount' \in Nat /\ DOMAIN new \subseteq 1..orderCount' /\ new \in [DOMAIN new -> Order]
    BY MarketAssumption DEF TypeOK
  <2> HIDE DEF new
  <2> QED BY <2>1, OrdersBook
<1>3. /\ \A k \in DOMAIN orders \ {id} : new[k] = orders[k]
      /\ DOMAIN new = DOMAIN orders \ {id}
  BY DEF CancelOrder, Drop, Restrict
<1>4. bidDiff \in Int /\ askDiff \in Int
  BY <1>1
<1>5. /\ Share(new, id, "bid", o.price) = Share(orders, id, "bid", o.price) + bidDiff
      /\ Share(new, id, "ask", o.price) = Share(orders, id, "ask", o.price) + askDiff
      /\ \A p \in Prices \ {o.price} :
           /\ Share(new, id, "bid", p) = Share(orders, id, "bid", p)
           /\ Share(new, id, "ask", p) = Share(orders, id, "ask", p)
  <2>1. /\ Share(new, id, o.type, o.price) = Share(orders, id, o.type, o.price) + (-o.quantity)
        /\ \A t, p : ~(t = o.type /\ p = o.price)
              => Share(new, id, t, p) = 0 /\ Share(orders, id, t, p) = 0
    <3> DEFINE k == o.quantity
               type == o.type
               price == o.price
    <3>1. Lost(orders, new, id, type, price, k, k)
      BY <1>1, <1>3 DEF Lost
    <3> HIDE DEF new, k, type, price, o
    <3>3. /\ Share(new, id, type, price) = Share(orders, id, type, price) + (-k)
          /\ \A t, p : ~(t = type /\ p = price)
               => Share(new, id, t, p) = 0 /\ Share(orders, id, t, p) = 0
      BY <3>1, ShareLess
    <3> QED BY <3>3 DEF k, type, price
  <2> HIDE DEF o, new
  <2> QED BY <1>1, <2>1 DEF OrderTypes
<1>6. DOMAIN pricePoints \subseteq Prices /\ Shows(pricePoints, orders)
  BY DepthIsShows DEF TypeOK
<1>7. pricePoints' = AddDepth(pricePoints, o.price, bidDiff, askDiff)
  BY <1>1 DEF CancelOrder, AddBidDepth, AddAskDepth, OrderTypes
<1>8. DOMAIN new \ {id} = DOMAIN orders \ {id}
  BY <1>3
<1> HIDE DEF bidDiff, askDiff, new, o
<1>9. Shows(AddDepth(pricePoints, o.price, bidDiff, askDiff), new)
  BY <1>1, <1>2, <1>3, <1>4, <1>5, <1>6, <1>8, DepthChange
<1> QED BY <1>7, <1>9, DepthIsShowsNext DEF new

\* A trade takes its quantity off both orders.
LEMMA DepthTraded ==
  ASSUME TypeOK, BookIntegrity, TypeOK', DepthIsBook, ExecuteTrade
  PROVE  DepthIsBook'
<1>1. PICK i \in DOMAIN orders, j \in DOMAIN orders :
        LET q    == Match(i, j).quantity
            done == Filled(i, j, q)
        IN
        /\ BookFront(i, j)
        /\ pricePoints' = AddAskDepth(AddBidDepth(pricePoints, orders[i].price, -q),
                                      orders[j].price, -q)
        /\ orders' = [k \in DOMAIN orders \ done |->
                        IF k \in {i, j} THEN [orders[k] EXCEPT !.quantity = @ - q]
                                        ELSE orders[k]]
  BY DEF ExecuteTrade
<1> DEFINE q == Match(i, j).quantity
           new == orders'
           mid == [k \in DOMAIN orders \ {x \in {i} : orders[x].quantity = q} |->
                     IF k = i THEN [orders[k] EXCEPT !.quantity = @ - q] ELSE orders[k]]
           once == AddDepth(pricePoints, orders[i].price, -q, 0)
<1>2. /\ i # j /\ orders[i].type = "bid" /\ orders[j].type = "ask"
  BY <1>1, FrontOrders
<1>3. /\ orders[i] \in Order /\ orders[j] \in Order
      /\ orders[i].quantity \in Int /\ orders[j].quantity \in Int
      /\ orders[i].price \in Prices /\ orders[j].price \in Prices
  BY MarketAssumption DEF TypeOK, Order
<1>4. q \in Int /\ -q \in Int
  BY <1>3 DEF Match
<1>5. IsBook(orders)
  <2>1. orderCount \in Nat
    BY MarketAssumption DEF TypeOK
  <2> QED BY <2>1, OrdersBook DEF TypeOK
<1>6. IsBook(new)
  <2>1. orderCount' \in Nat /\ DOMAIN new \subseteq 1..orderCount' /\ new \in [DOMAIN new -> Order]
    BY MarketAssumption DEF TypeOK
  <2> HIDE DEF new
  <2> QED BY <2>1, OrdersBook
<1>7. IsBook(mid)
  <2>1. IsFiniteSet(DOMAIN mid)
    BY <1>5, FS_Subset DEF IsBook
  <2>2. \A k \in DOMAIN mid : mid[k].quantity \in Int
    <3> SUFFICES ASSUME NEW k \in DOMAIN mid PROVE mid[k].quantity \in Int
      OBVIOUS
    <3>1. CASE k = i
      <4>1. mid[k].quantity = orders[i].quantity - q
        BY <1>3, <3>1 DEF Order
      <4> QED BY <1>3, <1>4, <4>1
    <3>2. CASE k # i
      BY <1>5, <3>2 DEF IsBook
    <3> QED BY <3>1, <3>2
  <2> QED BY <2>1, <2>2 DEF IsBook
<1>8. /\ DOMAIN mid \ {i} = DOMAIN orders \ {i}
      /\ \A k \in DOMAIN orders \ {i} : mid[k] = orders[k]
      /\ orders[i].quantity = q => i \notin DOMAIN mid
      /\ orders[i].quantity # q => /\ i \in DOMAIN mid /\ mid[i].quantity = orders[i].quantity - q
                                   /\ mid[i].type = orders[i].type /\ mid[i].price = orders[i].price
  BY <1>3 DEF Order
<1>9. /\ DOMAIN new \ {j} = DOMAIN mid \ {j}
      /\ \A k \in DOMAIN mid \ {j} : new[k] = mid[k]
      /\ j \in DOMAIN mid /\ mid[j] = orders[j]
      /\ mid[j].quantity = q => j \notin DOMAIN new
      /\ mid[j].quantity # q => /\ j \in DOMAIN new /\ new[j].quantity = mid[j].quantity - q
                                /\ new[j].type = mid[j].type /\ new[j].price = mid[j].price
  BY <1>1, <1>2, <1>3 DEF Filled, Order
<1>10. Shows(once, mid)
  <2>1. /\ Share(mid, i, "bid", orders[i].price) = Share(orders, i, "bid", orders[i].price) + (-q)
        /\ \A t, p : ~(t = "bid" /\ p = orders[i].price)
             => Share(mid, i, t, p) = 0 /\ Share(orders, i, t, p) = 0
    <3> DEFINE k == orders[i].quantity
               price == orders[i].price
    <3>1. Lost(orders, mid, i, "bid", price, k, q)
      BY <1>2, <1>3, <1>4, <1>8 DEF Lost
    <3> HIDE DEF mid, q, k, price
    <3>3. /\ Share(mid, i, "bid", price) = Share(orders, i, "bid", price) + (-q)
          /\ \A t, p : ~(t = "bid" /\ p = price)
               => Share(mid, i, t, p) = 0 /\ Share(orders, i, t, p) = 0
      BY <3>1, ShareLess
    <3> QED BY <3>3 DEF price
  <2>2. DOMAIN pricePoints \subseteq Prices /\ Shows(pricePoints, orders)
    BY DepthIsShows DEF TypeOK
  <2> HIDE DEF mid, q
  <2>3. Share(mid, i, "ask", orders[i].price) = Share(orders, i, "ask", orders[i].price) + 0
    BY <2>1
  <2>4. \A p \in Prices \ {orders[i].price} :
          /\ Share(mid, i, "bid", p) = Share(orders, i, "bid", p)
          /\ Share(mid, i, "ask", p) = Share(orders, i, "ask", p)
    BY <2>1
  <2> QED BY <1>3, <1>4, <1>5, <1>7, <1>8, <2>1, <2>2, <2>3, <2>4, DepthChange
<1>11. DOMAIN once \subseteq Prices
  <2>1. pricePoints \in [DOMAIN pricePoints -> Depth] /\ DOMAIN pricePoints \subseteq Prices
    BY DEF TypeOK
  <2> HIDE DEF q
  <2> QED BY <1>3, <1>4, <2>1, AddDepthType
<1>12. Shows(AddDepth(once, orders[j].price, 0, -q), new)
  <2>1. /\ Share(new, j, "ask", orders[j].price) = Share(mid, j, "ask", orders[j].price) + (-q)
        /\ \A t, p : ~(t = "ask" /\ p = orders[j].price)
             => Share(new, j, t, p) = 0 /\ Share(mid, j, t, p) = 0
    <3> DEFINE k == orders[j].quantity
               price == orders[j].price
    <3>1. Lost(mid, new, j, "ask", price, k, q)
      BY <1>2, <1>3, <1>4, <1>9 DEF Lost
    <3> HIDE DEF mid, q, new, k, price
    <3>3. /\ Share(new, j, "ask", price) = Share(mid, j, "ask", price) + (-q)
          /\ \A t, p : ~(t = "ask" /\ p = price)
               => Share(new, j, t, p) = 0 /\ Share(mid, j, t, p) = 0
      BY <3>1, ShareLess
    <3> QED BY <3>3 DEF price
  <2> HIDE DEF mid, q, new, once
  <2>2. Share(new, j, "bid", orders[j].price) = Share(mid, j, "bid", orders[j].price) + 0
    BY <2>1
  <2>3. \A p \in Prices \ {orders[j].price} :
          /\ Share(new, j, "bid", p) = Share(mid, j, "bid", p)
          /\ Share(new, j, "ask", p) = Share(mid, j, "ask", p)
    BY <2>1
  <2> QED BY <1>3, <1>4, <1>6, <1>7, <1>9, <1>10, <1>11, <2>1, <2>2, <2>3, DepthChange
<1>13. pricePoints' = AddDepth(once, orders[j].price, 0, -q)
  BY <1>1 DEF AddBidDepth, AddAskDepth
<1> QED BY <1>12, <1>13, DepthIsShowsNext

\* Every step keeps the price points at the totals.
LEMMA DepthStep == BookInv /\ DepthIsBook /\ [Next]_vars => DepthIsBook'
<1> SUFFICES ASSUME TypeOK, BookIntegrity, DepthIsBook, [Next]_vars PROVE DepthIsBook'
  BY DEF BookInv
<1>1. TypeOK'
  BY TypeStep
<1>2. UNCHANGED <<orders, pricePoints>> => DepthIsBook'
  BY DepthIsShows, DepthIsShowsNext
<1>3. ASSUME NEW t \in Traders, NEW p \in Prices, NEW q \in Quantities,
             PlaceBid(t, p, q) \/ PlaceAsk(t, p, q)
      PROVE  DepthIsBook'
  <2>1. CASE PlaceBid(t, p, q)
    <3>1. NewOrder(t, "bid", p, q) /\ pricePoints' = AddDepth(pricePoints, p, q, 0)
      BY <2>1 DEF PlaceBid, AddBidDepth
    <3>2. Shows(AddDepth(pricePoints, p, q, 0), orders')
      <4>1. Shows(AddDepth(pricePoints, p, IF "bid" = "bid" THEN q ELSE 0,
                                           IF "bid" = "ask" THEN q ELSE 0), orders')
        BY <1>1, <3>1, DepthPlaced DEF OrderTypes
      <4> QED BY <4>1
    <3> QED BY <3>1, <3>2, DepthIsShowsNext
  <2>2. CASE PlaceAsk(t, p, q)
    <3>1. NewOrder(t, "ask", p, q) /\ pricePoints' = AddDepth(pricePoints, p, 0, q)
      BY <2>2 DEF PlaceAsk, AddAskDepth
    <3>2. Shows(AddDepth(pricePoints, p, 0, q), orders')
      <4>1. Shows(AddDepth(pricePoints, p, IF "ask" = "bid" THEN q ELSE 0,
                                           IF "ask" = "ask" THEN q ELSE 0), orders')
        BY <1>1, <3>1, DepthPlaced DEF OrderTypes
      <4> QED BY <4>1
    <3> QED BY <3>1, <3>2, DepthIsShowsNext
  <2> QED BY <1>3, <2>1, <2>2
<1>4. ASSUME NEW t \in Traders, RegisterAccount(t) PROVE DepthIsBook'
  BY <1>2, <1>4 DEF RegisterAccount
<1>5. ASSUME EndMatching PROVE DepthIsBook'
  BY <1>2, <1>5 DEF EndMatching
<1>6. ASSUME UNCHANGED vars PROVE DepthIsBook'
  BY <1>2, <1>6 DEF vars
<1> QED BY <1>1, <1>3, <1>4, <1>5, <1>6, DepthCancelled, DepthTraded DEF Next

\* Every price point shows, up to the width of a long, the open quantity of
\* both sides at its price, and there is one exactly where that is not zero,
\* however large the quantities and however often the totals wrap
\* (update_bid_ask_count, market.cpp:20-31).
THEOREM DepthExact == Spec => []DepthIsBook
<1> QED BY DepthInit, DepthStep, BookInvariant, PTL DEF Spec

-----------------------------------------------------------------------------
(* Positions. *)

\* What the traders of a book of accounts hold, and what they earned.
Units(book) == [t \in DOMAIN book |-> book[t].count]
Money(book) == [t \in DOMAIN book |-> book[t].pnl]

\* The sum of a map of numbers, as a long.
LongSum(f) == Long(SumFunctionOnSet(f, DOMAIN f))

LEMMA ZeroSumIs == ZeroSum <=> LongSum(Units(accounts)) = 0 /\ LongSum(Money(accounts)) = 0
BY DEF ZeroSum, LongSum, Units, Money, SumFunction

LEMMA ZeroSumIsNext ==
  ZeroSum' <=> LongSum(Units(accounts')) = 0 /\ LongSum(Money(accounts')) = 0
BY DEF ZeroSum, LongSum, Units, Money, SumFunction

\* An entry that moves by d, as a long, moves the sum by d.
LEMMA LongSumMoves ==
  ASSUME NEW f, NEW g, IsFiniteSet(DOMAIN f), DOMAIN g = DOMAIN f,
         \A x \in DOMAIN f : f[x] \in Int /\ g[x] \in Int,
         NEW y \in DOMAIN f, NEW d \in Int, g[y] = Long(f[y] + d),
         \A x \in DOMAIN f : x # y => g[x] = f[x]
  PROVE  LongSum(g) = Long(LongSum(f) + d)
<1> DEFINE S == DOMAIN f
           rest == SumFunctionOnSet(f, S \ {y})
<1>1. IsFiniteSet(S \ {y})
  BY FS_RemoveElement
<1>2. SumFunctionOnSet(f, S) = f[y] + rest /\ SumFunctionOnSet(f, S) \in Int
  BY SumRemove, SumType
<1>3. SumFunctionOnSet(g, S) = g[y] + SumFunctionOnSet(g, S \ {y})
  BY SumRemove
<1>4. rest = SumFunctionOnSet(g, S \ {y})
  BY <1>1, SumSame
<1>5. rest \in Int /\ f[y] \in Int /\ f[y] + d \in Int
  BY <1>1, SumType
<1> HIDE DEF rest
<1>6. Long(Long(f[y] + d) + rest) = Long((f[y] + d) + rest)
  BY <1>5, LongAdd
<1>7. Long(Long(f[y] + rest) + d) = Long((f[y] + rest) + d)
  BY <1>2, <1>5, LongAdd
<1>8. (f[y] + d) + rest = (f[y] + rest) + d
  BY <1>5
<1>9. LongSum(g) = Long(Long(f[y] + d) + rest)
  BY <1>3, <1>4 DEF LongSum
<1>10. LongSum(f) = Long(f[y] + rest)
  BY <1>2 DEF LongSum
<1> QED BY <1>6, <1>7, <1>8, <1>9, <1>10

\* A position with nothing in it leaves the sum alone.
LEMMA LongSumGrows ==
  ASSUME NEW f, NEW g, IsFiniteSet(DOMAIN f), NEW y, y \notin DOMAIN f,
         DOMAIN g = DOMAIN f \cup {y}, g[y] = 0,
         \A x \in DOMAIN f : f[x] \in Int /\ g[x] = f[x]
  PROVE  LongSum(g) = LongSum(f)
<1>1. IsFiniteSet(DOMAIN g)
  BY FS_AddElement
<1>2. \A x \in DOMAIN g : g[x] \in Int
  OBVIOUS
<1>3. SumFunctionOnSet(g, DOMAIN g) = g[y] + SumFunctionOnSet(g, DOMAIN g \ {y})
  BY <1>1, <1>2, SumRemove
<1>4. DOMAIN g \ {y} = DOMAIN f
  OBVIOUS
<1>5. SumFunctionOnSet(f, DOMAIN f) = SumFunctionOnSet(g, DOMAIN f)
  BY SumSame
<1>6. SumFunctionOnSet(f, DOMAIN f) \in Int
  BY SumType
<1>7. SumFunctionOnSet(g, DOMAIN g) = 0 + SumFunctionOnSet(f, DOMAIN f)
  BY <1>3, <1>4, <1>5
<1>8. SumFunctionOnSet(g, DOMAIN g) = SumFunctionOnSet(f, DOMAIN f)
  BY <1>6, <1>7
<1> QED BY <1>8 DEF LongSum

\* What one side of a trade adds to the sums.
LEMMA ConfirmMoves ==
  ASSUME NEW book, IsFiniteSet(DOMAIN book), book \in [DOMAIN book -> Position],
         NEW trader \in DOMAIN book, NEW type \in OrderTypes,
         NEW t \in [price : Prices, quantity : 1..LongMax]
  PROVE  LET after == Confirm(book, trader, type, t)
             units == Sign(type) * t.quantity
             money == Sign(type) * t.price * t.quantity
         IN  /\ units \in Int /\ money \in Int
             /\ LongSum(Units(after)) = Long(LongSum(Units(book)) + units)
             /\ LongSum(Money(after)) = Long(LongSum(Money(book)) + (-money))
<1> DEFINE after == Confirm(book, trader, type, t)
           units == Sign(type) * t.quantity
           money == Sign(type) * t.price * t.quantity
<1>1. t.price \in Int /\ t.quantity \in Int /\ Sign(type) \in {1, -1}
  BY MarketAssumption DEF Sign
<1>2. units \in Int /\ Sign(type) * t.price \in Int
  BY <1>1
<1>3. money \in Int
  BY <1>1, <1>2
<1>4. \A k \in DOMAIN book : book[k].count \in Int /\ book[k].pnl \in Int
  BY MarketAssumption DEF Position, LongRange
<1>5. DOMAIN after = DOMAIN book /\ after \in [DOMAIN book -> Position]
  BY ConfirmType
<1>6. \A k \in DOMAIN book : after[k].count \in Int /\ after[k].pnl \in Int
  <2> HIDE DEF after
  <2> QED BY <1>5, MarketAssumption DEF Position, LongRange
<1>7. /\ after[trader] = [count |-> Long(book[trader].count + units),
                          pnl |-> Long(book[trader].pnl - money)]
      /\ \A k \in DOMAIN book : k # trader => after[k] = book[k]
  BY DEF Confirm
<1>8. book[trader].pnl - money = book[trader].pnl + (-money) /\ -money \in Int
  <2> HIDE DEF money
  <2> QED BY <1>3, <1>4
<1> HIDE DEF after, units, money
<1>9. LongSum(Units(after)) = Long(LongSum(Units(book)) + units)
  <2> DEFINE f == Units(book)
             g == Units(after)
  <2>1. /\ DOMAIN f = DOMAIN book /\ DOMAIN g = DOMAIN f
        /\ \A x \in DOMAIN f : f[x] \in Int /\ g[x] \in Int
        /\ g[trader] = Long(f[trader] + units)
        /\ \A x \in DOMAIN f : x # trader => g[x] = f[x]
    BY <1>4, <1>5, <1>6, <1>7 DEF Units
  <2> HIDE DEF f, g
  <2>2. LongSum(g) = Long(LongSum(f) + units)
    BY <1>2, <2>1, LongSumMoves DEF units
  <2> QED BY <2>2 DEF f, g
<1>10. LongSum(Money(after)) = Long(LongSum(Money(book)) + (-money))
  <2> DEFINE f == Money(book)
             g == Money(after)
             d == -money
  <2>1. /\ DOMAIN f = DOMAIN book /\ DOMAIN g = DOMAIN f
        /\ \A x \in DOMAIN f : f[x] \in Int /\ g[x] \in Int
        /\ g[trader] = Long(f[trader] + d)
        /\ \A x \in DOMAIN f : x # trader => g[x] = f[x]
    BY <1>4, <1>5, <1>6, <1>7, <1>8 DEF Money
  <2>2. d \in Int
    BY <1>8
  <2> HIDE DEF f, g, d
  <2>3. LongSum(g) = Long(LongSum(f) + d)
    BY <2>1, <2>2, LongSumMoves
  <2> QED BY <2>3 DEF f, g, d
<1>11. units \in Int
  BY <1>2 DEF units
<1>12. money \in Int
  BY <1>3 DEF money
<1> QED BY <1>9, <1>10, <1>11, <1>12 DEF after, units, money

\* What is added and taken away again leaves a long as it was.
LEMMA LongBack ==
  ASSUME NEW x \in Int, NEW a \in Int, NEW b \in Int, a + b = 0
  PROVE  Long(Long(x + a) + b) = Long(x)
<1>1. Long(Long(x + a) + b) = Long((x + a) + b)
  BY LongAdd
<1>2. (x + a) + b = x
  OBVIOUS
<1> QED BY <1>1, <1>2

\* The finitely many accounts of a behaviour.
FiniteAccounts == IsFiniteSet(DOMAIN accounts)

LEMMA ZeroSumInit == Init => FiniteAccounts /\ ZeroSum
<1> SUFFICES ASSUME Init PROVE FiniteAccounts /\ ZeroSum
  OBVIOUS
<1>1. DOMAIN accounts = {} /\ FiniteAccounts
  BY FS_EmptySet DEF Init, EmptyMap, FiniteAccounts
<1>2. DOMAIN Units(accounts) = {} /\ DOMAIN Money(accounts) = {}
  BY <1>1 DEF Units, Money
<1>3. LongSum(Units(accounts)) = 0 /\ LongSum(Money(accounts)) = 0
  BY <1>2, SumEmpty, LongZero DEF LongSum
<1> QED BY <1>1, <1>3, ZeroSumIs

\* The buyer's and the seller's side of a trade cancel out.
LEMMA ZeroSumTraded ==
  ASSUME TypeOK, BookIntegrity, FiniteAccounts, ZeroSum, ExecuteTrade
  PROVE  FiniteAccounts' /\ ZeroSum'
<1>1. PICK i \in DOMAIN orders, j \in DOMAIN orders :
        /\ BookFront(i, j)
        /\ accounts' = Confirm(Confirm(accounts, orders[i].trader, "bid", Match(i, j)),
                               orders[j].trader, "ask", Match(i, j))
  BY DEF ExecuteTrade
<1> DEFINE t == Match(i, j)
           once == Confirm(accounts, orders[i].trader, "bid", t)
           both == Confirm(once, orders[j].trader, "ask", t)
           money == t.price * t.quantity
<1>2. t \in [price : Prices, quantity : 1..LongMax]
  BY MatchType
<1>3. orders[i].trader \in DOMAIN accounts /\ orders[j].trader \in DOMAIN accounts
  BY DEF BookIntegrity, OrdersFiled
<1>4. accounts \in [DOMAIN accounts -> Position] /\ IsFiniteSet(DOMAIN accounts)
  BY DEF TypeOK, FiniteAccounts
<1>5. "bid" \in OrderTypes /\ "ask" \in OrderTypes /\ Sign("bid") = 1 /\ Sign("ask") = -1
  BY DEF OrderTypes, Sign
<1>6. t.price \in Int /\ t.quantity \in Int
  <2> HIDE DEF t
  <2>1. t.price \in Prices /\ t.quantity \in 1..LongMax
    BY <1>2
  <2>2. t.price \in 1..LongMax
    BY <2>1, MarketAssumption
  <2> QED BY <2>1, <2>2, MarketAssumption
<1> HIDE DEF t
<1>7. money \in Int /\ (-1) * t.price * t.quantity = -money /\ 1 * t.price * t.quantity = money
  BY <1>6, SMT
<1> HIDE DEF money
<1>8. /\ LongSum(Units(once)) = Long(LongSum(Units(accounts)) + t.quantity)
      /\ LongSum(Money(once)) = Long(LongSum(Money(accounts)) + (-money))
  <2>1. /\ LongSum(Units(once)) = Long(LongSum(Units(accounts)) + Sign("bid") * t.quantity)
        /\ LongSum(Money(once))
             = Long(LongSum(Money(accounts)) + (-(Sign("bid") * t.price * t.quantity)))
    BY <1>2, <1>3, <1>4, <1>5, ConfirmMoves
  <2>2. Sign("bid") * t.quantity = t.quantity /\ Sign("bid") * t.price * t.quantity = money
    BY <1>5, <1>6, <1>7
  <2> QED BY <2>1, <2>2
<1>9. DOMAIN once = DOMAIN accounts /\ once \in [DOMAIN once -> Position]
  BY <1>2, <1>4, <1>5, ConfirmType
<1> HIDE DEF once
<1>10. /\ LongSum(Units(both)) = Long(LongSum(Units(once)) + (-t.quantity))
       /\ LongSum(Money(both)) = Long(LongSum(Money(once)) + money)
  <2>1. /\ LongSum(Units(both)) = Long(LongSum(Units(once)) + Sign("ask") * t.quantity)
        /\ LongSum(Money(both))
             = Long(LongSum(Money(once)) + (-(Sign("ask") * t.price * t.quantity)))
    BY <1>2, <1>3, <1>4, <1>5, <1>9, ConfirmMoves
  <2>2. Sign("ask") * t.quantity = -t.quantity
    BY <1>5, <1>6
  <2>3. -(Sign("ask") * t.price * t.quantity) = money
    BY <1>5, <1>7
  <2> QED BY <2>1, <2>2, <2>3
<1>11. both = accounts'
  BY <1>1 DEF both, once, t
<1>12. FiniteAccounts'
  <2>1. DOMAIN both = DOMAIN once
    BY <1>2, <1>5, <1>9, ConfirmType
  <2> QED BY <1>4, <1>9, <1>11, <2>1 DEF FiniteAccounts
<1> HIDE DEF both
<1>13. LongSum(Units(accounts)) = 0 /\ LongSum(Money(accounts)) = 0
  BY ZeroSumIs
<1>14. Long(Long(0 + t.quantity) + (-t.quantity)) = Long(0)
  <2>1. -t.quantity \in Int /\ t.quantity + (-t.quantity) = 0
    BY <1>6
  <2> QED BY <1>6, <2>1, LongBack
<1>15. Long(Long(0 + (-money)) + money) = Long(0)
  <2>1. -money \in Int /\ (-money) + money = 0
    BY <1>7
  <2> QED BY <1>7, <2>1, LongBack
<1> QED BY <1>8, <1>10, <1>11, <1>12, <1>13, <1>14, <1>15, LongZero, ZeroSumIsNext

\* A new account is empty.
LEMMA ZeroSumRegistered ==
  ASSUME TypeOK, FiniteAccounts, ZeroSum, NEW trader \in Traders, RegisterAccount(trader)
  PROVE  FiniteAccounts' /\ ZeroSum'
<1>1. CASE trader \in DOMAIN accounts
  BY <1>1, ZeroSumIs, ZeroSumIsNext DEF RegisterAccount, FiniteAccounts
<1>2. CASE trader \notin DOMAIN accounts
  <2> DEFINE new == accounts'
  <2>1. /\ DOMAIN new = DOMAIN accounts \cup {trader}
        /\ new[trader] = [count |-> 0, pnl |-> 0]
        /\ \A k \in DOMAIN accounts : new[k] = accounts[k]
    BY <1>2 DEF RegisterAccount, Put
  <2> HIDE DEF new
  <2>2. \A k \in DOMAIN accounts : accounts[k].count \in Int /\ accounts[k].pnl \in Int
    BY MarketAssumption DEF TypeOK, Position, LongRange
  <2>3. LongSum(Units(new)) = LongSum(Units(accounts))
    <3> DEFINE f == Units(accounts)
               g == Units(new)
    <3>1. /\ IsFiniteSet(DOMAIN f) /\ trader \notin DOMAIN f
          /\ DOMAIN g = DOMAIN f \cup {trader} /\ g[trader] = 0
          /\ \A x \in DOMAIN f : f[x] \in Int /\ g[x] = f[x]
      BY <1>2, <2>1, <2>2 DEF Units, FiniteAccounts
    <3> HIDE DEF f, g
    <3>2. LongSum(g) = LongSum(f)
      BY <3>1, LongSumGrows
    <3> QED BY <3>2 DEF f, g
  <2>4. LongSum(Money(new)) = LongSum(Money(accounts))
    <3> DEFINE f == Money(accounts)
               g == Money(new)
    <3>1. /\ IsFiniteSet(DOMAIN f) /\ trader \notin DOMAIN f
          /\ DOMAIN g = DOMAIN f \cup {trader} /\ g[trader] = 0
          /\ \A x \in DOMAIN f : f[x] \in Int /\ g[x] = f[x]
      BY <1>2, <2>1, <2>2 DEF Money, FiniteAccounts
    <3> HIDE DEF f, g
    <3>2. LongSum(g) = LongSum(f)
      BY <3>1, LongSumGrows
    <3> QED BY <3>2 DEF f, g
  <2>5. IsFiniteSet(DOMAIN new)
    BY <2>1, FS_AddElement DEF FiniteAccounts
  <2> QED BY <2>3, <2>4, <2>5, ZeroSumIs, ZeroSumIsNext DEF new, FiniteAccounts
<1> QED BY <1>1, <1>2

LEMMA ZeroSumStep ==
  BookInv /\ FiniteAccounts /\ ZeroSum /\ [Next]_vars => FiniteAccounts' /\ ZeroSum'
<1> SUFFICES ASSUME TypeOK, BookIntegrity, FiniteAccounts, ZeroSum, [Next]_vars
             PROVE  FiniteAccounts' /\ ZeroSum'
  BY DEF BookInv
<1>1. UNCHANGED accounts => FiniteAccounts' /\ ZeroSum'
  BY ZeroSumIs, ZeroSumIsNext DEF FiniteAccounts
<1>2. ASSUME NEW t \in Traders, NEW p \in Prices, NEW q \in Quantities,
             PlaceBid(t, p, q) \/ PlaceAsk(t, p, q)
      PROVE  UNCHANGED accounts
  BY <1>2 DEF PlaceBid, PlaceAsk, NewOrder
<1>3. ASSUME NEW t \in Traders, NEW id \in DOMAIN orders, CancelOrder(t, id)
      PROVE  UNCHANGED accounts
  BY <1>3 DEF CancelOrder
<1>4. EndMatching \/ UNCHANGED vars => UNCHANGED accounts
  BY DEF EndMatching, vars
<1> QED BY <1>1, <1>2, <1>3, <1>4, ZeroSumRegistered, ZeroSumTraded DEF Next

\* Trading creates neither units nor money: whatever is placed, traded and
\* cancelled, over all accounts the units held and the profits sum to nothing
\* modulo the width of a long, also where a trader meets its own order and
\* where a product of price and quantity wraps (position::confirm,
\* update_accounts, market.cpp:41-53).
THEOREM NothingCreated == Spec => []ZeroSum
<1> QED BY ZeroSumInit, ZeroSumStep, BookInvariant, PTL DEF Spec

-----------------------------------------------------------------------------
(* The abstract market settles with the operators of Settlement. *)

LEMMA SameSum ==
  ASSUME NEW f, NEW S
  PROVE  Promised!SumFunctionOnSet(f, S) = SumFunctionOnSet(f, S)
BY SumDef DEF IsRec, First, Promised!SumFunctionOnSet, Promised!FoldFunctionOnSet,
              Promised!MapThenFoldSet

LEMMA SameFills ==
  ASSUME NEW open, NEW n
  PROVE  /\ Promised!Meets(open, n) = Meets(open, n)
         /\ \A m, k : Promised!Before(open, m, k) <=> Before(open, m, k)
         /\ Promised!Fills(open, n) = Fills(open, n)
<1>1. \A type : Promised!Direction(type) = Direction(type)
  BY DEF Direction, Promised!Direction
<1>2. Promised!Meets(open, n) = Meets(open, n)
  BY <1>1 DEF Meets, Promised!Meets
<1>3. \A m, k : Promised!Before(open, m, k) <=> Before(open, m, k)
  BY <1>1 DEF Before, Promised!Before
<1>4. Promised!Sizes(open) = Sizes(open)
  BY DEF Sizes, Promised!Sizes
<1>5. \A m : Promised!Ahead(open, n, m) = Ahead(open, n, m)
  BY <1>2, <1>3 DEF Ahead, Promised!Ahead
<1>6. \A m : Promised!Taken(open, n, m) = Taken(open, n, m)
  BY <1>4, <1>5, SameSum DEF Taken, Promised!Taken
<1>7. Promised!Fills(open, n) = Fills(open, n)
  BY <1>2, <1>6 DEF Fills, Promised!Fills
<1> QED BY <1>2, <1>3, <1>7

LEMMA SameBook ==
  ASSUME NEW open, NEW n
  PROVE  Promised!SettledBook(open, n) = SettledBook(open, n)
<1>1. Promised!SumFunction(Fills(open, n)) = SumFunction(Fills(open, n))
  BY SameSum DEF SumFunction, Promised!SumFunction
<1>2. \A k : Promised!Left(open, n, k) = Left(open, n, k)
  BY <1>1, SameFills DEF Left, Promised!Left
<1> QED BY <1>2 DEF SettledBook, Promised!SettledBook

LEMMA SameDealt ==
  ASSUME NEW open, NEW n, NEW t
  PROVE  /\ Promised!DealtUnits(open, n, t) = DealtUnits(open, n, t)
         /\ Promised!DealtMoney(open, n, t) = DealtMoney(open, n, t)
<1>1. \A m : Promised!Part(open, m, t) = Part(open, m, t)
  BY DEF Part, Promised!Part, Direction, Promised!Direction
<1>2. \A value : Promised!Dealt(open, n, t, value) = Dealt(open, n, t, value)
  BY <1>1, SameFills, SameSum
     DEF Dealt, Promised!Dealt, SumFunction, Promised!SumFunction
<1> QED BY <1>2 DEF DealtUnits, DealtMoney, Promised!DealtUnits, Promised!DealtMoney

LEMMA SameLast ==
  ASSUME NEW open, NEW n, NEW before
  PROVE  Promised!SettledLast(open, n, before) = SettledLast(open, n, before)
<1>1. Promised!Final(open, n) = Final(open, n)
  BY SameFills DEF Final, Promised!Final
<1> QED BY <1>1, SameFills DEF SettledLast, Promised!SettledLast

\* Wrap is the long of the build.
LEMMA SamePositions ==
  ASSUME NEW open, NEW n, NEW held
  PROVE  Promised!SettledPositions(open, n, held)
           = [t \in DOMAIN held |->
                [count |-> Long(held[t].count + DealtUnits(open, n, t)),
                 pnl   |-> Long(held[t].pnl - DealtMoney(open, n, t))]]
<1>1. \A x : Promised!Wrap(x) = Long(x)
  BY DEF Long, Promised!Wrap
<1> QED BY <1>1, SameDealt DEF Promised!SettledPositions

-----------------------------------------------------------------------------
(* Sums of fills. *)

\* A sum of naturals is one.
LEMMA SumNat ==
  ASSUME NEW S, IsFiniteSet(S), NEW f, \A x \in S : f[x] \in Nat
  PROVE  SumFunctionOnSet(f, S) \in Nat
<1> DEFINE Good == {T \in SUBSET S : SumFunctionOnSet(f, T) \in Nat}
<1>1. ASSUME NEW T \in SUBSET S, \A U \in SUBSET T : U # T => U \in Good
      PROVE  T \in Good
  <2>1. CASE T = {}
    BY <2>1, SumEmpty
  <2>2. CASE T # {}
    <3>1. IsFiniteSet(T)
      BY FS_Subset
    <3>2. First(T) \in T /\ T \ {First(T)} \in Good
      BY <1>1, <2>2, FirstIn
    <3>3. SumFunctionOnSet(f, T) = f[First(T)] + SumFunctionOnSet(f, T \ {First(T)})
      BY <2>2, <3>1, SumFirst
    <3> QED BY <3>2, <3>3
  <2> QED BY <2>1, <2>2
<1> HIDE DEF Good
<1>2. \A T \in SUBSET S : T \in Good
  BY <1>1, SubsetInduction
<1>3. S \in Good
  BY <1>2
<1> QED BY <1>3 DEF Good

\* A sum of naturals is no less than any of them.
LEMMA SumAtLeast ==
  ASSUME NEW S, IsFiniteSet(S), NEW f, \A x \in S : f[x] \in Nat, NEW y \in S
  PROVE  SumFunctionOnSet(f, S) >= f[y]
<1>1. SumFunctionOnSet(f, S) = f[y] + SumFunctionOnSet(f, S \ {y})
  BY SumRemove
<1>2. SumFunctionOnSet(f, S \ {y}) \in Nat
  BY FS_Subset, SumNat
<1> QED BY <1>1, <1>2

\* A sum of zeros is zero.
LEMMA SumZero ==
  ASSUME NEW S, IsFiniteSet(S), NEW f, \A x \in S : f[x] = 0
  PROVE  SumFunctionOnSet(f, S) = 0
<1> DEFINE Good == {T \in SUBSET S : SumFunctionOnSet(f, T) = 0}
<1>1. ASSUME NEW T \in SUBSET S, \A U \in SUBSET T : U # T => U \in Good
      PROVE  T \in Good
  <2>1. CASE T = {}
    BY <2>1, SumEmpty
  <2>2. CASE T # {}
    <3>1. IsFiniteSet(T)
      BY FS_Subset
    <3>2. First(T) \in T /\ T \ {First(T)} \in Good
      BY <1>1, <2>2, FirstIn
    <3>3. SumFunctionOnSet(f, T) = f[First(T)] + SumFunctionOnSet(f, T \ {First(T)})
      BY <2>2, <3>1, SumFirst
    <3> QED BY <3>2, <3>3
  <2> QED BY <2>1, <2>2
<1> HIDE DEF Good
<1>2. \A T \in SUBSET S : T \in Good
  BY <1>1, SubsetInduction
<1>3. S \in Good
  BY <1>2
<1> QED BY <1>3 DEF Good

\* The first fill comes off a sum of fills, and the rest is the sum of those
\* that remain, if any.
LEMMA SumSplit ==
  ASSUME NEW f, NEW g, IsFiniteSet(DOMAIN f), \A x \in DOMAIN f : f[x] \in Int,
         NEW y \in DOMAIN f,
         \/ /\ DOMAIN g = DOMAIN f \ {y}
            /\ \A x \in DOMAIN g : g[x] = f[x]
         \/ /\ DOMAIN g = {}
            /\ \A x \in DOMAIN f \ {y} : f[x] = 0
  PROVE  SumFunction(f) = f[y] + SumFunction(g)
<1> DEFINE rest == SumFunctionOnSet(f, DOMAIN f \ {y})
<1>1. SumFunction(f) = f[y] + rest
  BY SumRemove DEF SumFunction
<1>2. IsFiniteSet(DOMAIN f \ {y})
  BY FS_Subset
<1>3. rest = SumFunctionOnSet(g, DOMAIN g)
  <2>1. CASE DOMAIN g = DOMAIN f \ {y} /\ \A x \in DOMAIN g : g[x] = f[x]
    BY <1>2, <2>1, SumSame
  <2>2. CASE DOMAIN g = {} /\ \A x \in DOMAIN f \ {y} : f[x] = 0
    BY <1>2, <2>2, SumZero, SumEmpty
  <2> QED BY <2>1, <2>2
<1> QED BY <1>1, <1>3 DEF SumFunction

-----------------------------------------------------------------------------
(* One trade. *)

\* Open orders, as the operators of Settlement look at them.
IsOpen(open) ==
  /\ IsFiniteSet(DOMAIN open) /\ DOMAIN open \subseteq Nat
  /\ \A k \in DOMAIN open :
       /\ open[k] \in Order
       /\ open[k].type \in OrderTypes
       /\ open[k].price \in Int
       /\ open[k].quantity \in Nat \ {0}

\* Order m is the first of those that order n meets, q is traded between
\* the two, and new are the orders after the trade.
Takes(open, new, n, m, q) ==
  /\ m \in Meets(open, n)
  /\ \A k \in Meets(open, n) \ {m} : Before(open, m, k) /\ ~Before(open, k, m)
  /\ q = IF open[n].quantity <= open[m].quantity
            THEN open[n].quantity ELSE open[m].quantity
  /\ DOMAIN new = DOMAIN open \ {k \in {n, m} : open[k].quantity = q}
  /\ \A k \in DOMAIN new :
       new[k] = [open[k] EXCEPT !.quantity = @ - (IF k \in {n, m} THEN q ELSE 0)]

\* What a trade changes of the orders
LEMMA TradeFields ==
  ASSUME NEW open, NEW new, NEW n, NEW m, NEW q, IsOpen(open), IsOpen(new),
         Takes(open, new, n, m, q)
  PROVE  /\ n \in DOMAIN open /\ m \in DOMAIN open /\ m # n /\ ~Before(open, m, m)
         /\ q \in Nat \ {0} /\ q <= open[n].quantity /\ q <= open[m].quantity
         /\ q \in {open[n].quantity, open[m].quantity}
         /\ DOMAIN new \subseteq DOMAIN open
         /\ \A k \in DOMAIN open : k \in DOMAIN new <=> ~(k \in {n, m} /\ open[k].quantity = q)
         /\ \A k \in DOMAIN new :
              /\ new[k].trader = open[k].trader
              /\ new[k].type = open[k].type
              /\ new[k].price = open[k].price
              /\ k \in {n, m} => new[k].quantity = open[k].quantity - q
              /\ k \notin {n, m} => new[k].quantity = open[k].quantity
<1>1. n \in DOMAIN open /\ m \in DOMAIN open /\ m # n
  BY DEF Takes, Meets
<1>2. ~Before(open, m, m)
  BY <1>1 DEF Before, IsOpen, Direction
<1>3. /\ q \in Nat \ {0} /\ q <= open[n].quantity /\ q <= open[m].quantity
      /\ q \in {open[n].quantity, open[m].quantity}
  BY <1>1 DEF Takes, IsOpen
<1>4. /\ DOMAIN new \subseteq DOMAIN open
      /\ \A k \in DOMAIN open : k \in DOMAIN new <=> ~(k \in {n, m} /\ open[k].quantity = q)
  BY DEF Takes
<1>5. ASSUME NEW k \in DOMAIN new
      PROVE  /\ new[k].trader = open[k].trader
             /\ new[k].type = open[k].type
             /\ new[k].price = open[k].price
             /\ k \in {n, m} => new[k].quantity = open[k].quantity - q
             /\ k \notin {n, m} => new[k].quantity = open[k].quantity
  <2>1. open[k] \in [trader : Traders, type : OrderTypes, price : Prices, quantity : 1..LongMax]
        /\ open[k].quantity \in Int
    BY <1>4 DEF IsOpen, Order
  <2>2. new[k] = [open[k] EXCEPT !.quantity = @ - (IF k \in {n, m} THEN q ELSE 0)]
    BY DEF Takes
  <2> QED BY <2>1, <2>2
<1> QED BY <1>1, <1>2, <1>3, <1>4, <1>5

\* Orders that a trade leaves open meet and precede each other as before.
LEMMA TradeOrder ==
  ASSUME NEW open, NEW new, NEW n, NEW m, NEW q, IsOpen(open), IsOpen(new),
         Takes(open, new, n, m, q)
  PROVE  /\ \A k, l \in DOMAIN new : Before(new, k, l) <=> Before(open, k, l)
         /\ n \notin DOMAIN new => Meets(new, n) = {}
         /\ n \in DOMAIN new => m \notin DOMAIN new /\ Meets(new, n) = Meets(open, n) \ {m}
<1>1. \A k, l \in DOMAIN new : Before(new, k, l) <=> Before(open, k, l)
  BY TradeFields DEF Before
<1>2. n \notin DOMAIN new => Meets(new, n) = {}
  BY DEF Meets
<1>3. ASSUME n \in DOMAIN new
      PROVE  m \notin DOMAIN new /\ Meets(new, n) = Meets(open, n) \ {m}
  <2>1. m \notin DOMAIN new /\ DOMAIN new = DOMAIN open \ {m}
    BY <1>3, TradeFields
  <2> QED BY <1>3, <2>1, TradeFields DEF Meets
<1> QED BY <1>1, <1>2, <1>3

LEMMA AheadSums ==
  ASSUME NEW open, NEW n, NEW k, IsOpen(open)
  PROVE  /\ IsFiniteSet(Meets(open, n)) /\ IsFiniteSet(Ahead(open, n, k))
         /\ \A x \in Ahead(open, n, k) : Sizes(open)[x] \in Nat
         /\ SumFunctionOnSet(Sizes(open), Ahead(open, n, k)) \in Nat
<1>1. Meets(open, n) \subseteq DOMAIN open /\ Ahead(open, n, k) \subseteq DOMAIN open
  BY DEF Meets, Ahead
<1>2. IsFiniteSet(Meets(open, n)) /\ IsFiniteSet(Ahead(open, n, k))
  BY <1>1, FS_Subset DEF IsOpen
<1>3. \A x \in Ahead(open, n, k) : Sizes(open)[x] \in Nat
  BY <1>1 DEF Sizes, IsOpen
<1> QED BY <1>2, <1>3, SumNat

\* A fill is a number, and no more than the resting order has.
LEMMA FillType ==
  ASSUME NEW open, NEW n, IsOpen(open)
  PROVE  /\ DOMAIN Fills(open, n) = Meets(open, n)
         /\ \A k \in Meets(open, n) : Fills(open, n)[k] \in Nat
         /\ \A k \in Meets(open, n) : Fills(open, n)[k] <= open[k].quantity
<1> SUFFICES ASSUME NEW k \in Meets(open, n)
             PROVE  Taken(open, n, k) \in Nat /\ Taken(open, n, k) <= open[k].quantity
  BY DEF Fills
<1>1. open[k].quantity \in Nat /\ open[n].quantity \in Nat
  BY DEF Meets, IsOpen
<1>2. SumFunctionOnSet(Sizes(open), Ahead(open, n, k)) \in Nat
  BY AheadSums
<1> QED BY <1>1, <1>2 DEF Taken

\* The trade is the fill of the first order.  Of the other fills, either all
\* are the same after the trade, or the newest order is used up and they
\* are empty.
LEMMA TradeFills ==
  ASSUME NEW open, NEW new, NEW n, NEW m, NEW q, IsOpen(open), IsOpen(new),
         Takes(open, new, n, m, q)
  PROVE  /\ Fills(open, n)[m] = q
         /\ \/ /\ n \in DOMAIN new
               /\ Meets(new, n) = Meets(open, n) \ {m}
               /\ \A k \in Meets(new, n) : Fills(new, n)[k] = Fills(open, n)[k]
            \/ /\ n \notin DOMAIN new
               /\ Meets(new, n) = {}
               /\ \A k \in Meets(open, n) \ {m} : Fills(open, n)[k] = 0
<1> DEFINE Sum(os, k) == SumFunctionOnSet(Sizes(os), Ahead(os, n, k))
<1>1. /\ n \in DOMAIN open /\ m \in DOMAIN open /\ m # n /\ ~Before(open, m, m)
      /\ m \in Meets(open, n)
      /\ \A k \in Meets(open, n) \ {m} : Before(open, m, k) /\ ~Before(open, k, m)
  BY TradeFields DEF Takes
<1>2. open[n].quantity \in Nat \ {0} /\ open[m].quantity \in Nat \ {0}
  BY <1>1 DEF IsOpen
<1>3. Fills(open, n)[m] = q
  <2>1. Ahead(open, n, m) = {}
    BY <1>1 DEF Ahead
  <2>2. Sum(open, m) = 0
    BY <2>1, SumEmpty
  <2>3. Taken(open, n, m) = q
    BY <1>2, <2>2 DEF Taken, Takes
  <2> QED BY <1>1, <2>3 DEF Fills
<1>4. ASSUME n \in DOMAIN new
      PROVE  /\ Meets(new, n) = Meets(open, n) \ {m}
             /\ \A k \in Meets(new, n) : Fills(new, n)[k] = Fills(open, n)[k]
  <2>1. m \notin DOMAIN new /\ Meets(new, n) = Meets(open, n) \ {m}
    BY <1>4, TradeOrder
  <2>2. q = open[m].quantity /\ new[n].quantity = open[n].quantity - q
    BY <1>1, <1>4, <2>1, TradeFields
  <2> SUFFICES ASSUME NEW k \in Meets(new, n)
               PROVE  Taken(new, n, k) = Taken(open, n, k)
    BY <2>1 DEF Fills
  <2>3. k \in DOMAIN new /\ k \in DOMAIN open /\ k \notin {n, m} /\ k \in Meets(open, n)
    BY <2>1, TradeFields DEF Meets
  <2>4. m \in Ahead(open, n, k) /\ Ahead(new, n, k) = Ahead(open, n, k) \ {m}
    <3>1. Meets(new, n) \subseteq DOMAIN new
      BY DEF Meets
    <3>2. \A l \in Meets(new, n) : Before(new, l, k) <=> Before(open, l, k)
      BY <2>3, <3>1, TradeOrder
    <3> QED BY <1>1, <2>1, <2>3, <3>2 DEF Ahead
  <2>5. Sum(open, k) = q + Sum(new, k)
    <3>1. Sum(open, k) = Sizes(open)[m] + SumFunctionOnSet(Sizes(open), Ahead(open, n, k) \ {m})
      <4>1. \A x \in Ahead(open, n, k) : Sizes(open)[x] \in Int
        BY AheadSums
      <4> QED BY <2>4, <4>1, AheadSums, SumRemove
    <3>2. Sizes(open)[m] = q
      BY <1>1, <2>2 DEF Sizes
    <3>3. \A x \in Ahead(new, n, k) : Sizes(open)[x] = Sizes(new)[x]
      <4>1. Ahead(new, n, k) \subseteq DOMAIN new \ {n, m}
        BY <2>1 DEF Ahead, Meets
      <4> QED BY <4>1, TradeFields DEF Sizes
    <3>4. SumFunctionOnSet(Sizes(open), Ahead(new, n, k)) = Sum(new, k)
      BY <3>3, AheadSums, SumSame
    <3> QED BY <2>4, <3>1, <3>2, <3>4
  <2>6. Sum(open, k) \in Nat /\ Sum(new, k) \in Nat
    BY AheadSums
  <2>7. new[k].quantity = open[k].quantity
    BY <2>3, TradeFields
  <2>8. open[n].quantity - Sum(open, k) = new[n].quantity - Sum(new, k)
    BY <1>2, <2>2, <2>5, <2>6
  <2> QED BY <2>7, <2>8 DEF Taken
<1>5. ASSUME n \notin DOMAIN new
      PROVE  /\ Meets(new, n) = {}
             /\ \A k \in Meets(open, n) \ {m} : Fills(open, n)[k] = 0
  <2>1. Meets(new, n) = {}
    BY <1>5, TradeOrder
  <2>2. open[n].quantity <= open[m].quantity
    BY <1>1, <1>5, TradeFields
  <2>3. ASSUME NEW k \in Meets(open, n) \ {m} PROVE Fills(open, n)[k] = 0
    <3>1. m \in Ahead(open, n, k)
      BY <1>1 DEF Ahead
    <3>2. Sum(open, k) >= Sizes(open)[m] /\ Sum(open, k) \in Nat
      BY <3>1, AheadSums, SumAtLeast
    <3>3. Sizes(open)[m] = open[m].quantity
      BY <1>1 DEF Sizes
    <3>4. Taken(open, n, k) = 0
      BY <1>2, <2>2, <3>2, <3>3 DEF Taken
    <3> QED BY <3>4 DEF Fills
  <2> QED BY <2>1, <2>3
<1> QED BY <1>3, <1>4, <1>5

\* What is left of each order to settle is the same after the trade.
LEMMA TradeLeft ==
  ASSUME NEW open, NEW new, NEW n, NEW m, NEW q, IsOpen(open), IsOpen(new),
         Takes(open, new, n, m, q)
  PROVE  /\ \A k \in DOMAIN new : Left(new, n, k) = Left(open, n, k)
         /\ \A k \in DOMAIN open \ DOMAIN new : Left(open, n, k) = 0
<1> DEFINE F == Fills(open, n)
           G == Fills(new, n)
<1>1. /\ DOMAIN F = Meets(open, n) /\ \A k \in Meets(open, n) : F[k] \in Nat
      /\ DOMAIN G = Meets(new, n) /\ \A k \in Meets(new, n) : G[k] \in Nat
  BY FillType
<1>2. m \in Meets(open, n) /\ IsFiniteSet(Meets(open, n)) /\ IsFiniteSet(Meets(new, n))
  BY AheadSums DEF Takes
<1>3. SumFunction(G) \in Nat
  BY <1>1, <1>2, SumNat DEF SumFunction
<1>4. F[m] = q
  BY TradeFills
<1>5. \/ /\ n \in DOMAIN new
         /\ Meets(new, n) = Meets(open, n) \ {m}
         /\ \A k \in Meets(new, n) : G[k] = F[k]
      \/ /\ n \notin DOMAIN new
         /\ Meets(new, n) = {}
         /\ \A k \in Meets(open, n) \ {m} : F[k] = 0
  BY TradeFills
<1> HIDE DEF F, G
<1>6. SumFunction(F) = q + SumFunction(G)
  <2>1. /\ IsFiniteSet(DOMAIN F) /\ m \in DOMAIN F
        /\ \A x \in DOMAIN F : F[x] \in Int
    BY <1>1, <1>2
  <2>2. \/ DOMAIN G = DOMAIN F \ {m} /\ \A x \in DOMAIN G : G[x] = F[x]
        \/ DOMAIN G = {} /\ \A x \in DOMAIN F \ {m} : F[x] = 0
    BY <1>1, <1>5
  <2>3. SumFunction(F) = F[m] + SumFunction(G)
    BY <2>1, <2>2, SumSplit
  <2> QED BY <1>4, <2>3
<1>7. n \notin Meets(open, n) /\ n \notin Meets(new, n)
  BY DEF Meets
<1>8. \A k : /\ k \in Meets(open, n) => Left(open, n, k) = open[k].quantity - F[k]
             /\ k = n => Left(open, n, k) = open[k].quantity - SumFunction(F)
             /\ k \notin Meets(open, n) /\ k # n => Left(open, n, k) = open[k].quantity
  BY <1>7 DEF Left, F
<1>9. \A k : /\ k \in Meets(new, n) => Left(new, n, k) = new[k].quantity - G[k]
             /\ k = n => Left(new, n, k) = new[k].quantity - SumFunction(G)
             /\ k \notin Meets(new, n) /\ k # n => Left(new, n, k) = new[k].quantity
  BY <1>7 DEF Left, G
<1>10. /\ q \in Nat \ {0} /\ n \in DOMAIN open /\ m # n
       /\ \A k \in DOMAIN open : open[k].quantity \in Nat
  BY TradeFields DEF IsOpen
<1>11. ASSUME NEW k \in DOMAIN new PROVE Left(new, n, k) = Left(open, n, k)
  <2>1. /\ k \in DOMAIN open /\ open[k].quantity \in Nat
        /\ k \in {n, m} => new[k].quantity = open[k].quantity - q
        /\ k \notin {n, m} => new[k].quantity = open[k].quantity
    BY <1>10, TradeFields
  <2>2. CASE k = n
    BY <1>3, <1>6, <1>8, <1>9, <1>10, <2>1, <2>2
  <2>3. CASE k = m
    <3>1. m \notin Meets(new, n)
      BY <1>5
    <3> QED BY <1>2, <1>4, <1>8, <1>9, <1>10, <2>1, <2>3, <3>1
  <2>4. CASE k \notin {n, m} /\ k \in Meets(open, n)
    BY <1>5, <1>8, <1>9, <2>1, <2>4
  <2>5. CASE k \notin {n, m} /\ k \notin Meets(open, n)
    BY <1>5, <1>8, <1>9, <2>1, <2>5
  <2> QED BY <2>2, <2>3, <2>4, <2>5
<1>12. ASSUME NEW k \in DOMAIN open \ DOMAIN new PROVE Left(open, n, k) = 0
  <2>1. k \in {n, m} /\ open[k].quantity = q
    BY TradeFields
  <2>2. CASE k = m
    BY <1>2, <1>4, <1>8, <1>10, <2>1, <2>2
  <2>3. CASE k = n
    <3>1. DOMAIN G = {}
      BY <1>1, <1>5, <2>3
    <3>2. SumFunction(G) = 0
      BY <3>1, SumEmpty DEF SumFunction
    <3> QED BY <1>6, <1>8, <1>10, <2>1, <2>3, <3>2
  <2> QED BY <2>1, <2>2, <2>3
<1> QED BY <1>11, <1>12

LEMMA TradeBook ==
  ASSUME NEW open, NEW new, NEW n, NEW m, NEW q, IsOpen(open), IsOpen(new),
         Takes(open, new, n, m, q)
  PROVE  SettledBook(new, n) = SettledBook(open, n)
<1> DEFINE S == {x \in DOMAIN open : Left(open, n, x) > 0}
<1>1. {x \in DOMAIN new : Left(new, n, x) > 0} = S
  BY TradeLeft, TradeFields
<1>2. S \subseteq DOMAIN new
  BY <1>1
<1>3. ASSUME NEW k \in DOMAIN new
      PROVE  [new[k] EXCEPT !.quantity = Left(new, n, k)]
               = [open[k] EXCEPT !.quantity = Left(open, n, k)]
  <2>1. /\ open[k] \in [trader : Traders, type : OrderTypes, price : Prices, quantity : 1..LongMax]
        /\ new[k] \in [trader : Traders, type : OrderTypes, price : Prices, quantity : 1..LongMax]
    BY TradeFields DEF IsOpen, Order
  <2>2. new[k].trader = open[k].trader /\ new[k].type = open[k].type /\ new[k].price = open[k].price
    BY TradeFields
  <2>3. Left(new, n, k) = Left(open, n, k)
    BY TradeLeft
  <2> QED BY <2>1, <2>2, <2>3
<1>4. SettledBook(open, n) = [k \in S |-> [open[k] EXCEPT !.quantity = Left(open, n, k)]]
  BY DEF SettledBook
<1>5. SettledBook(new, n) = [k \in S |-> [new[k] EXCEPT !.quantity = Left(new, n, k)]]
  BY <1>1 DEF SettledBook
<1> HIDE DEF S
<1> QED BY <1>2, <1>3, <1>4, <1>5

\* The values of a sum of fills
Worth(open, n, t, value) ==
  [k \in Meets(open, n) |->
     (Part(open, k, t) + Part(open, n, t)) * (value[k] * Fills(open, n)[k])]

LEMMA WorthType ==
  ASSUME NEW open, NEW n, IsOpen(open), NEW t,
         NEW value, \A k \in DOMAIN open : value[k] \in Int
  PROVE  /\ Dealt(open, n, t, value) = SumFunction(Worth(open, n, t, value))
         /\ DOMAIN Worth(open, n, t, value) = Meets(open, n)
         /\ \A k \in Meets(open, n) :
              /\ Part(open, k, t) + Part(open, n, t) \in Int
              /\ value[k] * Fills(open, n)[k] \in Int
              /\ Worth(open, n, t, value)[k] \in Int
         /\ Dealt(open, n, t, value) \in Int
<1>1. Dealt(open, n, t, value) = SumFunction(Worth(open, n, t, value))
  BY DEF Dealt, Worth
<1>2. DOMAIN Worth(open, n, t, value) = Meets(open, n)
  BY DEF Worth
<1>3. ASSUME NEW k \in Meets(open, n)
      PROVE  /\ Part(open, k, t) + Part(open, n, t) \in Int
             /\ value[k] * Fills(open, n)[k] \in Int
             /\ Worth(open, n, t, value)[k] \in Int
  <2> DEFINE p == Part(open, k, t) + Part(open, n, t)
             v == value[k] * Fills(open, n)[k]
  <2>1. \A x : Part(open, x, t) \in {-1, 0, 1}
    BY DEF Part, Direction
  <2>2. p \in Int
    BY <2>1
  <2>3. value[k] \in Int /\ Fills(open, n)[k] \in Int
    <3>1. k \in DOMAIN open
      BY DEF Meets
    <3>2. Fills(open, n)[k] \in Nat
      BY FillType
    <3> QED BY <3>1, <3>2
  <2>4. v \in Int
    BY <2>3
  <2>5. Worth(open, n, t, value)[k] = p * v
    BY DEF Worth
  <2> HIDE DEF p, v
  <2>6. p * v \in Int
    BY <2>2, <2>4
  <2> QED BY <2>2, <2>4, <2>5, <2>6 DEF p, v
<1>4. SumFunction(Worth(open, n, t, value)) \in Int
  BY <1>2, <1>3, AheadSums, SumType DEF SumFunction
<1> QED BY <1>1, <1>2, <1>3, <1>4

\* What is still to be dealt is what was, less the trade.
LEMMA TradeDealt ==
  ASSUME NEW open, NEW new, NEW n, NEW m, NEW q, IsOpen(open), IsOpen(new),
         Takes(open, new, n, m, q), NEW t,
         NEW value, \A k \in DOMAIN open : value[k] \in Int,
         NEW later, \A k \in DOMAIN new : later[k] = value[k]
  PROVE  Dealt(open, n, t, value)
           = (Part(open, m, t) + Part(open, n, t)) * (value[m] * q)
             + Dealt(new, n, t, later)
<1> DEFINE f == Worth(open, n, t, value)
           g == Worth(new, n, t, later)
<1>1. DOMAIN new \subseteq DOMAIN open /\ m \in Meets(open, n) /\ IsFiniteSet(Meets(open, n))
  BY TradeFields, AheadSums DEF Takes
<1>2. \A k \in DOMAIN new : later[k] \in Int
  BY <1>1
<1>3. /\ Dealt(open, n, t, value) = SumFunction(f) /\ DOMAIN f = Meets(open, n)
      /\ \A k \in DOMAIN f : f[k] \in Int
      /\ Dealt(new, n, t, later) = SumFunction(g) /\ DOMAIN g = Meets(new, n)
  BY <1>2, WorthType
<1>4. f[m] = (Part(open, m, t) + Part(open, n, t)) * (value[m] * q)
  BY <1>1, TradeFills DEF Worth
<1>5. \/ /\ DOMAIN g = DOMAIN f \ {m} /\ \A k \in DOMAIN g : g[k] = f[k]
      \/ /\ DOMAIN g = {} /\ \A k \in DOMAIN f \ {m} : f[k] = 0
  <2>1. CASE /\ n \in DOMAIN new
             /\ Meets(new, n) = Meets(open, n) \ {m}
             /\ \A k \in Meets(new, n) : Fills(new, n)[k] = Fills(open, n)[k]
    <3>1. ASSUME NEW k \in Meets(new, n) PROVE g[k] = f[k]
      <4>1. k \in DOMAIN new /\ n \in DOMAIN new /\ k \in Meets(open, n)
        BY <2>1 DEF Meets
      <4>2. Part(new, k, t) = Part(open, k, t) /\ Part(new, n, t) = Part(open, n, t)
        BY <4>1, TradeFields DEF Part
      <4>3. later[k] = value[k] /\ Fills(new, n)[k] = Fills(open, n)[k]
        BY <2>1, <4>1
      <4> QED BY <4>1, <4>2, <4>3 DEF Worth
    <3> QED BY <1>3, <2>1, <3>1
  <2>2. CASE /\ Meets(new, n) = {}
             /\ \A k \in Meets(open, n) \ {m} : Fills(open, n)[k] = 0
    <3>1. ASSUME NEW k \in Meets(open, n) \ {m} PROVE f[k] = 0
      <4>1. Fills(open, n)[k] = 0 /\ value[k] \in Int
        BY <2>2 DEF Meets
      <4>2. value[k] * Fills(open, n)[k] = 0
        BY <4>1
      <4>3. Part(open, k, t) + Part(open, n, t) \in Int
        BY WorthType
      <4>4. f[k] = (Part(open, k, t) + Part(open, n, t)) * (value[k] * Fills(open, n)[k])
        BY DEF Worth
      <4> QED BY <4>2, <4>3, <4>4
    <3> QED BY <1>3, <2>2, <3>1
  <2> QED BY <2>1, <2>2, TradeFills
<1> HIDE DEF f, g
<1>6. SumFunction(f) = f[m] + SumFunction(g)
  <2>1. IsFiniteSet(DOMAIN f) /\ m \in DOMAIN f
    BY <1>1, <1>3
  <2> QED BY <1>3, <1>5, <2>1, SumSplit
<1> QED BY <1>3, <1>4, <1>6

\* The orders that one order meets are on one side, and the rule of priority
\* orders them.
LEMMA BeforeOrder ==
  ASSUME NEW open, NEW n, IsOpen(open)
  PROVE  \A x, y, z \in Meets(open, n) :
           /\ ~Before(open, x, x)
           /\ Before(open, x, y) /\ Before(open, y, z) => Before(open, x, z)
<1> SUFFICES ASSUME NEW x \in Meets(open, n), NEW y \in Meets(open, n), NEW z \in Meets(open, n)
             PROVE  /\ ~Before(open, x, x)
                    /\ Before(open, x, y) /\ Before(open, y, z) => Before(open, x, z)
  OBVIOUS
<1> DEFINE d == Direction(open[x].type)
<1>1. /\ open[x].price \in Int /\ open[y].price \in Int /\ open[z].price \in Int
      /\ x \in Int /\ y \in Int /\ z \in Int
  BY DEF Meets, IsOpen
<1>2. d \in {1, -1} /\ Direction(open[y].type) = d
  <2>1. /\ open[x].type \in OrderTypes /\ open[y].type \in OrderTypes
        /\ open[n].type \in OrderTypes
        /\ open[x].type # open[n].type /\ open[y].type # open[n].type
    BY DEF Meets, IsOpen
  <2> QED BY <2>1 DEF Direction, OrderTypes
<1>3. /\ Before(open, x, x) <=> (d * (open[x].price - open[x].price) > 0 \/ x < x)
      /\ Before(open, x, y) <=> (\/ d * (open[x].price - open[y].price) > 0
                                 \/ open[x].price = open[y].price /\ x < y)
      /\ Before(open, y, z) <=> (\/ d * (open[y].price - open[z].price) > 0
                                 \/ open[y].price = open[z].price /\ y < z)
      /\ Before(open, x, z) <=> (\/ d * (open[x].price - open[z].price) > 0
                                 \/ open[x].price = open[z].price /\ x < z)
  BY <1>2 DEF Before
<1> HIDE DEF d
<1>4. CASE d = 1
  BY <1>1, <1>3, <1>4
<1>5. CASE d = -1
  BY <1>1, <1>3, <1>5
<1> QED BY <1>2, <1>4, <1>5

\* Of some orders that one order meets, one goes last.
LEMMA OneIsLast ==
  ASSUME NEW open, NEW n, IsOpen(open), NEW S \in SUBSET Meets(open, n), S # {}
  PROVE  \E x \in S : \A k \in S : ~Before(open, x, k)
<1> DEFINE Good == {T \in SUBSET S : T # {} => \E x \in T : \A k \in T : ~Before(open, x, k)}
<1>1. IsFiniteSet(S)
  BY AheadSums, FS_Subset
<1>2. ASSUME NEW T \in SUBSET S, \A U \in SUBSET T : U # T => U \in Good
      PROVE  T \in Good
  <2> SUFFICES ASSUME T # {} PROVE \E x \in T : \A k \in T : ~Before(open, x, k)
    OBVIOUS
  <2>1. PICK y \in T : TRUE
    OBVIOUS
  <2>2. T \ {y} \in Good
    BY <1>2
  <2>3. ~Before(open, y, y)
    BY BeforeOrder
  <2>4. CASE T \ {y} = {}
    BY <2>3, <2>4
  <2>5. CASE T \ {y} # {}
    <3>1. PICK x \in T \ {y} : \A k \in T \ {y} : ~Before(open, x, k)
      BY <2>2, <2>5
    <3>2. CASE Before(open, x, y)
      <4>1. \A k \in T \ {y} : ~Before(open, y, k)
        BY <3>1, <3>2, BeforeOrder
      <4> QED BY <2>3, <4>1
    <3>3. CASE ~Before(open, x, y)
      BY <3>1, <3>3
    <3> QED BY <3>2, <3>3
  <2> QED BY <2>4, <2>5
<1> HIDE DEF Good
<1>3. \A T \in SUBSET S : T \in Good
  BY <1>1, <1>2, SubsetInduction
<1>4. S \in Good
  BY <1>3
<1> QED BY <1>4 DEF Good

\* The last fill is a later one, or this trade if there is no later one.
LEMMA TradeLast ==
  ASSUME NEW open, NEW new, NEW n, NEW m, NEW q, IsOpen(open), IsOpen(new),
         Takes(open, new, n, m, q), NEW before
  PROVE  SettledLast(new, n, [price |-> open[m].price, quantity |-> q])
           = SettledLast(open, n, before)
<1> DEFINE F == Fills(open, n)
           G == Fills(new, n)
           trade == [price |-> open[m].price, quantity |-> q]
<1>1. /\ m \in Meets(open, n) /\ F[m] = q /\ q > 0 /\ ~Before(open, m, m)
      /\ \A k \in Meets(open, n) \ {m} : Before(open, m, k) /\ ~Before(open, k, m)
  <2>1. q \in Nat \ {0} /\ ~Before(open, m, m)
    BY TradeFields
  <2>2. Fills(open, n)[m] = q
    BY TradeFills
  <2>3. q > 0
    BY <2>1
  <2> QED BY <2>1, <2>2, <2>3 DEF Takes
<1>2. /\ m \notin Meets(new, n) /\ Meets(new, n) \subseteq Meets(open, n)
      /\ \A k \in Meets(new, n) : G[k] = F[k] /\ G[k] \in Nat
      /\ \A k \in Meets(open, n) \ {m} : k \notin Meets(new, n) => F[k] = 0
  <2>1. \A k \in Meets(new, n) : G[k] \in Nat
    BY FillType
  <2> QED BY <2>1, TradeFills
<1>3. \A k, l \in Meets(new, n) : Before(new, k, l) <=> Before(open, k, l)
  <2>1. Meets(new, n) \subseteq DOMAIN new
    BY DEF Meets
  <2> QED BY <2>1, TradeOrder
<1>4. \A k \in Meets(new, n) : new[k].price = open[k].price
  BY TradeFields DEF Meets
<1>5. /\ Final(open, n) = {x \in Meets(open, n) :
            F[x] > 0 /\ \A k \in Meets(open, n) : Before(open, x, k) => F[k] = 0}
      /\ Final(new, n) = {x \in Meets(new, n) :
            G[x] > 0 /\ \A k \in Meets(new, n) : Before(new, x, k) => G[k] = 0}
  BY DEF Final
<1>6. \A before1 :
        /\ SettledLast(new, n, before1) =
             IF Final(new, n) = {} THEN before1
             ELSE LET x == CHOOSE x \in Final(new, n) : TRUE
                  IN  [price |-> new[x].price, quantity |-> G[x]]
        /\ SettledLast(open, n, before1) =
             IF Final(open, n) = {} THEN before1
             ELSE LET x == CHOOSE x \in Final(open, n) : TRUE
                  IN  [price |-> open[x].price, quantity |-> F[x]]
  BY DEF SettledLast
<1> HIDE DEF F, G
<1>7. CASE \E k \in Meets(new, n) : G[k] > 0
  <2> DEFINE S == {k \in Meets(new, n) : G[k] > 0}
  <2>1. PICK x \in S : \A k \in S : ~Before(open, x, k)
    <3>1. S \in SUBSET Meets(open, n) /\ S # {}
      BY <1>2, <1>7
    <3> HIDE DEF S
    <3> QED BY <3>1, OneIsLast
  <2>2. x \in Final(new, n)
    BY <1>2, <1>3, <1>5, <2>1
  <2>3. Final(open, n) = Final(new, n)
    <3>1. m \notin Final(open, n)
      <4>1. PICK k \in Meets(new, n) : G[k] > 0
        BY <1>7
      <4>2. k \in Meets(open, n) \ {m} /\ F[k] # 0
        BY <1>2, <4>1
      <4> QED BY <1>1, <1>5, <4>2
    <3>2. ASSUME NEW y \in Final(open, n) PROVE y \in Final(new, n)
      BY <1>2, <1>3, <1>5, <3>1, <3>2
    <3>3. ASSUME NEW y \in Final(new, n) PROVE y \in Final(open, n)
      <4>1. y \in Meets(new, n) /\ y \in Meets(open, n) \ {m} /\ F[y] > 0
        BY <1>2, <1>5, <3>3
      <4>2. ASSUME NEW k \in Meets(open, n), Before(open, y, k) PROVE F[k] = 0
        <5>1. k # m
          BY <1>1, <4>1, <4>2
        <5> QED BY <1>2, <1>3, <1>5, <3>3, <4>1, <4>2, <5>1
      <4> QED BY <1>5, <4>1, <4>2
    <3> QED BY <3>2, <3>3
  <2> DEFINE z == CHOOSE z \in Final(new, n) : TRUE
  <2>4. z \in Final(new, n)
    BY <2>2
  <2>5. new[z].price = open[z].price /\ G[z] = F[z]
    BY <1>2, <1>4, <1>5, <2>4
  <2> QED BY <1>6, <2>2, <2>3, <2>5
<1>8. CASE ~\E k \in Meets(new, n) : G[k] > 0
  <2>1. Final(new, n) = {}
    BY <1>5, <1>8
  <2>2. \A k \in Meets(open, n) \ {m} : F[k] = 0
    BY <1>2, <1>8
  <2>3. Final(open, n) = {m}
    <3>1. m \in Final(open, n)
      BY <1>1, <1>5, <2>2
    <3>2. \A y \in Final(open, n) : y = m
      BY <1>5, <2>2
    <3> QED BY <3>1, <3>2
  <2>4. (CHOOSE x \in Final(open, n) : TRUE) = m
    BY <2>3
  <2>5. SettledLast(open, n, before) = trade
    BY <1>1, <1>6, <2>3, <2>4
  <2>6. SettledLast(new, n, trade) = trade
    BY <1>6, <2>1
  <2> QED BY <2>5, <2>6
<1> QED BY <1>7, <1>8

-----------------------------------------------------------------------------
(* One iteration of the loop. *)

LEMMA OrdersOpen ==
  ASSUME NEW n \in Nat, NEW os, DOMAIN os \subseteq 1..n, os \in [DOMAIN os -> Order]
  PROVE  IsOpen(os)
<1>1. IsFiniteSet(DOMAIN os)
  BY FS_Interval, FS_Subset
<1>2. ASSUME NEW k \in DOMAIN os
      PROVE  /\ os[k] \in Order /\ os[k].type \in OrderTypes
             /\ os[k].price \in Int /\ os[k].quantity \in Nat \ {0}
  <2>1. /\ os[k] \in Order /\ os[k].type \in OrderTypes
        /\ os[k].price \in Prices /\ os[k].quantity \in 1..LongMax
    BY DEF Order
  <2> QED BY <2>1, MarketAssumption
<1> QED BY <1>1, <1>2 DEF IsOpen

\* The front of the books is the first order of each side, in price and in
\* age.
LEMMA FrontFirst ==
  ASSUME TypeOK, BookIntegrity, NEW i, NEW j, BookFront(i, j), NEW k \in DOMAIN orders
  PROVE  /\ orders[k].type = "bid" /\ k # i =>
              \/ orders[k].price < orders[i].price
              \/ orders[k].price = orders[i].price /\ i < k
         /\ orders[k].type = "ask" /\ k # j =>
              \/ orders[k].price > orders[j].price
              \/ orders[k].price = orders[j].price /\ j < k
<1>1. PICK b \in DOMAIN bids, a \in DOMAIN asks :
        /\ \A p \in DOMAIN bids : p <= b
        /\ \A p \in DOMAIN asks : a <= p
        /\ i \in bids[b] /\ \A l \in bids[b] : i <= l
        /\ j \in asks[a] /\ \A l \in asks[a] : j <= l
  BY DEF BookFront
<1>2. orders[i].price = b /\ orders[j].price = a
  BY <1>1 DEF BookIntegrity, LevelsHoldOrders, Levels, OrderTypes
<1>3. i \in DOMAIN orders /\ j \in DOMAIN orders
  BY FrontOrders
<1>4. /\ orders[k].price \in Int /\ k \in Int /\ i \in Int /\ j \in Int
      /\ orders[i].price \in Int /\ orders[j].price \in Int
  BY <1>3, MarketAssumption DEF TypeOK, Order
<1>5. ASSUME orders[k].type = "bid", k # i
      PROVE  \/ orders[k].price < orders[i].price
             \/ orders[k].price = orders[i].price /\ i < k
  <2>1. orders[k].price \in DOMAIN bids /\ k \in bids[orders[k].price]
    BY <1>5 DEF BookIntegrity, OrdersFiled, Levels
  <2> QED BY <1>1, <1>2, <1>4, <1>5, <2>1
<1>6. ASSUME orders[k].type = "ask", k # j
      PROVE  \/ orders[k].price > orders[j].price
             \/ orders[k].price = orders[j].price /\ j < k
  <2>1. orders[k].price \in DOMAIN asks /\ k \in asks[orders[k].price]
    BY <1>6 DEF BookIntegrity, OrdersFiled, Levels
  <2> QED BY <1>1, <1>2, <1>4, <1>6, <2>1
<1> QED BY <1>5, <1>6

\* The two orders of an iteration are the newest order and the first of those
\* that it meets, and they trade at the price of the latter.
LEMMA TradesTakes ==
  ASSUME TypeOK, TypeOK', BookIntegrity, OnlyNewestCrosses,
         NEW i \in DOMAIN orders, NEW j \in DOMAIN orders, Trades(i, j)
  PROVE  \E m \in {i, j} :
           /\ {i, j} = {orderCount, m} /\ m # orderCount
           /\ IsOpen(orders) /\ IsOpen(orders')
           /\ Takes(orders, orders', orderCount, m, Match(i, j).quantity)
           /\ lastTrade' = [price |-> orders[m].price, quantity |-> Match(i, j).quantity]
<1> DEFINE n == orderCount
           q == Match(i, j).quantity
<1>1. /\ BookFront(i, j) /\ lastTrade' = Match(i, j)
      /\ orders' = [k \in DOMAIN orders \ Filled(i, j, q) |->
                      IF k \in {i, j} THEN [orders[k] EXCEPT !.quantity = @ - q] ELSE orders[k]]
  BY DEF Trades
<1>2. /\ orders[i].type = "bid" /\ orders[j].type = "ask"
      /\ orders[j].price <= orders[i].price /\ i # j
  BY <1>1, FrontOrders
<1>3. n \in {i, j}
  BY <1>2 DEF OnlyNewestCrosses
<1>4. IsOpen(orders) /\ IsOpen(orders')
  <2>1. /\ DOMAIN orders \subseteq 1..orderCount /\ orders \in [DOMAIN orders -> Order]
        /\ orderCount \in Nat
    BY DEF TypeOK
  <2>2. /\ DOMAIN orders' \subseteq 1..orderCount' /\ orders' \in [DOMAIN orders' -> Order]
        /\ orderCount' \in Nat
    BY DEF TypeOK
  <2> QED BY <2>1, <2>2, OrdersOpen
<1> DEFINE m == IF n = i THEN j ELSE i
<1>5. /\ m \in {i, j} /\ {i, j} = {n, m} /\ m # n
      /\ m \in DOMAIN orders /\ n \in DOMAIN orders
  BY <1>2, <1>3
<1>6. \A k \in DOMAIN orders : k <= n /\ k \in Int
  BY DEF TypeOK
<1>7. /\ Match(i, j).price = orders[m].price
      /\ q = IF orders[n].quantity <= orders[m].quantity
               THEN orders[n].quantity ELSE orders[m].quantity
      /\ Match(i, j) = [price |-> Match(i, j).price, quantity |-> q]
  <2>1. orders[i].quantity \in Nat /\ orders[j].quantity \in Nat
    BY <1>4 DEF IsOpen
  <2>2. n = j => i < j
    BY <1>2, <1>6
  <2>3. n = i => j < i
    BY <1>2, <1>6
  <2> QED BY <1>3, <1>6, <2>1, <2>2, <2>3 DEF Match
<1>8. \A k \in DOMAIN orders : /\ orders[k].type \in OrderTypes /\ orders[k].price \in Int
                               /\ orders[k].quantity \in Nat
  BY <1>4 DEF IsOpen
<1>9. /\ m \in Meets(orders, n)
      /\ \A k \in Meets(orders, n) \ {m} : Before(orders, m, k) /\ ~Before(orders, k, m)
  <2>1. m \in Meets(orders, n)
    BY <1>2, <1>3, <1>5, <1>8 DEF Meets, Direction
  <2>2. ASSUME NEW k \in Meets(orders, n) \ {m}
        PROVE  Before(orders, m, k) /\ ~Before(orders, k, m)
    <3>1. k \in DOMAIN orders /\ k # m /\ orders[k].type # orders[n].type
      BY DEF Meets
    <3>2. orders[k].type = orders[m].type
      BY <1>2, <1>3, <1>8, <3>1 DEF OrderTypes
    <3>3. CASE n = i
      <4>1. orders[k].type = "ask" /\ m = j /\ orders[m].type = "ask"
        BY <1>2, <3>2, <3>3
      <4>2. \/ orders[k].price > orders[m].price
            \/ orders[k].price = orders[m].price /\ m < k
        BY <1>1, <3>1, <4>1, FrontFirst
      <4> HIDE DEF m
      <4> QED BY <1>5, <1>6, <1>8, <3>1, <4>1, <4>2 DEF Before, Direction
    <3>4. CASE n = j
      <4>1. orders[k].type = "bid" /\ m = i /\ orders[m].type = "bid"
        BY <1>2, <3>2, <3>4
      <4>2. \/ orders[k].price < orders[m].price
            \/ orders[k].price = orders[m].price /\ m < k
        BY <1>1, <3>1, <4>1, FrontFirst
      <4> HIDE DEF m
      <4> QED BY <1>5, <1>6, <1>8, <3>1, <4>1, <4>2 DEF Before, Direction
    <3> QED BY <1>3, <3>3, <3>4
  <2> QED BY <2>1, <2>2
<1> HIDE DEF q, m
<1>10. Takes(orders, orders', n, m, q)
  <2>1. Filled(i, j, q) = {k \in {n, m} : orders[k].quantity = q}
    BY <1>5 DEF Filled
  <2>2. DOMAIN orders' = DOMAIN orders \ {k \in {n, m} : orders[k].quantity = q}
    BY <1>1, <2>1
  <2>3. ASSUME NEW k \in DOMAIN orders'
        PROVE  orders'[k] = [orders[k] EXCEPT !.quantity = @ - (IF k \in {n, m} THEN q ELSE 0)]
    <3>1. k \in DOMAIN orders
      BY <2>2
    <3>2. CASE k \in {n, m}
      BY <1>1, <1>5, <2>1, <2>2, <3>2
    <3>3. CASE k \notin {n, m}
      <4>1. orders'[k] = orders[k]
        BY <1>1, <1>5, <2>1, <2>2, <3>3
      <4>2. /\ orders[k] \in [trader : Traders, type : OrderTypes, price : Prices, quantity : 1..LongMax]
            /\ orders[k].quantity - 0 = orders[k].quantity
        BY <1>4, <1>8, <3>1 DEF IsOpen, Order
      <4>3. orders[k] = [orders[k] EXCEPT !.quantity = @ - 0]
        BY <4>2
      <4> QED BY <3>3, <4>1, <4>3
    <3> QED BY <3>2, <3>3
  <2> QED BY <1>7, <1>9, <2>2, <2>3 DEF Takes
<1>11. lastTrade' = [price |-> orders[m].price, quantity |-> q]
  BY <1>1, <1>7
<1> QED BY <1>4, <1>5, <1>10, <1>11 DEF q

\* A value of a long is itself.
LEMMA LongSelf ==
  ASSUME NEW x \in LongRange
  PROVE  Long(x) = x
<1> DEFINE n == 2 * LongMax + 2
           y == x + LongMax + 1
<1>1. n \in Nat \ {0} /\ y \in 0..(n - 1) /\ x \in Int /\ LongMax \in Int
  BY MarketAssumption DEF LongRange
<1>2. y = n * 0 + y
  BY <1>1
<1>3. y % n = y
  <2>1. y \in Int
    BY <1>1
  <2> HIDE DEF n, y
  <2> QED BY <1>1, <1>2, <2>1, ModUnique
<1> QED BY <1>1, <1>3 DEF Long

\* What confirm does to each position: a trade of the trader's moves both
\* numbers, another trader's moves them by nothing.
LEMMA ConfirmAt ==
  ASSUME NEW book, book \in [DOMAIN book -> Position],
         NEW trader, NEW type \in OrderTypes, NEW price \in Int, NEW q \in Int,
         NEW x \in DOMAIN book
  PROVE  LET after == Confirm(book, trader, type, [price |-> price, quantity |-> q])
             d     == IF trader = x THEN Direction(type) ELSE 0
         IN  /\ d \in {-1, 0, 1}
             /\ after[x].count = Long(book[x].count + d * q)
             /\ after[x].pnl = Long(book[x].pnl - d * (price * q))
<1> DEFINE after == Confirm(book, trader, type, [price |-> price, quantity |-> q])
           d == IF trader = x THEN Direction(type) ELSE 0
           w == price * q
<1>1. d \in {-1, 0, 1}
  BY DEF Direction
<1>2. w \in Int
  OBVIOUS
<1>3. book[x] \in Position /\ book[x].count \in LongRange /\ book[x].pnl \in LongRange
  BY DEF Position
<1>4. book[x].count \in Int /\ book[x].pnl \in Int
  BY <1>3, MarketAssumption DEF LongRange
<1>5. CASE trader = x
  <2>1. /\ after[x].count = Long(book[x].count + Sign(type) * q)
        /\ after[x].pnl = Long(book[x].pnl - Sign(type) * price * q)
    BY <1>3, <1>5 DEF Confirm
  <2>2. Sign(type) = d /\ d \in {-1, 1}
    BY <1>5 DEF Sign, Direction
  <2> HIDE DEF d, after
  <2>3. Sign(type) * price * q = d * w
    <3>1. CASE d = 1
      BY <2>2, <3>1
    <3>2. CASE d = -1
      <4>1. (-1) * price * q = -(price * q)
        BY SMT
      <4>2. (-1) * w = -w
        BY <1>2
      <4> QED BY <2>2, <3>2, <4>1, <4>2
    <3> QED BY <2>2, <3>1, <3>2
  <2> QED BY <1>1, <2>1, <2>2, <2>3 DEF after, d
<1>6. CASE trader # x
  <2>1. after[x] = book[x]
    BY <1>6 DEF Confirm
  <2>2. d = 0 /\ d * q = 0 /\ d * w = 0
    <3>1. d = 0
      BY <1>6
    <3> HIDE DEF d, w
    <3> QED BY <1>2, <3>1
  <2>3. book[x].count + d * q = book[x].count /\ book[x].pnl - d * w = book[x].pnl
    <3> HIDE DEF d, w
    <3> QED BY <1>4, <2>2
  <2> HIDE DEF d, w, after
  <2>4. Long(book[x].count) = book[x].count /\ Long(book[x].pnl) = book[x].pnl
    BY <1>3, LongSelf
  <2> QED BY <1>1, <2>1, <2>3, <2>4 DEF after, d, w
<1> QED BY <1>5, <1>6

LEMMA ConfirmTwice ==
  ASSUME NEW book, book \in [DOMAIN book -> Position],
         NEW buyer, NEW seller, NEW price \in Int, NEW q \in Int,
         [price |-> price, quantity |-> q] \in [price : Prices, quantity : 1..LongMax],
         NEW x \in DOMAIN book
  PROVE  LET t    == [price |-> price, quantity |-> q]
             both == Confirm(Confirm(book, buyer, "bid", t), seller, "ask", t)
             a    == IF buyer = x THEN Direction("bid") ELSE 0
             b    == IF seller = x THEN Direction("ask") ELSE 0
         IN  /\ both[x].count = Long(Long(book[x].count + a * q) + b * q)
             /\ both[x].pnl = Long(Long(book[x].pnl - a * (price * q)) - b * (price * q))
<1> DEFINE t == [price |-> price, quantity |-> q]
           once == Confirm(book, buyer, "bid", t)
           a == IF buyer = x THEN Direction("bid") ELSE 0
           b == IF seller = x THEN Direction("ask") ELSE 0
<1>1. "bid" \in OrderTypes /\ "ask" \in OrderTypes
  BY DEF OrderTypes
<1>2. once \in [DOMAIN once -> Position] /\ x \in DOMAIN once
  BY <1>1, ConfirmType
<1>3. /\ once[x].count = Long(book[x].count + a * q)
      /\ once[x].pnl = Long(book[x].pnl - a * (price * q))
  BY <1>1, ConfirmAt
<1>4. ASSUME NEW o, o \in [DOMAIN o -> Position], x \in DOMAIN o
      PROVE  /\ Confirm(o, seller, "ask", t)[x].count = Long(o[x].count + b * q)
             /\ Confirm(o, seller, "ask", t)[x].pnl = Long(o[x].pnl - b * (price * q))
  <2>1. x \in DOMAIN o /\ "ask" \in OrderTypes
    BY <1>1, <1>4
  <2>2. LET after == Confirm(o, seller, "ask", [price |-> price, quantity |-> q])
            d     == IF seller = x THEN Direction("ask") ELSE 0
        IN  /\ d \in {-1, 0, 1}
            /\ after[x].count = Long(o[x].count + d * q)
            /\ after[x].pnl = Long(o[x].pnl - d * (price * q))
    BY <1>4, <2>1, ConfirmAt
  <2> QED BY <2>2
<1> HIDE DEF once, a
<1> QED BY <1>2, <1>3, <1>4 DEF once, a

\* Wrapping once at the end is wrapping at each step.
LEMMA LongThrice ==
  ASSUME NEW x \in Int, NEW a \in Int, NEW b \in Int, NEW c \in Int
  PROVE  Long(Long(Long(x + a) + b) + c) = Long(x + ((a + b) + c))
<1>1. Long(Long(x + a) + b) = Long((x + a) + b)
  BY LongAdd
<1>2. Long(Long((x + a) + b) + c) = Long(((x + a) + b) + c)
  <2>1. (x + a) + b \in Int
    OBVIOUS
  <2> QED BY <2>1, LongAdd
<1>3. ((x + a) + b) + c = x + ((a + b) + c)
  OBVIOUS
<1> QED BY <1>1, <1>2, <1>3

LEMMA Times ==
  ASSUME NEW a \in {-1, 0, 1}, NEW b \in {-1, 0, 1}, NEW x \in Int
  PROVE  /\ (a + b) * x = a * x + b * x /\ (b + a) * x = a * x + b * x
         /\ a * x \in Int /\ b * x \in Int
<1>1. CASE a = -1
  BY <1>1
<1>2. CASE a = 0
  BY <1>2
<1>3. CASE a = 1
  BY <1>3
<1> QED BY <1>1, <1>2, <1>3

\* The positions to settle to are the same after an iteration: its trade is
\* in the positions, and no longer in what is to be dealt.
LEMMA TradeAccounts ==
  ASSUME TypeOK, TypeOK',
         NEW i \in DOMAIN orders, NEW j \in DOMAIN orders,
         orders[i].type = "bid", orders[j].type = "ask",
         NEW m \in {i, j}, {i, j} = {orderCount, m}, m # orderCount,
         IsOpen(orders), IsOpen(orders'), UNCHANGED orderCount,
         NEW q \in Nat, Takes(orders, orders', orderCount, m, q),
         accounts' = Confirm(Confirm(accounts, orders[i].trader, "bid",
                                     [price |-> orders[m].price, quantity |-> q]),
                             orders[j].trader, "ask",
                             [price |-> orders[m].price, quantity |-> q]),
         [price |-> orders[m].price, quantity |-> q] \in [price : Prices, quantity : 1..LongMax]
  PROVE  SettledAccounts' = SettledAccounts
<1> DEFINE n == orderCount
           price == orders[m].price
           t == [price |-> price, quantity |-> q]
           once == Confirm(accounts, orders[i].trader, "bid", t)
           both == Confirm(once, orders[j].trader, "ask", t)
           units == [k \in DOMAIN orders |-> 1]
           money == [k \in DOMAIN orders |-> orders[k].price]
           later == [k \in DOMAIN orders' |-> 1]
           worth == [k \in DOMAIN orders' |-> orders'[k].price]
<1>1. "bid" \in OrderTypes /\ "ask" \in OrderTypes /\ price \in Int /\ q \in Int
  BY DEF OrderTypes, IsOpen
<1>2. /\ accounts \in [DOMAIN accounts -> Position]
      /\ once \in [DOMAIN accounts -> Position] /\ DOMAIN once = DOMAIN accounts
      /\ both \in [DOMAIN accounts -> Position] /\ DOMAIN both = DOMAIN accounts
  <2>1. accounts \in [DOMAIN accounts -> Position]
    BY DEF TypeOK
  <2>2. DOMAIN once = DOMAIN accounts /\ once \in [DOMAIN accounts -> Position]
    BY <1>1, <2>1, ConfirmType
  <2> HIDE DEF once
  <2>3. once \in [DOMAIN once -> Position]
    BY <2>2
  <2>4. DOMAIN both = DOMAIN once /\ both \in [DOMAIN once -> Position]
    BY <1>1, <2>3, ConfirmType
  <2> HIDE DEF both
  <2> QED BY <2>1, <2>2, <2>4
<1>3. accounts' = both
  OBVIOUS
<1>4. DOMAIN orders' \subseteq DOMAIN orders /\ m \in DOMAIN orders
  BY TradeFields
<1>5. ASSUME NEW x \in DOMAIN accounts
      PROVE  /\ Long(both[x].count + DealtUnits(orders', n, x))
                  = Long(accounts[x].count + DealtUnits(orders, n, x))
             /\ Long(both[x].pnl - DealtMoney(orders', n, x))
                  = Long(accounts[x].pnl - DealtMoney(orders, n, x))
  <2> DEFINE a == Part(orders, i, x)
             b == Part(orders, j, x)
             w == price * q
  <2>1. /\ a \in {-1, 0, 1} /\ b \in {-1, 0, 1} /\ w \in Int
        /\ a = IF orders[i].trader = x THEN Direction("bid") ELSE 0
        /\ b = IF orders[j].trader = x THEN Direction("ask") ELSE 0
    <3>1. w \in Int
      BY <1>1
    <3> QED BY <3>1 DEF Part, Direction
  <2>2. accounts[x].count \in Int /\ accounts[x].pnl \in Int
    BY <1>2, MarketAssumption DEF Position, LongRange
  <2>3. /\ both[x].count = Long(Long(accounts[x].count + a * q) + b * q)
        /\ both[x].pnl = Long(Long(accounts[x].pnl - a * w) - b * w)
    BY <1>1, <1>2, <2>1, ConfirmTwice
  <2>5. Part(orders, m, x) + Part(orders, n, x) \in {a + b, b + a}
    BY DEF a, b
  <2>6. /\ DealtUnits(orders, n, x)
             = (Part(orders, m, x) + Part(orders, n, x)) * (units[m] * q) + DealtUnits(orders', n, x)
        /\ DealtUnits(orders', n, x) \in Int
    <3>1. /\ \A k \in DOMAIN orders : units[k] \in Int
          /\ \A k \in DOMAIN orders' : later[k] = units[k] /\ later[k] \in Int
      BY <1>4
    <3>2. DealtUnits(orders, n, x) = Dealt(orders, n, x, units)
          /\ DealtUnits(orders', n, x) = Dealt(orders', n, x, later)
      BY DEF DealtUnits
    <3> HIDE DEF units, later
    <3>3. Dealt(orders', n, x, later) \in Int
      BY <3>1, WorthType
    <3> QED BY <3>1, <3>2, <3>3, TradeDealt
  <2>7. /\ DealtMoney(orders, n, x)
             = (Part(orders, m, x) + Part(orders, n, x)) * (money[m] * q) + DealtMoney(orders', n, x)
        /\ DealtMoney(orders', n, x) \in Int
    <3>1. /\ \A k \in DOMAIN orders : money[k] \in Int
          /\ \A k \in DOMAIN orders' : worth[k] = money[k] /\ worth[k] \in Int
      BY <1>4, TradeFields DEF IsOpen
    <3>2. DealtMoney(orders, n, x) = Dealt(orders, n, x, money)
          /\ DealtMoney(orders', n, x) = Dealt(orders', n, x, worth)
      BY DEF DealtMoney
    <3> HIDE DEF money, worth
    <3>3. Dealt(orders', n, x, worth) \in Int
      BY <3>1, WorthType
    <3> QED BY <3>1, <3>2, <3>3, TradeDealt
  <2>8. units[m] * q = q /\ money[m] * q = w
    BY <1>1, <1>4
  <2> HIDE DEF a, b, w, once, both, units, money, later, worth, n
  <2>9. /\ DealtUnits(orders, n, x) = (a * q + b * q) + DealtUnits(orders', n, x)
        /\ DealtMoney(orders, n, x) = (a * w + b * w) + DealtMoney(orders', n, x)
        /\ a * q \in Int /\ b * q \in Int /\ a * w \in Int /\ b * w \in Int
    <3>1. /\ (a + b) * q = a * q + b * q /\ (b + a) * q = a * q + b * q
          /\ a * q \in Int /\ b * q \in Int
      <4> DEFINE y == q
      <4>1. y \in Int
        OBVIOUS
      <4> HIDE DEF y
      <4>2. /\ (a + b) * y = a * y + b * y /\ (b + a) * y = a * y + b * y
            /\ a * y \in Int /\ b * y \in Int
        BY <2>1, <4>1, Times
      <4> QED BY <4>2 DEF y
    <3>2. /\ (a + b) * w = a * w + b * w /\ (b + a) * w = a * w + b * w
          /\ a * w \in Int /\ b * w \in Int
      BY <2>1, Times
    <3> QED BY <2>5, <2>6, <2>7, <2>8, <3>1, <3>2
  <2> DEFINE du == DealtUnits(orders', n, x)
             dm == DealtMoney(orders', n, x)
             aq == a * q
             bq == b * q
             aw == a * w
             bw == b * w
             c == accounts[x].count
             p == accounts[x].pnl
  <2>10. /\ du \in Int /\ dm \in Int /\ aq \in Int /\ bq \in Int /\ aw \in Int /\ bw \in Int
         /\ c \in Int /\ p \in Int
         /\ DealtUnits(orders, n, x) = (aq + bq) + du
         /\ DealtMoney(orders, n, x) = (aw + bw) + dm
         /\ both[x].count = Long(Long(c + aq) + bq)
         /\ both[x].pnl = Long(Long(p - aw) - bw)
    BY <2>2, <2>3, <2>6, <2>7, <2>9
  <2> HIDE DEF du, dm, aq, bq, aw, bw, c, p
  <2>11. Long(Long(Long(c + aq) + bq) + du) = Long(c + ((aq + bq) + du))
    BY <2>10, LongThrice
  <2>12. Long(Long(Long(p - aw) - bw) - dm) = Long(p - ((aw + bw) + dm))
    <3>1. \A y \in Int : \A z \in Int : y - z = y + (-z) /\ -z \in Int
      OBVIOUS
    <3>2. Long(p - aw) \in Int /\ Long(Long(p - aw) - bw) \in Int
      <4>1. \A y \in Int : Long(y) \in Int
        BY LongInRange, MarketAssumption DEF LongRange
      <4> QED BY <2>10, <4>1
    <3>3. Long(Long(Long(p + (-aw)) + (-bw)) + (-dm)) = Long(p + (((-aw) + (-bw)) + (-dm)))
      BY <2>10, <3>1, LongThrice
    <3>4. p + (((-aw) + (-bw)) + (-dm)) = p - ((aw + bw) + dm)
      BY <2>10
    <3>5. /\ p - aw = p + (-aw)
          /\ Long(p - aw) - bw = Long(p - aw) + (-bw)
          /\ Long(Long(p - aw) - bw) - dm = Long(Long(p - aw) - bw) + (-dm)
      BY <2>10, <3>1, <3>2
    <3> QED BY <3>3, <3>4, <3>5
  <2> QED BY <2>10, <2>11, <2>12 DEF du, dm, c, p
<1>6. SettledAccounts = [x \in DOMAIN accounts |->
         [count |-> Long(accounts[x].count + DealtUnits(orders, n, x)),
          pnl   |-> Long(accounts[x].pnl - DealtMoney(orders, n, x))]]
  BY DEF SettledAccounts
<1>7. SettledAccounts' = [x \in DOMAIN both |->
         [count |-> Long(both[x].count + DealtUnits(orders', n, x)),
          pnl   |-> Long(both[x].pnl - DealtMoney(orders', n, x))]]
  BY <1>3 DEF SettledAccounts, DealtUnits, DealtMoney
<1> HIDE DEF both, n
<1> QED BY <1>2, <1>5, <1>6, <1>7

\* An iteration of the loop leaves alone what the loop has to reach.
LEMMA IterationKeeps ==
  ASSUME TypeOK, TypeOK', BookIntegrity, OnlyNewestCrosses, ExecuteTrade
  PROVE  /\ SettledAccounts' = SettledAccounts
         /\ SettledBook(orders', orderCount') = SettledBook(orders, orderCount)
         /\ SettledLast(orders', orderCount', lastTrade')
              = SettledLast(orders, orderCount, lastTrade)
         /\ UNCHANGED <<orderCount, matching>>
<1>1. \A b, a : \A t : DOMAIN Confirm(Confirm(accounts, b, "bid", t), a, "ask", t)
                       = DOMAIN accounts
  BY DEF Confirm
<1>2. PICK i \in DOMAIN orders, j \in DOMAIN orders :
        /\ Trades(i, j)
        /\ accounts' = Confirm(Confirm(accounts, orders[i].trader, "bid", Match(i, j)),
                               orders[j].trader, "ask", Match(i, j))
  <2>1. PICK i \in DOMAIN orders, j \in DOMAIN orders :
          LET bid  == orders[i]
              ask  == orders[j]
              t    == Match(i, j)
              done == Filled(i, j, t.quantity)
          IN
          /\ BookFront(i, j)
          /\ lastTrade' = t
          /\ accounts' = Confirm(Confirm(accounts, bid.trader, "bid", t),
                                 ask.trader, "ask", t)
          /\ orders' = [k \in DOMAIN orders \ done |->
                          IF k \in {i, j}
                            THEN [orders[k] EXCEPT !.quantity = @ - t.quantity]
                            ELSE orders[k]]
          /\ traderOrders' = [traderOrders EXCEPT ![bid.trader] = @ \ (done \cap {i}),
                                                  ![ask.trader] = @ \ (done \cap {j})]
          /\ bids' = IF i \in done THEN EraseId(bids, bid.price, i) ELSE bids
          /\ asks' = IF j \in done THEN EraseId(asks, ask.price, j) ELSE asks
    BY DEF ExecuteTrade
  <2>2. UNCHANGED <<orderCount, matching>>
    BY DEF ExecuteTrade
  <2>3. DOMAIN accounts' = DOMAIN accounts
    BY <1>1, <2>1
  <2>4. Trades(i, j)
    BY <2>1, <2>2, <2>3 DEF Trades
  <2> QED BY <2>1, <2>4
<1> DEFINE q == Match(i, j).quantity
<1>3. PICK m \in {i, j} :
        /\ {i, j} = {orderCount, m} /\ m # orderCount
        /\ IsOpen(orders) /\ IsOpen(orders')
        /\ Takes(orders, orders', orderCount, m, q)
        /\ lastTrade' = [price |-> orders[m].price, quantity |-> q]
  BY <1>2, TradesTakes
<1>4. /\ lastTrade' = Match(i, j) /\ BookFront(i, j)
      /\ UNCHANGED <<orderCount, matching>>
  BY <1>2 DEF Trades
<1>5. /\ orders[i].type = "bid" /\ orders[j].type = "ask"
      /\ Match(i, j) \in [price : Prices, quantity : 1..LongMax]
      /\ q \in Nat
  <2>1. Match(i, j) \in [price : Prices, quantity : 1..LongMax]
    BY MatchType
  <2>2. q \in 1..LongMax
    BY <2>1
  <2> QED BY <1>4, <2>1, <2>2, FrontOrders, MarketAssumption
<1> HIDE DEF q
<1>6. SettledAccounts' = SettledAccounts
  BY <1>2, <1>3, <1>4, <1>5, TradeAccounts
<1>7. SettledBook(orders', orderCount') = SettledBook(orders, orderCount)
  BY <1>3, <1>4, TradeBook
<1>8. SettledLast(orders', orderCount', lastTrade')
        = SettledLast(orders, orderCount, lastTrade)
  BY <1>3, <1>4, TradeLast
<1> QED BY <1>4, <1>6, <1>7, <1>8

\* Where no bid meets an ask, nothing is left to settle.
LEMMA NothingLeft ==
  ASSUME TypeOK, BookIntegrity, \A b \in DOMAIN bids, a \in DOMAIN asks : b < a
  PROVE  /\ SettledAccounts = accounts
         /\ SettledBook(orders, orderCount) = orders
         /\ SettledLast(orders, orderCount, lastTrade) = lastTrade
<1> DEFINE n == orderCount
<1>1. \A k \in DOMAIN orders :
        /\ orders[k] \in Order /\ orders[k].type \in OrderTypes
        /\ orders[k].price \in Int /\ orders[k].quantity \in Nat \ {0}
  <2>1. orderCount \in Nat /\ DOMAIN orders \subseteq 1..orderCount
        /\ orders \in [DOMAIN orders -> Order]
    BY DEF TypeOK
  <2> QED BY <2>1, OrdersOpen DEF IsOpen
<1>2. Meets(orders, n) = {}
  <2> SUFFICES ASSUME NEW k \in Meets(orders, n) PROVE FALSE
    OBVIOUS
  <2>1. /\ k \in DOMAIN orders /\ n \in DOMAIN orders /\ orders[k].type # orders[n].type
        /\ Direction(orders[n].type) * (orders[n].price - orders[k].price) >= 0
    BY DEF Meets
  <2>2. \A x, y \in DOMAIN orders : orders[x].type = "bid" /\ orders[y].type = "ask"
          => orders[x].price < orders[y].price
    BY DEF BookIntegrity, OrdersFiled, Levels
  <2>3. CASE orders[n].type = "bid"
    <3>1. orders[k].type = "ask"
      BY <1>1, <2>1, <2>3 DEF OrderTypes
    <3> QED BY <1>1, <2>1, <2>2, <2>3, <3>1 DEF Direction
  <2>4. CASE orders[n].type = "ask"
    <3>1. orders[k].type = "bid"
      BY <1>1, <2>1, <2>4 DEF OrderTypes
    <3> QED BY <1>1, <2>1, <2>2, <2>4, <3>1 DEF Direction
  <2> QED BY <1>1, <2>1, <2>3, <2>4 DEF OrderTypes
<1>3. \A f : DOMAIN f = {} => SumFunction(f) = 0
  BY SumEmpty DEF SumFunction
<1>4. ASSUME NEW k \in DOMAIN orders PROVE Left(orders, n, k) = orders[k].quantity
  <2>1. SumFunction(Fills(orders, n)) = 0
    BY <1>2, <1>3 DEF Fills
  <2>2. orders[k].quantity - 0 = orders[k].quantity
    BY <1>1
  <2> QED BY <1>2, <2>1, <2>2 DEF Left
<1>5. SettledBook(orders, n) = orders
  <2>1. {k \in DOMAIN orders : Left(orders, n, k) > 0} = DOMAIN orders
    BY <1>1, <1>4
  <2>2. ASSUME NEW k \in DOMAIN orders
        PROVE  [orders[k] EXCEPT !.quantity = Left(orders, n, k)] = orders[k]
    <3>1. orders[k] \in [trader : Traders, type : OrderTypes, price : Prices, quantity : 1..LongMax]
      BY <1>1 DEF Order
    <3> QED BY <1>4, <3>1
  <2>3. orders = [k \in DOMAIN orders |-> orders[k]]
    BY DEF TypeOK
  <2>4. SettledBook(orders, n)
          = [k \in DOMAIN orders |-> [orders[k] EXCEPT !.quantity = Left(orders, n, k)]]
    BY <2>1 DEF SettledBook
  <2> QED BY <2>2, <2>3, <2>4
<1>6. SettledLast(orders, n, lastTrade) = lastTrade
  BY <1>2 DEF SettledLast, Final
<1>7. SettledAccounts = accounts
  <2>1. ASSUME NEW t \in DOMAIN accounts
        PROVE  [count |-> Long(accounts[t].count + DealtUnits(orders, n, t)),
                pnl   |-> Long(accounts[t].pnl - DealtMoney(orders, n, t))] = accounts[t]
    <3>1. DealtUnits(orders, n, t) = 0 /\ DealtMoney(orders, n, t) = 0
      BY <1>2, <1>3 DEF DealtUnits, DealtMoney, Dealt
    <3>2. accounts[t] \in [count : LongRange, pnl : LongRange]
      BY DEF TypeOK, Position
    <3>3. accounts[t].count + 0 = accounts[t].count /\ accounts[t].pnl - 0 = accounts[t].pnl
      BY <3>2, MarketAssumption DEF LongRange
    <3>4. Long(accounts[t].count) = accounts[t].count /\ Long(accounts[t].pnl) = accounts[t].pnl
      BY <3>2, LongSelf
    <3> QED BY <3>1, <3>2, <3>3, <3>4
  <2>2. accounts = [t \in DOMAIN accounts |-> accounts[t]]
    BY DEF TypeOK
  <2> QED BY <2>1, <2>2 DEF SettledAccounts
<1> QED BY <1>5, <1>6, <1>7

-----------------------------------------------------------------------------
(* The refinement. *)

LEMMA PromiseInit == Init => Promised!Init
BY DEF Init, Promised!Init, EmptyMap, NoTrade

\* Placing an order is the abstract step that settles it.
LEMMA PlacedPromise ==
  ASSUME NEW trader \in Traders, NEW type \in {"bid", "ask"}, NEW price \in Prices,
         NEW quantity \in Quantities, NewOrder(trader, type, price, quantity)
  PROVE  Promised!Next
<1> DEFINE n == orderCount + 1
           open == [k \in DOMAIN orders \cup {n} |->
                      IF k = n THEN [trader |-> trader, type |-> type,
                                     price |-> price, quantity |-> quantity]
                               ELSE orders[k]]
<1>1. /\ ~matching /\ matching' /\ orderCount < MaxOrders /\ trader \in DOMAIN accounts
      /\ orderCount' = n /\ orders' = open /\ accounts' = accounts /\ lastTrade' = lastTrade
  BY DEF NewOrder, Put
<1>2. (IF matching THEN SettledBook(orders, orderCount) ELSE orders)' = SettledBook(open, n)
  BY <1>1
<1>3. (IF matching THEN SettledLast(orders, orderCount, lastTrade) ELSE lastTrade)'
        = SettledLast(open, n, lastTrade)
  BY <1>1
<1>4. (IF matching THEN SettledAccounts ELSE accounts)'
        = [t \in DOMAIN accounts |->
             [count |-> Long(accounts[t].count + DealtUnits(open, n, t)),
              pnl   |-> Long(accounts[t].pnl - DealtMoney(open, n, t))]]
  <2> HIDE DEF open, n
  <2> QED BY <1>1 DEF SettledAccounts
<1>5. Promised!Place(trader, type, price, quantity)
  <2>1. /\ trader \in DOMAIN (IF matching THEN SettledAccounts ELSE accounts)
        /\ orderCount < MaxOrders /\ orderCount' = n
    BY <1>1
  <2>2. (IF matching THEN SettledBook(orders, orderCount) ELSE orders)
          = orders
        /\ (IF matching THEN SettledLast(orders, orderCount, lastTrade) ELSE lastTrade)
          = lastTrade
        /\ (IF matching THEN SettledAccounts ELSE accounts) = accounts
    BY <1>1
  <2>3. /\ (IF matching THEN SettledBook(orders, orderCount) ELSE orders)'
             = Promised!SettledBook(open, n)
        /\ (IF matching THEN SettledLast(orders, orderCount, lastTrade) ELSE lastTrade)'
             = Promised!SettledLast(open, n, lastTrade)
        /\ (IF matching THEN SettledAccounts ELSE accounts)'
             = Promised!SettledPositions(open, n, accounts)
    <3> HIDE DEF open, n
    <3> QED BY <1>2, <1>3, <1>4, SameBook, SameLast, SamePositions
  <2> QED BY <2>1, <2>2, <2>3 DEF Promised!Place
<1> QED BY <1>5 DEF Promised!Next

\* Every step of the market is a step of the abstract market, or none.
LEMMA PromiseStep ==
  BookInv /\ OnlyNewestCrosses /\ [Next]_vars => [Promised!Next]_(Promised!promise)
<1> SUFFICES ASSUME TypeOK, BookIntegrity, OnlyNewestCrosses, [Next]_vars
             PROVE  [Promised!Next]_(Promised!promise)
  BY DEF BookInv
<1>1. ASSUME NEW t \in Traders, RegisterAccount(t)
      PROVE  [Promised!Next]_(Promised!promise)
  <2>1. /\ ~matching /\ ~matching' /\ UNCHANGED <<orders, orderCount, lastTrade>>
        /\ accounts' = IF t \in DOMAIN accounts THEN accounts
                         ELSE Put(accounts, t, [count |-> 0, pnl |-> 0])
    BY <1>1 DEF RegisterAccount
  <2>2. CASE t \in DOMAIN accounts
    BY <2>1, <2>2 DEF Promised!promise
  <2>3. CASE t \notin DOMAIN accounts
    <3>1. Promised!Join(t)
      BY <2>1, <2>3 DEF Promised!Join, Put
    <3> QED BY <3>1 DEF Promised!Next
  <2> QED BY <2>2, <2>3
<1>2. ASSUME NEW t \in Traders, NEW p \in Prices, NEW q \in Quantities,
             PlaceBid(t, p, q) \/ PlaceAsk(t, p, q)
      PROVE  [Promised!Next]_(Promised!promise)
  <2>1. CASE NewOrder(t, "bid", p, q)
    BY <2>1, PlacedPromise
  <2>2. CASE NewOrder(t, "ask", p, q)
    BY <2>2, PlacedPromise
  <2> QED BY <1>2, <2>1, <2>2 DEF PlaceBid, PlaceAsk
<1>3. ASSUME NEW t \in Traders, NEW id \in DOMAIN orders, CancelOrder(t, id)
      PROVE  [Promised!Next]_(Promised!promise)
  <2>1. /\ ~matching /\ ~matching' /\ UNCHANGED <<accounts, orderCount, lastTrade>>
        /\ orders' = [k \in DOMAIN orders \ {id} |-> orders[k]]
    BY <1>3 DEF CancelOrder, Drop, Restrict
  <2>2. Promised!Cancel(id)
    BY <2>1 DEF Promised!Cancel
  <2> QED BY <2>1, <2>2 DEF Promised!Next
<1>4. ASSUME ExecuteTrade PROVE [Promised!Next]_(Promised!promise)
  <2>1. TypeOK'
    BY TypeStep
  <2>2. /\ SettledAccounts' = SettledAccounts
        /\ SettledBook(orders', orderCount') = SettledBook(orders, orderCount)
        /\ SettledLast(orders', orderCount', lastTrade')
             = SettledLast(orders, orderCount, lastTrade)
        /\ UNCHANGED <<orderCount, matching>>
    BY <1>4, <2>1, IterationKeeps
  <2>3. matching
    BY <1>4 DEF ExecuteTrade
  <2> QED BY <2>2, <2>3 DEF Promised!promise
<1>5. ASSUME EndMatching PROVE [Promised!Next]_(Promised!promise)
  <2>1. /\ matching /\ ~matching'
        /\ UNCHANGED <<accounts, orders, orderCount, lastTrade>>
        /\ \A b \in DOMAIN bids, a \in DOMAIN asks : b < a
    BY <1>5 DEF EndMatching
  <2>2. /\ SettledAccounts = accounts
        /\ SettledBook(orders, orderCount) = orders
        /\ SettledLast(orders, orderCount, lastTrade) = lastTrade
    BY <2>1, NothingLeft
  <2> QED BY <2>1, <2>2 DEF Promised!promise
<1>6. ASSUME UNCHANGED vars PROVE [Promised!Next]_(Promised!promise)
  BY <1>6 DEF vars, Promised!promise, SettledAccounts
<1> QED BY <1>1, <1>2, <1>3, <1>4, <1>5, <1>6 DEF Next

\* The market implements the abstract exchange of price-time priority: what
\* execute_trades does to the books, one pair of orders at a time, comes to
\* each order taking all it can in the step that places it.
THEOREM KeepsPriority == Spec => PriceTimePriority
<1>1. Init => Promised!Init
  BY PromiseInit
<1> QED BY <1>1, PromiseStep, BookInvariant, NeverCrossed, PTL
        DEF Spec, PriceTimePriority, Promised!Spec
=============================================================================
