------------------------------- MODULE Market -------------------------------
(***************************************************************************)
(* One market of the exchange (src/src/market.hpp, market.cpp and the      *)
(* value types of market_types.cpp): the traders' positions, the resting   *)
(* orders, the two sorted books of order ids, the aggregated price points  *)
(* sent to the traders' screens, and the matching loop.                    *)
(*                                                                         *)
(* Everything runs on one thread and a handler never awaits, so no other   *)
(* handler starts while execute_trades is in its loop.  The loop is        *)
(* modelled one iteration per step: "matching" says that the market is     *)
(* inside it, and every other action waits until the loop has ended.       *)
(*                                                                         *)
(* A definition whose name ends in _Fault is a plausible bug of the one    *)
(* that follows it.  The model never uses it; README.md says which         *)
(* property finds it.                                                      *)
(***************************************************************************)
EXTENDS Integers, FiniteSets, FiniteSetsExt

CONSTANTS Traders,      \* the trader ids that register or try to trade
          Prices,       \* the prices of the orders that are placed
          Quantities,   \* the quantities of the orders that are placed
          LongMax,      \* largest value of the build's long, 2^63 - 1
          MaxOrders     \* bound of the model: orders placed in a behaviour

\* order_endpoint.cpp:46 lets only positive prices and quantities through.
ASSUME MarketAssumption ==
  /\ LongMax \in Nat \ {0}
  /\ Prices \subseteq 1..LongMax
  /\ Quantities \subseteq 1..LongMax
  /\ MaxOrders \in Nat

VARIABLES accounts,      \* m_accounts: registered trader -> position
          pricePoints,   \* m_price_points: price -> totals of both sides
          lastTrade,     \* m_last_trade
          traderOrders,  \* m_trader_orders; no entry and {} read the same
          orderCount,    \* m_order_count
          orders,        \* m_orders: id -> order
          bids, asks,    \* m_bids, m_asks: price -> non-empty set of ids
          matching       \* inside the loop of execute_trades

vars == <<accounts, pricePoints, lastTrade, traderOrders, orderCount,
          orders, bids, asks, matching>>

-----------------------------------------------------------------------------
(* Values.  A long wraps at the width of the build: the sums below are     *)
(* plain additions in the code, and nothing bounds a price or a quantity   *)
(* but its type.                                                           *)

LongRange == (-LongMax - 1)..LongMax

Long_Fault(x) == x

Long(x) == ((x + LongMax + 1) % (2 * LongMax + 2)) - (LongMax + 1)

OrderTypes == {"bid", "ask"}

\* enum order_type : BID = 1, ASK = -1
Sign(type) == IF type = "bid" THEN 1 ELSE -1

Position == [count : LongRange, pnl : LongRange]
Depth    == [bids : LongRange, asks : LongRange]
Trade    == [price : {0} \cup Prices, quantity : 0..LongMax]
Order    == [trader : Traders, type : OrderTypes,
             price : Prices, quantity : 1..LongMax]

NoTrade == [price |-> 0, quantity |-> 0]
NoDepth == [bids |-> 0, asks |-> 0]

(* Maps: an assignment and an erase. *)

EmptyMap == [k \in {} |-> k]

Put(f, key, value) ==
  [k \in DOMAIN f \cup {key} |-> IF k = key THEN value ELSE f[k]]

Drop(f, key) == Restrict(f, DOMAIN f \ {key})

-----------------------------------------------------------------------------
(* The book. *)

InsertId(levels, price, id) ==
  Put(levels, price,
      IF price \in DOMAIN levels THEN levels[price] \cup {id} ELSE {id})

EraseId_Fault(levels, price, id) ==
  Put(levels, price, levels[price] \ {id})

\* An id leaves its level, and a level that is left empty leaves the book.
EraseId(levels, price, id) ==
  IF levels[price] = {id}
    THEN Drop(levels, price)
    ELSE Put(levels, price, levels[price] \ {id})

\* update_bid_ask_count: a price point whose totals are both zero is erased.
AddDepth(points, price, bidDiff, askDiff) ==
  LET old == IF price \in DOMAIN points THEN points[price] ELSE NoDepth
      new == [bids |-> Long(old.bids + bidDiff),
              asks |-> Long(old.asks + askDiff)]
  IN  IF new = NoDepth THEN Drop(points, price) ELSE Put(points, price, new)

AddBidDepth(points, price, diff) == AddDepth(points, price, diff, 0)

AddAskDepth_Fault(points, price, diff) ==
  Put(points, price, [bids |-> 0, asks |-> Long(diff)])

AddAskDepth(points, price, diff) == AddDepth(points, price, 0, diff)

-----------------------------------------------------------------------------
Init ==
  /\ accounts = EmptyMap
  /\ pricePoints = EmptyMap
  /\ lastTrade = NoTrade
  /\ traderOrders = [t \in Traders |-> {}]
  /\ orderCount = 0
  /\ orders = EmptyMap
  /\ bids = EmptyMap
  /\ asks = EmptyMap
  /\ matching = FALSE

\* register_account: try_emplace, so a second call changes nothing.
RegisterAccount(trader) ==
  /\ ~matching
  /\ accounts' = IF trader \in DOMAIN accounts THEN accounts
                   ELSE Put(accounts, trader, [count |-> 0, pnl |-> 0])
  /\ UNCHANGED <<pricePoints, lastTrade, traderOrders, orderCount, orders,
                 bids, asks, matching>>

\* The part that place_bid and place_ask share.  An unknown trader's order
\* changes nothing (the early return), so it is no step of this module.
NewOrder(trader, type, price, quantity) ==
  /\ ~matching
  /\ orderCount < MaxOrders
  /\ trader \in DOMAIN accounts
  /\ orderCount' = orderCount + 1
  /\ orders' = Put(orders, orderCount + 1,
                   [trader |-> trader, type |-> type,
                    price |-> price, quantity |-> quantity])
  /\ traderOrders' = [traderOrders EXCEPT ![trader] = @ \cup {orderCount + 1}]
  /\ matching' = TRUE
  /\ UNCHANGED <<accounts, lastTrade>>

PlaceBid(trader, price, quantity) ==
  /\ NewOrder(trader, "bid", price, quantity)
  /\ bids' = InsertId(bids, price, orderCount + 1)
  /\ pricePoints' = AddBidDepth(pricePoints, price, quantity)
  /\ UNCHANGED asks

PlaceAsk(trader, price, quantity) ==
  /\ NewOrder(trader, "ask", price, quantity)
  /\ asks' = InsertId(asks, price, orderCount + 1)
  /\ pricePoints' = AddAskDepth(pricePoints, price, quantity)
  /\ UNCHANGED bids

-----------------------------------------------------------------------------
(* The matching loop. *)

BookFront_Fault(i, j) ==
  \E b \in DOMAIN bids, a \in DOMAIN asks :
    /\ \A p \in DOMAIN bids : p <= b
    /\ \A p \in DOMAIN asks : a <= p
    /\ a <= b
    /\ i \in bids[b] /\ \A k \in bids[b] : k <= i
    /\ j \in asks[a] /\ \A k \in asks[a] : k <= j

\* The two orders at the front of the books: begin() of the best bid level
\* and begin() of the best ask level, when those prices cross.
BookFront(i, j) ==
  \E b \in DOMAIN bids, a \in DOMAIN asks :
    /\ \A p \in DOMAIN bids : p <= b
    /\ \A p \in DOMAIN asks : a <= p
    /\ a <= b
    /\ i \in bids[b] /\ \A k \in bids[b] : i <= k
    /\ j \in asks[a] /\ \A k \in asks[a] : j <= k

Match_Fault(i, j) ==
  [price |-> IF j < i THEN orders[i].price ELSE orders[j].price,
   quantity |-> IF orders[i].quantity <= orders[j].quantity
                  THEN orders[i].quantity ELSE orders[j].quantity]

\* trade::match: the smaller quantity, at the price of the older order.
Match(i, j) ==
  [price |-> IF j < i THEN orders[j].price ELSE orders[i].price,
   quantity |-> IF orders[i].quantity <= orders[j].quantity
                  THEN orders[i].quantity ELSE orders[j].quantity]

Confirm_Fault(book, trader, type, t) ==
  [book EXCEPT ![trader] =
     [count |-> Long(@.count + Sign(type) * t.quantity),
      pnl   |-> Long(@.pnl - t.price * t.quantity)]]

\* position::confirm
Confirm(book, trader, type, t) ==
  [book EXCEPT ![trader] =
     [count |-> Long(@.count + Sign(type) * t.quantity),
      pnl   |-> Long(@.pnl - Sign(type) * t.price * t.quantity)]]

Filled_Fault(i, j, quantity) == {k \in {i, j} : orders[k].quantity < quantity}

\* The orders among i and j that a trade of this quantity completes.
Filled(i, j, quantity) == {k \in {i, j} : orders[k].quantity = quantity}

\* One iteration of the loop: update_accounts, the two price point updates,
\* update_order on both orders, and the erase of a level left empty.
ExecuteTrade ==
  /\ matching
  /\ \E i \in DOMAIN orders, j \in DOMAIN orders :
       LET bid  == orders[i]
           ask  == orders[j]
           t    == Match(i, j)
           done == Filled(i, j, t.quantity)
       IN
       /\ BookFront(i, j)
       /\ lastTrade' = t
       /\ accounts' = Confirm(Confirm(accounts, bid.trader, "bid", t),
                              ask.trader, "ask", t)
       /\ pricePoints' = AddAskDepth(
                           AddBidDepth(pricePoints, bid.price, -t.quantity),
                           ask.price, -t.quantity)
       /\ orders' = [k \in DOMAIN orders \ done |->
                       IF k \in {i, j}
                         THEN [orders[k] EXCEPT !.quantity = @ - t.quantity]
                         ELSE orders[k]]
       /\ traderOrders' = [traderOrders EXCEPT ![bid.trader] = @ \ (done \cap {i}),
                                               ![ask.trader] = @ \ (done \cap {j})]
       /\ bids' = IF i \in done THEN EraseId(bids, bid.price, i) ELSE bids
       /\ asks' = IF j \in done THEN EraseId(asks, ask.price, j) ELSE asks
  /\ UNCHANGED <<orderCount, matching>>

EndMatching_Fault ==
  /\ matching
  /\ \A b \in DOMAIN bids, a \in DOMAIN asks : b <= a
  /\ matching' = FALSE
  /\ UNCHANGED <<accounts, pricePoints, lastTrade, traderOrders, orderCount,
                 orders, bids, asks>>

\* The loop's exits: a side is empty, or the best bid is below the best ask.
EndMatching ==
  /\ matching
  /\ \A b \in DOMAIN bids, a \in DOMAIN asks : b < a
  /\ matching' = FALSE
  /\ UNCHANGED <<accounts, pricePoints, lastTrade, traderOrders, orderCount,
                 orders, bids, asks>>

\* cancel_order: an unknown id or another trader's order is refused (false)
\* and changes nothing.
CancelOrder(trader, id) ==
  /\ ~matching
  /\ id \in DOMAIN orders
  /\ orders[id].trader = trader
  /\ LET o == orders[id] IN
       IF o.type = "bid"
         THEN /\ pricePoints' = AddBidDepth(pricePoints, o.price, -o.quantity)
              /\ bids' = EraseId(bids, o.price, id)
              /\ UNCHANGED asks
         ELSE /\ pricePoints' = AddAskDepth(pricePoints, o.price, -o.quantity)
              /\ asks' = EraseId(asks, o.price, id)
              /\ UNCHANGED bids
  /\ traderOrders' = [traderOrders EXCEPT ![trader] = @ \ {id}]
  /\ orders' = Drop(orders, id)
  /\ UNCHANGED <<accounts, lastTrade, orderCount, matching>>

Next ==
  \/ \E t \in Traders : RegisterAccount(t)
  \/ \E t \in Traders, p \in Prices, q \in Quantities :
       PlaceBid(t, p, q) \/ PlaceAsk(t, p, q)
  \/ \E t \in Traders, id \in DOMAIN orders : CancelOrder(t, id)
  \/ ExecuteTrade
  \/ EndMatching

\* A handler that has started runs to its end: the loop is never left.
Spec == Init /\ [][Next]_vars /\ WF_vars(ExecuteTrade \/ EndMatching)
-----------------------------------------------------------------------------
(* Properties. *)

\* Every variable has its type; totals and positions stay in a long even
\* where their sums pass its limits.
TypeOK ==
  /\ DOMAIN accounts \subseteq Traders
  /\ accounts \in [DOMAIN accounts -> Position]
  /\ DOMAIN pricePoints \subseteq Prices
  /\ pricePoints \in [DOMAIN pricePoints -> Depth]
  /\ lastTrade \in Trade
  /\ traderOrders \in [Traders -> SUBSET (1..orderCount)]
  /\ orderCount \in 0..MaxOrders
  /\ DOMAIN orders \subseteq 1..orderCount
  /\ orders \in [DOMAIN orders -> Order]
  /\ DOMAIN bids \subseteq Prices
  /\ bids \in [DOMAIN bids -> SUBSET (1..orderCount)]
  /\ DOMAIN asks \subseteq Prices
  /\ asks \in [DOMAIN asks -> SUBSET (1..orderCount)]
  /\ matching \in BOOLEAN

Levels(type) == IF type = "bid" THEN bids ELSE asks

\* Each open order is filed exactly where its own fields say.
OrdersFiled ==
  \A id \in DOMAIN orders :
    LET o == orders[id] IN
    /\ o.trader \in DOMAIN accounts
    /\ id \in traderOrders[o.trader]
    /\ o.price \in DOMAIN Levels(o.type)
    /\ id \in Levels(o.type)[o.price]

\* Nothing but open orders is filed on a level, and no level is empty: the
\* loop may dereference begin() of every level (market.cpp:80-81).
LevelsHoldOrders ==
  \A type \in OrderTypes : \A price \in DOMAIN Levels(type) :
    /\ Levels(type)[price] # {}
    /\ \A id \in Levels(type)[price] :
         /\ id \in DOMAIN orders
         /\ orders[id].type = type
         /\ orders[id].price = price

\* A trader's own list names only open orders of that trader, the ones that
\* subscribe looks up with at() (market.cpp:119-120).
ListsHoldOrders ==
  \A t \in Traders : \A id \in traderOrders[t] :
    id \in DOMAIN orders /\ orders[id].trader = t

\* The four containers that name an order agree through partial fills,
\* completed fills and cancellations (market.cpp:55-97, 166-204).
BookIntegrity == OrdersFiled /\ LevelsHoldOrders /\ ListsHoldOrders

\* At rest no bid meets an ask; inside the loop the only order that can
\* still trade is the one that was just placed.
OnlyNewestCrosses ==
  \A i, j \in DOMAIN orders :
    (/\ orders[i].type = "bid" /\ orders[j].type = "ask"
     /\ orders[j].price <= orders[i].price)
    => matching /\ orderCount \in {i, j}

\* The open quantity of one side at one price.
SideTotal(type, price) ==
  SumFunctionOnSet([id \in DOMAIN orders |-> orders[id].quantity],
                   {id \in DOMAIN orders : /\ orders[id].type = type
                                           /\ orders[id].price = price})

\* A price point shows the open quantity of both sides at its price, up to
\* the width of a long, and it is absent exactly when both totals are zero
\* (update_bid_ask_count, market.cpp:20-31).
DepthIsBook ==
  \A p \in Prices :
    LET depth == [bids |-> Long(SideTotal("bid", p)),
                  asks |-> Long(SideTotal("ask", p))] IN
    IF p \in DOMAIN pricePoints THEN pricePoints[p] = depth /\ depth # NoDepth
                                ELSE depth = NoDepth

\* Trading creates neither units nor money: over all traders, the units held
\* and the profits sum to nothing (modulo the width of a long), also when a
\* trader trades with itself (position::confirm, market.cpp:41-53).
ZeroSum ==
  /\ Long(SumFunction([t \in DOMAIN accounts |-> accounts[t].count])) = 0
  /\ Long(SumFunction([t \in DOMAIN accounts |-> accounts[t].pnl])) = 0

\* An order that loses quantity inside the loop trades within its limit, and
\* a resting one at exactly its own price: the newcomer never moves it.
Loses(id) ==
  id \notin (DOMAIN orders)' \/ orders'[id].quantity < orders[id].quantity

LimitsRespected ==
  [][matching => \A id \in DOMAIN orders : Loses(id) =>
        LET o == orders[id] IN
        /\ o.type = "bid" => lastTrade'.price <= o.price
        /\ o.type = "ask" => lastTrade'.price >= o.price
        /\ id # orderCount => lastTrade'.price = o.price]_vars

\* The matching loop ends (market.cpp:69-96): every iteration completes an
\* order.
MatchingEnds == matching ~> ~matching
=============================================================================
