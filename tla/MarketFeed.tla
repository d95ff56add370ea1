----------------------------- MODULE MarketFeed -----------------------------
(***************************************************************************)
(* A market and the pages that watch it: the messages each handler sends   *)
(* (market.cpp), their routing (broadcast.cpp), the stream of one          *)
(* subscription (stream_endpoint.cpp), and the view that the page builds   *)
(* from them (srv/www/js/market.js).                                       *)
(*                                                                         *)
(* A stream is one FIFO from the market to the page: the async_queue, the  *)
(* FastCGI output and the browser's connection keep the order and lose     *)
(* nothing while the connection lives (EventQueue has the queue's own      *)
(* model).  A lost connection takes what was under way with it; the server *)
(* notices later, and until then its subscription stays.                   *)
(***************************************************************************)
EXTENDS Market, Ladder

CONSTANTS Watchers,    \* the traders that have a page, one page each
          Double(_)    \* the number that JSON.parse makes of a long

\* The address of a message to all
Everybody == "everybody"

ASSUME FeedAssumption ==
  /\ Watchers \subseteq Traders
  /\ Everybody \notin Traders

\* The page has doubles: a long beyond 2^53 is rounded to the nearest one, and
\* is zero or out of order for that in no case.  A price comes from the form
\* of a page (market.js:223-229), so it is a double already.  The ids of
\* orders, which count from 1, stay far below 2^53.
ASSUME DoubleAssumption ==
  /\ \A x \in LongRange : Double(x) \in Int /\ (Double(x) = 0 <=> x = 0)
  /\ \A x, y \in LongRange : x <= y => Double(x) <= Double(y)
  /\ \A p \in Prices : Double(p) = p

VARIABLES link,        \* server side: "closed", "open", or "lost" unnoticed
          stream,      \* messages sent on an open link, not yet handled
          page,        \* "none", "connected", "retrying" or "refused"
          rejoined,    \* the page has lived through a lost connection
          view         \* what the page shows

feed == <<link, stream, page, rejoined, view>>

fvars == <<vars, feed>>

-----------------------------------------------------------------------------
(* Messages.  A message goes to one trader or to everybody. *)

DepthAt(points, price) == IF price \in DOMAIN points THEN points[price] ELSE NoDepth

PricePointMsg(price, depth) ==
  [to |-> Everybody, event |-> "pricePoint", price |-> price, depth |-> depth]

TradeMsg(t) == [to |-> Everybody, event |-> "trade", price |-> t.price]

AccountMsg(trader, position) ==
  [to |-> trader, event |-> "account", position |-> position]

OrderMsg(event, trader, id, type, price, remaining) ==
  [to |-> trader, event |-> event, id |-> id,
   type |-> type, price |-> price, remaining |-> remaining]

\* place_bid, place_ask, cancel_order and subscribe send an order as it is.
OpenOrderMsg(event, id, o) ==
  OrderMsg(event, o.trader, id, o.type, o.price, o.quantity)

\* subscribe: the last trade, the account, every price point and every own
\* order.  The last two come out of hash tables in any order; messages on
\* different prices and orders commute, so one order stands for all.
Snapshot(w) ==
  LET prices == SetToSeq(DOMAIN pricePoints)
      ids    == SetToSeq(traderOrders[w])
  IN  <<TradeMsg(lastTrade), AccountMsg(w, accounts[w])>>
        \o [k \in DOMAIN prices |-> PricePointMsg(prices[k], pricePoints[prices[k]])]
        \o [k \in DOMAIN ids |->
              OpenOrderMsg("orderSubmitted", ids[k], orders[ids[k]])]

\* broadcast::send_msg: a message for one trader looks up that trader's stream.
Push(w, sent, m) == IF m.to \in {w, Everybody} THEN Append(sent, m) ELSE sent

Send_Fault(msgs) ==
  /\ stream' = [w \in Watchers |->
                  IF link[w] # "closed"
                    THEN FoldLeft(LAMBDA sent, m : Push(w, sent, m), stream[w], msgs)
                    ELSE stream[w]]
  /\ UNCHANGED <<link, page, rejoined, view>>

\* The messages of one handler, in their order.
Send(msgs) ==
  /\ stream' = [w \in Watchers |->
                  IF link[w] = "open"
                    THEN FoldLeft(LAMBDA sent, m : Push(w, sent, m), stream[w], msgs)
                    ELSE stream[w]]
  /\ UNCHANGED <<link, page, rejoined, view>>

-----------------------------------------------------------------------------
(* The page. *)

Rounded(position) == [count |-> Double(position.count), pnl |-> Double(position.pnl)]

\* getOrderPillText: "Bid: 25 @ 100"
Pill(m) == [type |-> m.type, price |-> Double(m.price), remaining |-> Double(m.remaining)]

\* The pill of an order goes when nothing of the order remains.
ShowExecuted(shown, m) ==
  IF m.id \in DOMAIN shown.pills
    THEN [shown EXCEPT !.pills = IF Pill(m).remaining = 0
                                   THEN Drop(shown.pills, m.id)
                                   ELSE Put(shown.pills, m.id, Pill(m))]
    ELSE shown

\* An order that already has a pill keeps it as it is.
ShowSubmitted(shown, m) ==
  IF m.id \in DOMAIN shown.pills
    THEN shown
    ELSE [shown EXCEPT !.pills = Put(shown.pills, m.id, Pill(m))]

\* One event listener of the page, with its JSON.parse.
Show(shown, m) ==
  CASE m.event = "pricePoint" ->
         [shown EXCEPT !.bids = Update(@, Double(m.price), Double(m.depth.bids), "bids"),
                       !.asks = Update(@, Double(m.price), Double(m.depth.asks), "asks")]
    [] m.event = "account"        -> [shown EXCEPT !.account = Rounded(m.position)]
    [] m.event = "trade"          -> [shown EXCEPT !.price = Double(m.price)]
    [] m.event = "orderSubmitted" -> ShowSubmitted(shown, m)
    [] m.event = "orderExecuted"  -> ShowExecuted(shown, m)
    [] m.event = "orderCancelled" -> [shown EXCEPT !.pills = Drop(@, m.id)]

BlankView == [bids |-> BlankSide, asks |-> BlankSide, price |-> 0,
              account |-> [count |-> 0, pnl |-> 0], pills |-> EmptyMap]

-----------------------------------------------------------------------------
FeedInit ==
  /\ Init
  /\ link = [w \in Watchers |-> "closed"]
  /\ stream = [w \in Watchers |-> <<>>]
  /\ page = [w \in Watchers |-> "none"]
  /\ rejoined = [w \in Watchers |-> FALSE]
  /\ view = [w \in Watchers |-> BlankView]

(* The handlers of the market, with what they send. *)

Register(t) == RegisterAccount(t) /\ UNCHANGED feed

Place(type, t, p, q) ==
  /\ IF type = "bid" THEN PlaceBid(t, p, q) ELSE PlaceAsk(t, p, q)
  /\ Send(<<PricePointMsg(p, DepthAt(pricePoints', p)),
            OpenOrderMsg("orderSubmitted", orderCount', orders'[orderCount'])>>)

\* update_accounts, both price points (the first before the second changes)
\* and update_order of the bid and of the ask, with the price of the trade
\* where the other messages about an order have the order's own.
Execute ==
  /\ ExecuteTrade
  /\ \E i \in DOMAIN orders, j \in DOMAIN orders :
       LET bid  == orders[i]
           ask  == orders[j]
           t    == Match(i, j)
           once == AddBidDepth(pricePoints, bid.price, -t.quantity)
       IN
       /\ BookFront(i, j)
       /\ Send(<<TradeMsg(t),
                 AccountMsg(bid.trader, accounts'[bid.trader]),
                 AccountMsg(ask.trader, accounts'[ask.trader]),
                 PricePointMsg(bid.price, DepthAt(once, bid.price)),
                 PricePointMsg(ask.price, DepthAt(pricePoints', ask.price)),
                 OrderMsg("orderExecuted", bid.trader, i, bid.type, t.price,
                          bid.quantity - t.quantity),
                 OrderMsg("orderExecuted", ask.trader, j, ask.type, t.price,
                          ask.quantity - t.quantity)>>)

Settle == EndMatching /\ UNCHANGED feed

Cancel(t, id) ==
  /\ CancelOrder(t, id)
  /\ LET o == orders[id] IN
       Send(<<PricePointMsg(o.price, DepthAt(pricePoints', o.price)),
              OpenOrderMsg("orderCancelled", id, o)>>)

(* Pages and connections. *)

Subscribe_Fault(w) ==
  /\ link' = [link EXCEPT ![w] = "open"]
  /\ stream' = [stream EXCEPT ![w] = Tail(Snapshot(w))]
  /\ page' = [page EXCEPT ![w] = "connected"]

\* market::subscribe for a trader that has no stream.
Subscribe(w) ==
  /\ link' = [link EXCEPT ![w] = "open"]
  /\ stream' = [stream EXCEPT ![w] = Snapshot(w)]
  /\ page' = [page EXCEPT ![w] = "connected"]

\* broadcast::subscribe finds the trader's id taken: the page is told that
\* it is a duplicate and closes its event source.
Refuse(w) ==
  /\ page' = [page EXCEPT ![w] = "refused"]
  /\ UNCHANGED <<link, stream>>

\* A page is loaded: it starts blank.
OpenPage(w) ==
  /\ ~matching
  /\ w \in DOMAIN accounts
  /\ page[w] \in {"none", "refused"}
  /\ IF link[w] = "closed" THEN Subscribe(w) ELSE Refuse(w)
  /\ view' = [view EXCEPT ![w] = BlankView]
  /\ rejoined' = [rejoined EXCEPT ![w] = FALSE]
  /\ UNCHANGED vars

\* The event source connects again by itself; the page keeps what it shows.
Rejoin(w) ==
  /\ ~matching
  /\ page[w] = "retrying"
  /\ IF link[w] = "closed" THEN Subscribe(w) ELSE Refuse(w)
  /\ rejoined' = [rejoined EXCEPT ![w] = TRUE]
  /\ UNCHANGED <<vars, view>>

\* The connection breaks after the page has handled some of what was sent;
\* the event source will retry.
LoseConnection(w) ==
  /\ ~matching
  /\ page[w] = "connected"
  /\ \E handled \in Prefixes(stream[w]) :
       view' = [view EXCEPT ![w] = FoldLeft(Show, @, handled)]
  /\ page' = [page EXCEPT ![w] = "retrying"]
  /\ link' = [link EXCEPT ![w] = "lost"]
  /\ stream' = [stream EXCEPT ![w] = <<>>]
  /\ UNCHANGED <<vars, rejoined>>

\* The user leaves the page, and nobody retries.
ClosePage(w) ==
  /\ ~matching
  /\ page[w] = "connected"
  /\ view' = [view EXCEPT ![w] = BlankView]
  /\ page' = [page EXCEPT ![w] = "none"]
  /\ link' = [link EXCEPT ![w] = "lost"]
  /\ stream' = [stream EXCEPT ![w] = <<>>]
  /\ UNCHANGED <<vars, rejoined>>

\* The server reads the end of the connection: the request and with it the
\* subscription are destroyed (~subscription, broadcast::unsubscribe).
Unsubscribe(w) ==
  /\ ~matching
  /\ link[w] = "lost"
  /\ link' = [link EXCEPT ![w] = "closed"]
  /\ UNCHANGED <<vars, stream, page, rejoined, view>>

\* The page handles a batch: all that was queued goes out in one write.  A
\* page that has handled only a part of it differs in nothing but what a
\* connection that breaks there takes away, which LoseConnection covers.
Deliver(w) ==
  /\ ~matching
  /\ stream[w] # <<>>
  /\ view' = [view EXCEPT ![w] = FoldLeft(Show, @, stream[w])]
  /\ stream' = [stream EXCEPT ![w] = <<>>]
  /\ UNCHANGED <<vars, link, page, rejoined>>

FeedNext ==
  \/ \E t \in Traders : Register(t)
  \/ \E type \in OrderTypes, t \in Traders, p \in Prices, q \in Quantities :
       Place(type, t, p, q)
  \/ Execute
  \/ Settle
  \/ \E t \in Traders, id \in DOMAIN orders : Cancel(t, id)
  \/ \E w \in Watchers :
       \/ OpenPage(w) \/ Rejoin(w) \/ LoseConnection(w) \/ ClosePage(w)
       \/ Unsubscribe(w) \/ Deliver(w)

FeedSpec == FeedInit /\ [][FeedNext]_fvars

-----------------------------------------------------------------------------
(* Properties. *)

\* Types; only an open link has messages under way, and a page is connected
\* exactly while the server's link to it is open.
FeedTypeOK ==
  /\ TypeOK
  /\ link \in [Watchers -> {"closed", "open", "lost"}]
  /\ page \in [Watchers -> {"none", "connected", "retrying", "refused"}]
  /\ rejoined \in [Watchers -> BOOLEAN]
  /\ DOMAIN stream = Watchers /\ DOMAIN view = Watchers
  /\ \A w \in Watchers : link[w] # "open" => stream[w] = <<>>
  /\ \A w \in Watchers : page[w] = "connected" <=> link[w] = "open"

\* What the market holds of what a page shows, in doubles; of an open order,
\* what is left of it.
Shown(w) ==
  LET side(size(_)) == {p \in DOMAIN pricePoints : size(pricePoints[p]) # 0} IN
  [bids    |-> [p \in side(LAMBDA d : d.bids) |-> Double(pricePoints[p].bids)],
   asks    |-> [p \in side(LAMBDA d : d.asks) |-> Double(pricePoints[p].asks)],
   price   |-> lastTrade.price,
   account |-> Rounded(accounts[w]),
   pills   |-> [id \in traderOrders[w] |-> Double(orders[id].quantity)]]

Remaining(pills) == [id \in DOMAIN pills |-> pills[id].remaining]

\* A pill names the side of its order, and a price within the order's limit.
Suits(pill, o) ==
  /\ pill.type = o.type
  /\ IF o.type = "bid" THEN pill.price <= o.price ELSE pill.price >= o.price

\* What the page will show once it has handled all that was sent to it.
Replayed(w) == FoldLeft(Show, view[w], stream[w])

\* A page that kept its connection since it was loaded will show, to the
\* precision of a double, both sides of the book, the best levels in its rows,
\* the last trade, its account and what is left of each of its open orders, as
\* the market has them, whatever was placed, traded or cancelled before the
\* snapshot, while it was on its way, and since (market.cpp:103-126,
\* market.js).  The price on a pill is within the limit of its order; it is
\* the limit itself only until the order trades (PillsAsPlaced).
FreshPageExact ==
  \A w \in Watchers :
    page[w] = "connected" /\ ~rejoined[w] =>
      LET after == Replayed(w) IN
      /\ [after EXCEPT !.bids = @.sizes, !.asks = @.sizes, !.pills = Remaining(@)] = Shown(w)
      /\ IsLadder(after.bids, "bids") /\ IsLadder(after.asks, "asks")
      /\ \A id \in traderOrders[w] : Suits(after.pills[id], orders[id])

Within(f, g) == \A x \in DOMAIN f : x \in DOMAIN g /\ f[x] = g[x]

\* A page that reconnected keeps its old levels and pills, so it may show
\* more than there is, but it misses nothing: every live level, the last
\* trade and the account are as the market has them, its rows are the best of
\* the levels that it knows, and every open order has a pill of its side, with
\* at least what is left of the order and a price within its limit
\* (market.js:41-42, 171-176).
RejoinedPageCovers ==
  \A w \in Watchers :
    page[w] = "connected" /\ rejoined[w] =>
      LET after == Replayed(w)
          truth == Shown(w)
      IN
      /\ after.price = truth.price /\ after.account = truth.account
      /\ Within(truth.bids, after.bids.sizes)
      /\ Within(truth.asks, after.asks.sizes)
      /\ IsLadder(after.bids, "bids") /\ IsLadder(after.asks, "asks")
      /\ \A id \in DOMAIN truth.pills :
           /\ id \in DOMAIN after.pills /\ after.pills[id].remaining >= truth.pills[id]
           /\ Suits(after.pills[id], orders[id])

\* market.html:29 shows what an open order looks like, "Bid 25 @ 100", and the
\* snapshot sends the order's price under that name (market.cpp:121).  So the
\* pill of a fresh page should show the price at which the order stands in the
\* book; after a partial fill at a better price it shows the trade's
\* (market.cpp:57).
PillsAsPlaced ==
  \A w \in Watchers :
    page[w] = "connected" /\ ~rejoined[w] =>
      \A id \in traderOrders[w] : Replayed(w).pills[id].price = orders[id].price

\* market.js:143 tells the user "Only one stream allowed per trader".  Every
\* trader of this model has one page, so the page should never hear it.
OnlyOwnStream == \A w \in Watchers : page[w] # "refused"
=============================================================================
