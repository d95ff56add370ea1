------------------------------ MODULE Exchange ------------------------------
(***************************************************************************)
(* The exchange (src/src/exchange.cpp) behind its endpoints, and the       *)
(* browser tabs that call them: index.js creates or joins a market under a *)
(* fresh trader id, market.js opens a stream, places orders, and cancels   *)
(* the orders that it shows.                                               *)
(*                                                                         *)
(* Markets live in memory only.  When the server restarts they are gone,   *)
(* but the tabs stay open, keep their pills, go on sending requests and    *)
(* connect their streams again.                                            *)
(*                                                                         *)
(* Abstracted: what a market does with an order (Market has it), so that   *)
(* an order that is placed closes any set of open ones; and the malformed  *)
(* requests, which each endpoint answers before it asks the exchange.      *)
(*                                                                         *)
(* A definition whose name ends in _Fault is a plausible bug of the one    *)
(* that follows it; the model never uses it.                               *)
(***************************************************************************)
EXTENDS Naturals, FiniteSets

CONSTANTS Markets,       \* market ids
          Traders,       \* trader ids; index.js draws a new one per join
          MaxOrders,     \* bound of the model: orders placed in one market
          MaxRestarts,   \* bound of the model: restarts of the server
          None           \* no request and no answer

\* What the endpoints answer, for a market, in an epoch of the server.
Replies == {"created", "Market ID already exists", "joined", "Market ID does not exist",
            "Order Placed", "Market ID not found", "Order cancelled", "Order not found"}

Answers == [reply : Replies, market : Markets, epoch : 0..MaxRestarts]

ASSUME ExchangeAssumption ==
  /\ MaxOrders \in Nat /\ MaxRestarts \in Nat
  /\ None \notin Answers

VARIABLES markets,   \* m_markets: id -> accounts, order count, open orders
                     \* (id -> trader) and streams
          epoch,     \* restarts so far, which the code does not know
          tab,       \* where the tab of a trader is, its market, and the
                     \* epoch in which it joined
          shown,     \* the orders the tab has had a pill for
          call,      \* the request of the tab, sent and not yet handled
          answer,    \* the answer on its way to the tab
          source     \* the event source of the tab

vars == <<markets, epoch, tab, shown, call, answer, source>>

Put(f, key, value) ==
  [k \in DOMAIN f \cup {key} |-> IF k = key THEN value ELSE f[k]]

NoMarket == [m \in {} |-> None]

NewMarket == [accounts |-> {}, count |-> 0, orders |-> [id \in {} |-> None], streams |-> {}]

Init ==
  /\ markets = NoMarket
  /\ epoch = 0
  /\ tab = [t \in Traders |-> [at |-> "index", market |-> None, epoch |-> 0]]
  /\ shown = [t \in Traders |-> {}]
  /\ call = [t \in Traders |-> None]
  /\ answer = [t \in Traders |-> None]
  /\ source = [t \in Traders |-> "none"]

-----------------------------------------------------------------------------
(* Requests of the tabs: fetch sends one, and the tab waits for its answer. *)

Request(op, m, order) == [op |-> op, market |-> m, order |-> order]

Send(t, request) ==
  /\ call[t] = None
  /\ answer[t] = None
  /\ call' = [call EXCEPT ![t] = request]
  /\ UNCHANGED <<markets, epoch, shown, answer, source>>

\* onClickCreate
ClickCreate(t, m) ==
  /\ tab[t].at = "index"
  /\ Send(t, Request("create", m, None))
  /\ UNCHANGED tab

\* onClickJoin: joinMarket draws the trader id, so an id joins only once.
ClickJoin(t, m) ==
  /\ tab[t].at = "index"
  /\ Send(t, Request("join", m, None))
  /\ tab' = [tab EXCEPT ![t].at = "joining"]

\* onClickSubmit
ClickSubmit(t) ==
  /\ tab[t].at = "market"
  /\ Send(t, Request("order", tab[t].market, None))
  /\ UNCHANGED tab

\* cancelOrder of a pill.  The click may meet the message that removes the
\* pill, so every order that was ever shown can be cancelled.
ClickCancel(t) ==
  /\ tab[t].at = "market"
  /\ \E order \in shown[t] : Send(t, Request("cancel", tab[t].market, order))
  /\ UNCHANGED tab

\* The tab reads its answer.  A market it has created it joins at once, and
\* a market it has joined it opens: market.html starts an event source.
ReadAnswer(t) ==
  /\ answer[t] # None
  /\ answer' = [answer EXCEPT ![t] = None]
  /\ CASE answer[t].reply = "created" ->
            /\ call' = [call EXCEPT ![t] = Request("join", answer[t].market, None)]
            /\ tab' = [tab EXCEPT ![t].at = "joining"]
            /\ UNCHANGED source
       [] answer[t].reply = "joined" ->
            /\ tab' = [tab EXCEPT ![t] = [at |-> "market", market |-> answer[t].market,
                                          epoch |-> answer[t].epoch]]
            /\ source' = [source EXCEPT ![t] = "connecting"]
            /\ UNCHANGED call
       [] OTHER -> UNCHANGED <<call, tab, source>>
  /\ UNCHANGED <<markets, epoch, shown>>

-----------------------------------------------------------------------------
(* The endpoints.  Each handles a request with one call of the exchange,   *)
(* between two waits of its coroutine.                                     *)

Answer(t, reply) ==
  /\ call' = [call EXCEPT ![t] = None]
  /\ answer' = [answer EXCEPT
       ![t] = [reply |-> reply, market |-> call[t].market, epoch |-> epoch]]
  /\ UNCHANGED <<epoch, tab, shown, source>>

Asks(t, op) == call[t] # None /\ call[t].op = op

Known(m) == m \in DOMAIN markets

HandleCreate_Fault(t) ==
  /\ Asks(t, "create")
  /\ Answer(t, "created")
  /\ markets' = Put(markets, call[t].market, NewMarket)

\* create_endpoint, create_market: try_emplace.
HandleCreate(t) ==
  /\ Asks(t, "create")
  /\ \/ /\ ~Known(call[t].market)
        /\ Answer(t, "created")
        /\ markets' = Put(markets, call[t].market, NewMarket)
     \/ /\ Known(call[t].market)
        /\ Answer(t, "Market ID already exists")
        /\ UNCHANGED markets

\* join_endpoint, join_market
HandleJoin(t) ==
  /\ Asks(t, "join")
  /\ \/ /\ Known(call[t].market)
        /\ Answer(t, "joined")
        /\ markets' = [markets EXCEPT ![call[t].market].accounts = @ \cup {t}]
     \/ /\ ~Known(call[t].market)
        /\ Answer(t, "Market ID does not exist")
        /\ UNCHANGED markets

\* A market files the order of a trader it knows, and any open orders may
\* have closed when its matching loop has ended.
PlaceOrder(m, t) ==
  LET id   == markets[m].count + 1
      open == Put(markets[m].orders, id, t)
  IN  IF t \in markets[m].accounts
        THEN /\ id <= MaxOrders
             /\ \E closed \in SUBSET DOMAIN open :
                  markets' = [markets EXCEPT
                    ![m].count = id,
                    ![m].orders = [k \in DOMAIN open \ closed |-> open[k]]]
        ELSE UNCHANGED markets

\* order_endpoint, place_order: the answer does not depend on the trader.
HandleOrder(t) ==
  /\ Asks(t, "order")
  /\ \/ /\ Known(call[t].market)
        /\ PlaceOrder(call[t].market, t)
        /\ Answer(t, "Order Placed")
     \/ /\ ~Known(call[t].market)
        /\ Answer(t, "Market ID not found")
        /\ UNCHANGED markets

Cancellable_Fault(m, t, id) ==
  Known(m) /\ id \in DOMAIN markets[m].orders

\* The early returns of exchange::cancel_order and market::cancel_order.
Cancellable(m, t, id) ==
  Known(m) /\ id \in DOMAIN markets[m].orders /\ markets[m].orders[id] = t

\* cancel_endpoint
HandleCancel(t) ==
  /\ Asks(t, "cancel")
  /\ LET m  == call[t].market
         id == call[t].order.id
     IN
     \/ /\ Cancellable(m, t, id)
        /\ Answer(t, "Order cancelled")
        /\ markets' = [markets EXCEPT ![m].orders =
                         [k \in DOMAIN @ \ {id} |-> @[k]]]
     \/ /\ ~Cancellable(m, t, id)
        /\ Answer(t, "Order not found")
        /\ UNCHANGED markets

-----------------------------------------------------------------------------
(* Streams. *)

Subscribable_Fault(m, t) == Known(m) /\ t \notin markets[m].streams

\* exchange::subscribe, market::subscribe and broadcast::subscribe all find
\* something to subscribe to.
Subscribable(m, t) ==
  Known(m) /\ t \in markets[m].accounts /\ t \notin markets[m].streams

\* stream_endpoint: for every other outcome the page is sent "duplicate",
\* and closes its event source.
HandleStream(t) ==
  /\ source[t] = "connecting"
  /\ LET m == tab[t].market IN
     \/ /\ Subscribable(m, t)
        /\ markets' = [markets EXCEPT ![m].streams = @ \cup {t}]
        /\ source' = [source EXCEPT ![t] = "open"]
     \/ /\ ~Subscribable(m, t)
        /\ source' = [source EXCEPT ![t] = "refused"]
        /\ UNCHANGED markets
  /\ UNCHANGED <<epoch, tab, shown, call, answer>>

\* The page gets an order's orderSubmitted message, and shows a pill.
ShowOrder(t) ==
  /\ source[t] = "open"
  /\ \E id \in DOMAIN markets[tab[t].market].orders :
       /\ markets[tab[t].market].orders[id] = t
       /\ shown' = [shown EXCEPT ![t] = @ \cup {[id |-> id, epoch |-> epoch]}]
  /\ UNCHANGED <<markets, epoch, tab, call, answer, source>>

\* The connection breaks: the event source will connect again.
LoseStream(t) ==
  /\ source[t] = "open"
  /\ source' = [source EXCEPT ![t] = "connecting"]
  /\ UNCHANGED <<markets, epoch, tab, shown, call, answer>>

\* The server reads the end of a connection, and the subscription is gone.
Unsubscribe(t) ==
  /\ source[t] # "open"
  /\ \E m \in DOMAIN markets :
       /\ t \in markets[m].streams
       /\ markets' = [markets EXCEPT ![m].streams = @ \ {t}]
  /\ UNCHANGED <<epoch, tab, shown, call, answer, source>>

-----------------------------------------------------------------------------
\* The server starts again without a market.  The web server before it
\* fails some of the requests under way, or passes them on later; answers
\* may have left it already.  An event source connects again, unless it too
\* was answered with an error.
Restart ==
  /\ epoch < MaxRestarts
  /\ epoch' = epoch + 1
  /\ markets' = NoMarket
  /\ \E failed \in SUBSET Traders :
       /\ call' = [t \in Traders |-> IF t \in failed THEN None ELSE call[t]]
       /\ answer' = [t \in Traders |-> IF t \in failed THEN None ELSE answer[t]]
       /\ source' = [t \in Traders |->
                       IF source[t] \notin {"open", "connecting"} THEN source[t]
                       ELSE IF t \in failed THEN "none" ELSE "connecting"]
  /\ UNCHANGED <<tab, shown>>

Next ==
  \/ \E t \in Traders :
       \/ \E m \in Markets : ClickCreate(t, m) \/ ClickJoin(t, m)
       \/ ClickSubmit(t) \/ ClickCancel(t) \/ ReadAnswer(t)
       \/ HandleCreate(t) \/ HandleJoin(t) \/ HandleOrder(t) \/ HandleCancel(t)
       \/ HandleStream(t) \/ ShowOrder(t) \/ LoseStream(t) \/ Unsubscribe(t)
  \/ Restart

Spec == Init /\ [][Next]_vars

-----------------------------------------------------------------------------
(* Properties. *)

Market == [accounts : SUBSET Traders, count : 0..MaxOrders,
           orders : UNION {[S -> Traders] : S \in SUBSET (1..MaxOrders)},
           streams : SUBSET Traders]

ShownOrder == [id : 1..MaxOrders, epoch : 0..MaxRestarts]

\* Types; and a market's streams and open orders belong to its accounts.
TypeOK ==
  /\ DOMAIN markets \subseteq Markets
  /\ \A m \in DOMAIN markets :
       /\ markets[m] \in Market
       /\ markets[m].streams \subseteq markets[m].accounts
       /\ \A id \in DOMAIN markets[m].orders : markets[m].orders[id] \in markets[m].accounts
  /\ epoch \in 0..MaxRestarts
  /\ tab \in [Traders -> [at : {"index", "joining", "market"},
                          market : Markets \cup {None}, epoch : 0..MaxRestarts]]
  /\ shown \in [Traders -> SUBSET ShownOrder]
  /\ call \in [Traders -> {None} \cup
                 [op : {"create", "join", "order", "cancel"}, market : Markets,
                  order : {None} \cup ShownOrder]]
  /\ answer \in [Traders -> {None} \cup Answers]
  /\ source \in [Traders -> {"none", "connecting", "open", "refused"}]

\* A cancellation closes the very order whose pill was clicked, also where a
\* market of the same id, with orders of the same numbers, was created after
\* a restart (market.cpp:166-175, index.js:38).
CancelsShownOrder ==
  [][\A t \in Traders :
       call[t] # None /\ answer'[t] # answer[t] /\ answer'[t] # None =>
         (answer'[t].reply = "Order cancelled" => call[t].order.epoch = epoch)]_vars

\* A tab that has joined keeps its account until the server restarts,
\* whoever tries to create the market again (exchange.cpp:3-5).
AccountKept ==
  \A t \in Traders :
    tab[t].at = "market" /\ tab[t].epoch = epoch =>
      /\ tab[t].market \in DOMAIN markets
      /\ t \in markets[tab[t].market].accounts

\* order_endpoint.cpp:20 answers "Order Placed": the market then holds, or
\* has filled, one order more.
PlacedMeansPlaced ==
  [][\A t \in Traders :
       call[t] # None /\ answer'[t] # answer[t] /\ answer'[t] # None =>
         (answer'[t].reply = "Order Placed" =>
            markets'[call[t].market].count = markets[call[t].market].count + 1)]_vars

\* market.js:143 tells a refused page "Only one stream allowed per trader":
\* its trader then has a stream already.
RefusedMeansSecondStream ==
  [][\A t \in Traders :
       source[t] # "refused" /\ source'[t] = "refused" =>
         \E m \in DOMAIN markets : t \in markets[m].streams]_vars
=============================================================================
