# Verification of tradesim

TLA+ specifications of tradesim, a trading simulator: markets with a
continuous double auction behind a FastCGI server, browser pages that follow a
market over a server-sent event stream, and the library cppevent under it. The
modules are translated
from the source under `src/`; every modelled definition is listed with its
lines in `PROJECT.json` ("map").

Run a check with `tlc -config MCMarket.cfg MCMarket.tla`, and the proofs with
`tlapm MarketProofs.tla`.

## 1. The system

One process, one thread. `main.cpp` builds an event loop, an exchange and six
endpoints, and serves FastCGI on a Unix socket, behind a web server. All code
runs as coroutines that the loop resumes; code between two `co_await`s is not
interrupted.

| Component | State | Operations | Interacts with |
|---|---|---|---|
| **market** (`market.cpp`, `market_types.cpp`) | accounts, price points, last trade, orders, the two books, each trader's order ids, order counter | `register_account`, `subscribe`, `place_bid`, `place_ask`, `cancel_order`, the matching loop | broadcasts a message for each change |
| **broadcast** (`broadcast.cpp`) | one stream per subscribed trader | `subscribe`, `unsubscribe`, `send_msg` | pushes into each stream's `async_queue` |
| **exchange**, **endpoints** (`exchange.cpp`, `*_endpoint.cpp`) | market id to market | create, join, stream, order, cancel | one call of a market per request, then an answer |
| **pages** (`index.js`, `market.js`) | levels, pills, account, last price; an `EventSource` | buttons, event listeners | requests, and the stream |
| **event loop** (`event_loop.cpp`, `event_bus.cpp`, `event_callback.cpp`, `status_awaiter.cpp`, `async_queue.hpp`, `async_signal.cpp`) | events, trigger flag, event descriptor, callbacks and their stored status | `add_event`, the internal loop, `notify_events`, `push`, `await_items` | resumes coroutines |
| **io_uring service**, **sockets**, **byte buffer** (`socket.cpp`, `byte_buffer.hpp`) | listeners; a ring buffer each way | `on_read`..., `read`, `skip`, `write`, `flush` | completions become events |
| **FastCGI** (`fcgi_server.cpp`, `fcgi_handler.cpp`, `stream.cpp`, `output_control.cpp`, `record.cpp`) | requests of a connection; output records; handles of suspended coroutines | read records, hand the socket to a request, write records, tear down | endpoints read `stream`s and write `output`s |
| **router**, **context** | a tree of segments | `insert`, `process` | picks the endpoint of a request |
| **PostgreSQL client**, **crypto** (`pg_connection.cpp`, `pg_database.cpp`, `scram.cpp`, `encoding.cpp`) | connections, pool, waiters | login, `query`, `prepare_query`, `execute`, `get_connection`, `release` | sockets, and the loop to wake waiters; part of the library, and not used by the server |

What is hard in it, and what makes each part correct:

* *Market.* One order is named by four containers and counted in an aggregate,
  and a partial fill, a complete fill and a cancellation each touch a different
  subset. Correct: the containers agree, the aggregates are the sums of the
  open orders, trades follow price-time priority at the resting price, nothing
  is created by trading, the loop ends. Sums are `long`s fed by clients.
* *Stream.* A subscriber gets a snapshot and then deltas through a queue, over
  a connection that may break and that the browser re-establishes without
  clearing the page. Correct: a page that kept its connection shows, to the
  precision of its numbers, the book, the last trade, the account and what is
  left of each own order; one that reconnected misses nothing; a trader with one
  page is not refused.
* *Restarts.* Markets live in memory only, pages outlive the server, order ids
  start again. Correct: old pages do no harm and are told the truth.
* *Wakeups.* A push adds an event only when the queue was empty, the loop
  writes its descriptor only when its flag is clear, and callbacks may be gone
  or busy when their event comes. Correct: no wakeup is lost, no sleeper has a
  stale status, every ended connection is torn down.
* *FastCGI.* `read_req` and the coroutine of each request read one socket in
  turns and hand it over through two stored handles; all requests write through
  one writer; an id may begin anew; the end of the connection may come at any
  point. Correct: never two readers, every byte is read as what it is, each
  handle is used once, each answer is complete and in order, the connection is
  torn down.
* *Bytes.* Rings that wrap, partial sends and receives, a length of 16 bits, a
  write that fills its ring in the middle of a number. Correct: what was
  written arrives once, in order, and is parsed as the records that were given
  to the writer.
* *PostgreSQL.* A login of several messages, notices between any two, errors
  that make the server skip, a portal that stays suspended; a pool that checks
  its limit before an await and wakes waiters through the loop. Correct: the
  right password is accepted, a connection that is ready owes nothing, results
  belong to their statements, waiters are served.

All hazards, with the lines where they bite and the properties that cover
them, are in `PROJECT.json` ("hazards").

## 2. Modules

| Module | Models | Kind |
|---|---|---|
| `Market` | one market | detailed specification |
| `Settlement` | what an order takes from the others, in price-time priority | operators |
| `PriceTime` | what a market promises | abstract specification over `Settlement` |
| `MarketRefinement` | the mapping between the two | refinement |
| `Ladder` | one side of the page's table of prices | operators |
| `MarketFeed` | a market, its broadcasts, and the pages | composition over `Market` and `Ladder` |
| `Exchange` | several markets, endpoints, tabs, restarts | detailed specification |
| `EventQueue` | queue, loop, event descriptor, signals | detailed specification |
| `Router` | the route tree, against what a list of routes means | operators |
| `FcgiConnection` | one FastCGI connection and the coroutines on it | detailed specification over `Router` |
| `ByteBuffer` | the ring of a socket | operators |
| `Socket` | two sockets and one direction between them | detailed specification over `ByteBuffer` |
| `RecordLink` | FastCGI records over that direction, and their parser | composition over `Socket` |
| `Base64`, `Decimal`, `Scram`, `PgValues` | encodings, the client's side of SCRAM, parameters and rows | operators |
| `PgConnection` | a PostgreSQL connection and its server | detailed specification over those |
| `PgDatabase` | the pool | detailed specification |
| `FoldProofs` | induction on finite sets, and folds over sequences | lemmas |
| `MarketProofs` | theorems about `Market`: the book, its totals, and that it implements `PriceTime` | proofs |
| `MarketFeedProofs` | theorems about `Ladder` and `MarketFeed`: what a page shows | proofs |
| `ExchangeProofs`, `EventQueueProofs`, `FcgiConnectionProofs` | theorems about the module of the name | proofs |
| `RecordLinkProofs` | theorems about `ByteBuffer`, `Socket` and `RecordLink` | proofs |
| `PostgresProofs` | theorems about `PgConnection` and `PgDatabase` | proofs |
| `MC...` | instances | for TLC |

A definition whose name ends in `_Fault` is a plausible bug of the definition
that it is named for: a dropped guard, a missing erase, a wrong sign. No
specification uses one. Each property has one that breaks it (`PROJECT.json`,
"mutants"), which shows that the property can fail and that the bounds are
large enough to see it.

### Market

Every variable is a member of `class market` and has its name; `matching` is
not data but the program counter of the one thread while it is inside
`execute_trades`. A handler is one step up to that loop, then one step per
iteration, then `EndMatching`; all other actions wait for `~matching`, since
no handler awaits. The iterations are separate steps so that what the loop
maintains, and that it ends, can be stated.

`m_bids` and `m_asks` are functions from price to a non-empty set of ids;
`begin()` of the sorted containers is the best price and the smallest id
(`BookFront`). An entry that `operator[]` creates in `m_trader_orders` and an absent
one read the same, so the variable is total. `place_*` of an unknown trader,
and `cancel_order` of an unknown or a foreign id, return early without a
change, and so are no steps of this module; their answers are in `Exchange`.

Sums and products are `Long`s that wrap at `LongMax`. Overflow of a signed
integer is undefined in C++; the model takes the outcome that the build gives,
an add or multiply instruction that wraps. With a wrapped total of zero a
price point is erased while orders rest there: `DepthIsBook` says exactly when.

### MarketFeed

Each market action is joined with the messages its handler sends, in order,
with the values at the time of sending; `Push` is `send_msg` for one stream and
`Send` the messages of a handler. The page's listeners are `Show`. A
subscription's queue, its output and its connection are one FIFO per
`Watcher`. `link` is the server's side of a stream and `page` the browser's:
they disagree between the loss of a connection and the moment the server reads
it, which is when a reconnecting page is refused.

The page keeps each side of the book as a map of sizes, an array of prices that
a binary search keeps sorted, and the rows of the table; `Ladder` has all
three and the four functions that change them. `IsLadder` is what a side should
be, written without them. The table has 13 rows in the code and `Rows` in the
model, so that the bounds can pass it.

A snapshot lists price points and orders out of hash tables; messages on
different prices and orders commute, so one order stands for all.

A pill has the side, the price and the remaining quantity of the message that
made its text (`Pill`, `getOrderPillText`). `orderExecuted` carries the price of
the trade (`market.cpp:57`) where all other messages about an order carry the
order's, so after a partial fill at a better price the pill shows that price.
So the properties of the page claim of an order its side, what is left of it,
and a price that is not beyond its limit (`Suits`); that the price is the
order's is `PillsAsPlaced`, which the code violates (section 4).

`Double` is what `JSON.parse` makes of a `long`: a constant, of which
`DoubleAssumption` says only that it keeps the order and the zero, so that
rounding makes no level vanish or change its place, and that it keeps prices,
which a page has parsed before it sends them. Sums and profits may be beyond
2^53, and the page shows them rounded (`Shown`).

### Exchange

A tab sends one request at a time and waits. A trader id joins at most once,
since `index.js` draws a random one for each join. What a market does with an
order is left to `Market`: after an order is placed, any set of open orders
may have been closed. `shown` is every order the tab ever had a pill for,
because a click may meet the message that removes the pill. `Restart` empties
the exchange and either fails or keeps what was under way. `epoch` counts
restarts and exists for the properties only; it is in pills, tabs and answers
as a mark of when they were made.

### EventQueue

One queue per subscription, and one signal per connection. `events` is
`m_events`, `batch` what `notify_events` has moved out, `counter` the kernel's
count of the event descriptor, and `loop` where the internal loop is. Items
are counted and not named, since the consumer always takes all of them in
order. `status` is whether the callback holds a status nobody has consumed.
Handlers run only while the loop polls: nothing that `notify_events` resumes
pushes to a queue.

### FcgiConnection and Router

All coroutines of a connection run on one thread, and one resumes another by a
call. `stack` is that nest of calls: an action is what the innermost coroutine
does up to its next branch or suspension, and only with an empty stack does
the loop deliver a completion. `reader` is `read_req`, `request[i]` the
coroutine of request `i` with the endpoint that it calls, `writer` the loop of
`output_control`. `m_consumer`, `m_producer` and `m_out_records` hold the
handles by which one resumes another. `io` says whether a coroutine waits in the
socket's read listener. `SendBegin`, `SendContent`, `SendOther` and `Close` are
the web server: it begins an id before it uses it, uses it again when it has
its END_REQUEST, and may close or die at any point, with what was under way
lost. `replies` is what it has been sent.

Content is counted, and each unit on the wire says what it was sent as, so
that `Aligned` can say it is read as that. A request's form is chosen where
its headers end (`Dispatch`); `Router` then has the tree, as the set of
its paths, and `Routed` compares the lookup with the list of routes.

An exception in a request is kept by a promise that nobody asks, and a request
that streams never reads its input again. If `read_req` has handed content to
such a request it waits for ever, and does not see the end of the connection:
`Stuck` names this state, in which the code leaks the connection. `TornDown`
exempts it, and nothing else. `Answered` exempts it, requests that have failed or
that stream, and a connection that is closed, which nobody answers.

### ByteBuffer, Socket and RecordLink

`ByteBuffer` keeps the two positions and the places of the ring as the code
does; `PlaceOf` walks the two chunks of a read or a write, and `Contents` is
the sequence that the ring stands for. `Socket` is one writer and one reader
with the kernel between them, which takes and gives any number of bytes and
may be reset (`Break`). `write` and `flush` are one step up to each send,
`read`, `read_c` and `skip` one step up to each receive. The writes that fill
only a part of the ring and those that end at its edge are the same loop.

`RecordLink` writes what `begin_res_task` writes: header, content, padding,
flush. A byte of a 16-bit number has `Base` values, so an output whose length
the header cannot hold has `Base * Base` bytes in the model. The reserved byte
is not initialised by the code (`record.cpp`), so it is any byte. The peer
(`Eat`) takes the bytes apart as the FastCGI specification says and not as
`record::parse` of the other direction would have it; `ParseHeader` is
`record::parse` and serves both.

### PgConnection, PgDatabase

`PgConnection` handles one message per action. The server is modelled as the
client relies on it: it answers a login with any method, a query with the
results of any of `Scripts`, and the messages of the extended protocol one by
one, failing where it likes and then skipping up to a Sync; a notice may come
between any two messages, and the server may die. `unsent` is `m_out_buffer`:
`prepare_query` does not flush, so what it leaves there is any end of its
messages (`Write`). A write or a flush throws only on a connection that is gone
(`SendFails`): any beginning of what was to be sent is sent, what was written
beyond it stays in the buffer, and `m_query_ready`, which `query` and
`prepare_query` reset last, stays as it was. A caller may catch that and go on
(`MayQuery`); then it fails again, since the server is gone. `query` and `execute`
do not await `populate_result`, so a row whose body has not yet come is misread
(`Misread`), as is a ParameterStatus, of which they take the header only; from
there on the bytes have no meaning, and the model stops. `RowsTakenWhole` says
that this does not happen, and the code violates it.

`Found` is the substring search of `handle_auth` (`pg_connection.cpp:113`), which
`SCRAM-SHA-256-PLUS` alone satisfies: the client answers it with SCRAM-SHA-256,
and the server, which did not offer that, refuses (method `plus`). Offers in
which SCRAM is not found are method `oauth`.

A digest is a record of what went into it, so two are equal only if their
inputs are. `base64_encode` and `base64_decode` work on bits, and a SCRAM login
with salts of each padding goes through them. Values of `PgValues` are stored
as the code stores them, with a length of -1 for none. A row is read into
optional variables of the caller, either fresh ones or those of an earlier row
(`PrepareQuery` chooses). Where the row has no value, `GetRow` leaves the variable
as it was (`pg_result.hpp:81`): a fresh one stays empty, as
`pg_result_test.cpp:37` expects, and one of an earlier row keeps a value that is
not of this row. `RowsKept` says so.

`PgDatabase` has the pool's queue, its idle connections as a number, and the
count that constructors and destructors keep. A move into a new or an empty
variable, as in `get_connection` and `release`, leaves one connection and its
count. A move assignment over a live connection (`Overwrite`,
`pg_connection.cpp:61`) closes its socket and does not take it off the count;
`overwritten` counts these, for the properties. `Woken` is the event that wakes
a waiter: it takes the front of the idle list without looking. If another
caller took it before (`overtaken`) that is undefined behaviour (`"undefined"`),
after which nothing is said.

## 3. Runs

| Run | Bounds | Distinct states | Shows |
|---|---|---|---|
| `market_book` | 2 traders, prices 1..2, quantities 1..2, 4 orders, `LongMax` 3 | 120,072 | `TypeOK`, `BookIntegrity`, `OnlyNewestCrosses`, `DepthIsBook`, `ZeroSum`, `LimitsRespected`, `MatchingEnds`, `PriceTimePriority` |
| `market_feed` | three scenes of 1 watcher and 2 rows: 2 traders, 1 price, 3 orders; 1 trader who trades with itself, 3 prices, 3 orders of 1 unit; 2 traders, 2 prices, 2 orders | 636,420 | `FeedTypeOK`, `FreshPageExact`, `RejoinedPageCovers` |
| `event_queue` | 2 queues, 2 items, 4 events between two turns | 38,765 | `TypeOK`, `NoLostWakeup`, `SleepsWithoutStatus`, `ItemsTaken`, `TornDown` |
| `exchange` | 2 markets, 2 traders, 2 orders, 1 restart | 1,291,082 | `TypeOK`, `AccountKept`, `CancelsShownOrder` |
| `fcgi` | 2 ids, 6 records of up to 2 units, 3 units on the wire, the routes of `main.cpp`, 7 forms | 579,490 | `TypeOK`, `OneReader`, `Aligned`, `HandlesLive`, `RepliesInOrder`, `Routed`, `TornDown`, `Answered` |
| `record_link` | rings of 3 places, 2 bytes in the kernel, 2 outputs of 3 kinds | 179,263 | `BuffersOK`, `NeverEmptyCall`, `InOrder`, `Framed`, `Delivered` |
| `postgres` | 7 methods, 2 passwords, 3 salts, 5 scripts, 4 operations, 1 notice; 4 callers, 2 connections | 534,936 | `LoggedIn`, `InStep`, `ResultsMatch`, `RowsKept`, `CountExact`, `IdleForWoken`, `Served` |
| `market_feed_duplicate`, `market_feed_pills`, `exchange_placed`, `exchange_refused`, `postgres_rows` | small | violated | section 4 |

Why the bounds are enough. In `market_book` four orders of quantity 2 at one
price add up to 8, the width of the model's `long`, so a total wraps to zero;
one trade of two units at price 2 already passes `LongMax`. An incoming order
of two units meets one or two resting ones, on one level and on two, and fills
none, part or all of each: that is every decision the loop takes. One watcher
suffices since streams do not influence each other. The scenes of
`MCMarketFeed` restrict what users do, and not the market or the page: one level
with partial fills, many levels on a page that does not reconnect, and orders that
trade in part at better prices than their limits. A `long` ends at 7, and a double
has two significant bits, so that 5 and 7 are rounded. Three levels are one more
than the rows, and the least in which an insertion can go before, between and
after. With two queues one waits while the other one's connection ends; two
items tell the push to an empty queue from the push to another; four events
leave room for both callbacks of both queues, and a model with fewer stops
early. One restart gives orders of two epochs, and two tabs the old owner and
the new.

In `fcgi` the least request has four records, so six let two requests overlap
and an id begin anew. A record of two units is read at once or in two pieces,
and a header of PARAMS lies in one record or in two. The ring of `record_link`
is smaller than a header, so every output wraps it and waits for sends at each
offset, and one of the outputs is too long for its length field. In `postgres`
four operations are a prepared statement that is suspended and executed twice
with a query after it, two prepared statements with one execution each, whose
rows go to the same variables, or four queries; with four callers and two connections,
two wait, and one that released its connection comes back and overtakes.

`PriceTimePriority` is `Promised!Spec`. The abstract exchange settles an order
in the step that places it; while the loop runs, the mapping shows the outcome
that is still to be reached. So each iteration must leave the outcome alone,
and the loop must not end early.

`MCPostgres` runs either the connection or the pool, as `mode` says, so that
one run checks both and does not multiply their states; `scene` of `MCMarketFeed`
is the same.

`CHECK_DEADLOCK FALSE` is set in the configurations of `Exchange` only: when every tab has
failed to join, or has used up the bound, nothing need happen. The other
specifications say where they may rest: `Idle` of `EventQueue`, and `Rest` of
`FcgiConnection` (the connection is gone, or stuck), of `RecordLink` (shut or
reset) and of `MCPostgres` (a connection that ended or is the caller's; a pool
where all wait, which the loss of connections leads to, or after undefined
behaviour). So in `postgres` TLC also shows that client and server never wait
for each other.

### Fairness

* `Market`: weak fairness of `ExecuteTrade \/ EndMatching`. The loop is code
  of one thread without an await; once entered, the thread goes on.
* `EventQueue`: weak fairness of `CompleteRead` (a read of a readable
  descriptor completes), `WakeLoop`, `Notify` and `RearmRead` (`run` polls for
  ever, and `notify_events` is a plain loop). Nothing is assumed of traders,
  of handlers, or of the writes to a client: a client that never reads keeps
  its stream "writing", and `ItemsTaken` is about consumers that wait.
* `FcgiConnection`: weak fairness of `Run` (the thread), `ReaderRecv` and
  `RequestRecv` (a receive completes when its bytes or the end have come),
  `Sent` (a write completes or fails) and `Teardown` (the signal's event is
  delivered, which `EventQueue` shows). Nothing is assumed of what the web
  server sends. `Answered` assumes with `Sent` that it reads what it is sent.
* `Socket`: weak fairness of sends and receives that can complete, and of a
  reader that reads. Nothing ends a connection by fairness.
* `PgDatabase`: weak fairness of the loop's events and, for each caller, of
  getting on with its connection: a caller that keeps one for ever starves the
  others in the code as well.

The other specifications are used for safety only.

## 4. Where the code disagrees with what it says

1. *A lone page is told it is a duplicate* (`market_feed_duplicate`). The
   connection breaks, the event source reconnects, and the server has not yet
   read the end of the old connection. The subscription is refused
   (`stream_endpoint.cpp:47`), the page shows "Only one stream allowed per
   trader" (`market.js:143`) and closes its event source for good.
2. *"Order Placed" for an order nobody holds* (`exchange_placed`).
   `place_order` reports only whether the market exists (`exchange.cpp:31-40`);
   for an unknown trader the market returns silently. A page from before a
   restart gets there when another user creates the market again.
3. *"Only one stream" where there is none* (`exchange_refused`). Every failed
   subscription, also to an unknown market, is sent as "duplicate"
   (`stream_endpoint.cpp:48`), so each page that reconnects after a restart
   says so.
4. *A pill with a price at which the order does not stand*
   (`market_feed_pills`). A fill sends the price of the trade under the name that
   is the order's price in all other messages (`market.cpp:57`, 121), and the
   page writes it on the pill, where `market.html:29` has "Bid 25 @ 100". The
   same page shows the order's price again after a reload.
5. *Rows that come late* (`postgres_rows`). `populate_result` is not awaited
   (`pg_connection.cpp:285`, 366). The library's example reads the rows of its
   query as if they were always there (`examples/pg_app/main.cpp:29-33`).

## 5. Theorems

The proofs hold for every value of the constants that satisfies the
assumptions: `MarketAssumption` (`LongMax` positive; prices and quantities in
`1..LongMax`, which the order endpoint ensures, `order_endpoint.cpp:46`),
`FeedAssumption` (watchers are traders, and the word for all of them is none of
their ids), `DoubleAssumption` (section 2), `RowsAssumption` (the table has a
row), `QueueAssumption` (the bounds are natural numbers), `BufferSize` (a ring has a
place), `SocketAssumption` and `LinkAssumption` (bytes and sizes are natural
numbers, the kernel holds at least one byte, and the id of an output has 16
bits, as `record.hpp:35` has it), `PoolAssumption` (a positive
maximum, finitely many callers), `ExchangeAssumption` (`None` is no
answer, bounds are natural numbers), `FcgiAssumption` (there is an id, no id is
the name of `read_req` or of the writer, bounds and the lengths of the forms
are natural numbers), `RoutesAssumption` (routes have patterns, which can all be
inserted since `router.cpp:32` throws otherwise, and leave no choice: where one
has a literal no other has a variable, and the variables of one route differ;
`main.cpp:29` to `34` are such) and
`PgAssumption` (servers ask for a method, and answer a statement with an
outcome, that the model has; salts are bytes, counts of iterations are natural
numbers, and parameters have types that `pg_conv.hpp` knows). `NothingCreated` takes the traders to be finite
in number as an invariant: accounts are added one by one.

| Theorem | States |
|---|---|
| `TypeCorrect` | `Spec => []TypeOK` of `Market` |
| `BookAgrees` | `Spec => []BookIntegrity` |
| `NeverCrossed` | `Spec => []OnlyNewestCrosses` |
| `LimitsKept` | `Spec => LimitsRespected` |
| `DepthExact` | `Spec => []DepthIsBook` |
| `NothingCreated` | `Spec => []ZeroSum` |
| `KeepsPriority` | `Spec => PriceTimePriority` |
| `FeedTypeCorrect` | `FeedSpec => []FeedTypeOK` |
| `PageExact` | `FeedSpec => []FreshPageExact` |
| `PageCovers` | `FeedSpec => []RejoinedPageCovers` |
| `TypeCorrect`, `AccountAlwaysKept`, `CancelsWhatWasShown` | `[]TypeOK`, `[]AccountKept` and `CancelsShownOrder` of `Exchange` |
| `QueueTypeCorrect` | `Spec => []TypeOK` of `EventQueue` |
| `WakeupKept` | `Spec => []NoLostWakeup` |
| `StatusConsumed` | `Spec => []SleepsWithoutStatus` |
| `TypeCorrect`, `OneReads`, `ReadsAligned` | `[]TypeOK`, `[]OneReader` and `[]Aligned` of `FcgiConnection` |
| `HandlesAlwaysLive`, `AnswersInOrder` | `[]HandlesLive` and `[]RepliesInOrder` of `FcgiConnection` |
| `FindsItsRoute` | `Spec => []Routed` of `FcgiConnection` |
| `RingsKept`, `RecordRingsKept` | `[]BuffersOK` of `SocketSpec`, and of `LinkSpec` |
| `CallsHaveRoom`, `RecordCallsHaveRoom` | `[]NeverEmptyCall` of both |
| `BytesInOrder`, `RecordBytesInOrder` | `[]InOrder` of both |
| `OutputsFramed` | `LinkSpec => []Framed` |
| `CountKept` | `PoolSpec => []CountExact` |
| `IdleKept` | `PoolSpec => []IdleForWoken` |
| `ReadyOwesNothing` | `PgSpec => []InStep` |
| `ResultsAreWhatRan` | `PgSpec => []ResultsMatch` |
| `RowsComeBack` | `PgSpec => []RowsKept` |
| `LogsIn` | `PgSpec => []LoggedIn` |

*Market.* `TypeOK` is inductive by itself; the lemmas say what `Put`, `Drop`,
`InsertId`, `EraseId` and `AddDepth` do to a typed map, and `LongInRange` that
`Long` stays in the type. `BookInv` is `TypeOK /\ BookIntegrity`: type
correctness alone does not say that the ids which `ExecuteTrade` finds on the
front levels are open orders of that side and price. The integrity proof
separates what all shrinking steps share (`ShrinkIntegrity`: some orders go,
and each goes from its level and its list) from the step that adds an order.
`NeverCrossed` needs `BookInv` to turn the loop's exit, a comparison of the
levels, into a statement about orders. `LimitsKept` follows from the same two
invariants: the orders at the front cross, so one of them is the newest, and
the trade is at the price of the other.

*Totals of the market.* Both are sums over sets whose size the code does not
bound, so their proofs are by induction on finite sets: `SubsetInduction` of
`FoldProofs` derives it from the library's theorem that the strict subsets of a finite set
are well founded, since a smallest subset outside a set that is closed upwards
cannot exist. From it come the recursion that the folds of the community
modules are defined by (`RecExists`, `RecUnique`), that any element may be taken
off a sum first (`SumRemove`), and that a sum changes by what one summand
changes (`LongAdd`, with `ModAdd` for the arithmetic of a wrapped `long`).
`DepthStep` has a lemma for each handler: an order that rests adds its quantity
to one price point, a fill takes the same from the order and from its point,
and a point of total zero is erased because the sum at its price, wrapped, is
zero. `NothingCreated` splits the positions of `ExecuteTrade` into their two sides, the same
account or two, whose changes cancel (`ConfirmMoves`).

*The refinement of the market.* While the loop runs, the abstract state is the
outcome that the rest of the loop has to reach, so the proof is that one
iteration leaves that outcome alone (`IterationKeeps`). `TradesTakes` says which
two orders an iteration trades: by `BookIntegrity` the front of each book is
the first order of its side in price and age, by `OnlyNewestCrosses` one of the
two is the newest order, so the other is the first of those that it meets.
`Takes` names this relation of the orders before and after, and from there on
the proof is about `Settlement` alone. `TradeFills`: the trade is the fill of
the first order, and the other fills are the same after it, or the newest order
is used up and they are zero. So the sums over the fills lose one summand
(`SumSplit`), which is what the trade took from the orders (`TradeLeft`) and gave
to the positions (`TradeDealt`, where `LongThrice` collects the wraps of the
two sides and of the sum); the last fill is a later one or the trade itself
(`TradeLast`, which needs by `OneIsLast` that a finite set of resting orders has
a last one). At the end of the loop no order is met and the outcome is the
state (`NothingLeft`). The `Same...` lemmas identify the operators that the
instance of `PriceTime` has under `Promised!` with those of `Settlement`.

*The page.* Both page invariants speak of `Replayed(w)`, what the page will show
once it has handled all that is under way, and neither is inductive. `FeedInv` is
`FeedTypeOK /\ BookIntegrity` and for each watcher `PageInv`: `Covers` (levels,
price and account are those of the market in doubles, and each open order has a
pill of at least its quantity), for a page that never lost its connection
`Mirrors` too (nothing else is shown), and `Patient`. The last is about what is
shown now and about each message under way: no pill says less than is left of its
order or, of an open one, another side or a price beyond its limit (`Honest`), and
none is of an order to come. A fill keeps the last, as the
two orders at the front cross, so that the price of the trade is within the limits
of both. Without `Patient` a connection that breaks between two messages
could leave a pill that the snapshot of the next one, which does not touch an
existing pill, would never raise; with it any prefix of the stream may be
handled before the break (`PrefixPatient`).

The proof has three layers. `FindsIndex` says that the bisection of `market.js`
finds the place of a price in a sorted array, by strong induction on the length
of the range (the equation that a recursive function satisfies is derived first,
`BisectsExists`); `InsertSorted`, `RemoveSorted` and `UpdateLadder` say that an
update changes one level and leaves a ladder. Then the two folds: of the messages of a handler over
the streams, and of what is under way over the view. `ReplayThrough` says that
what is sent behind a stream is replayed on top of what the stream makes of the
view; `Leaves` carries that through the messages of one handler, one by one. Then
`PlaceKeeps`, `CancelKeeps` and `ExecuteKeeps`, where `Tracks` says that the page
followed the market wherever either changed. The hard case is a trade: both
orders may be at one price, of one trader and even the page's own, so that the
second of two messages on the same account or point has to undo the first, and
a self-trade's intermediate totals are never shown. `SnapshotReplayed` is the
snapshot on top of whatever the page kept: every live price and order is
overwritten or already there, in any order of the hash tables.

*Folds.* Six of the properties are about what a fold makes of a sequence of any
length: the page of its messages, a handler's messages of its streams, the
client of the answers to a script, the decoder of
its letters, the router of its segments, the peer of its bytes. `FoldLeft` is a
recursion over sets of positions, and a lemma cannot take its operator as a
parameter. So `FoldProofs` describes a fold by the table of its operator
(`Follows`): the recursion has a solution if the table does not leave its set
(`TableSolved`), two solutions agree as far as their sequences do
(`FollowsAgree`), and one element more is one step more (`TableAppends`). Each
fold then has three lemmas of its own, such as `EatenFollows`, `EatenAppend` and
`EatenEmpty`.

*Exchange.* `ExchangeInv` relates each tab to its request, its answer and the
markets. Its third part is the one that matters: an account of the present
server belongs to a tab whose "joined" of this epoch is on its way, or that
has taken it. With it an order that a tab remembers from before a restart
meets no account of that tab, so `cancel_order` refuses it; that is
`CancelsShownOrder`.

*FcgiConnection.* `FcgiInv` has six parts besides the types, since no property
is inductive without the others. `Nested` says who is in the nest of resume
calls and what those below the running one do; `Shared` that content is with a
request only while `read_req` stands by, and whose the handles of a stream
are; `Parsed` that the wire goes on from where the reader is, unit for unit;
`Queued` that the output queue is the requests that wait for a write; `Fresh`
that one begin of an id is under way at a time and meets a request that has
written its last record; `Answering` how far each answer has come, in terms of
what the request does next. Each part has a lemma for each group of actions.
`OneReader` and the handles follow from `Nested`, `Shared` and `Queued`,
`Aligned` from `Parsed`, `RepliesInOrder` is in `Answering`.

*Routes.* `Routed` is about every list of routes that `RoutesAssumption` allows,
and paths of any length. `Grown` says what the tree knows of the first routes of the
list: its nodes are theirs, a variable has the name that each of them gives it,
an endpoint is of the last route with that leaf and method (`GrownMore`,
`TreeGrown`). `Walked` says of a walk down the tree that it is, after each
segment, at the node of all routes which the path fits so far, with their
variables bound, or at no node if none fits. A step keeps it because the routes that share a
beginning go on in one way (`OneKind`): without that assumption a literal would
hide the variable of another route, and the property is false. `FindsRoute`
compares the end of the walk with the list.

*EventQueue.* `NoLostWakeup` is not inductive. `Inv` adds `FlagInv`, which
ties the flag to the descriptor and the loop: the flag is set exactly while
the counter is one or the read has completed, and an event waits only while it
is set. Then `WakeLoop` finds an empty batch, no event is dropped, and a
waiting event always has a turn of the loop ahead. `PendingInv` is the first
half of the property; each action has a lemma.

*Buffers and sockets.* The first part of `RecordLinkProofs` shows that a ring is a bounded sequence,
for any size: `PeekIs`, `IncrementReadIs` and `FillIs` say what reading,
taking off and writing do to `Contents`, and that they keep `IsRing`. They
rest on `PlaceOfIs` (the two chunks follow the ring), `FreeDistinct` and
`FreeUnread` (the places that a write fills are different from one another and
from those with unread bytes). `BUFFER_SIZE` is a constant in the arithmetic,
so the lemmas first split `%` and `\div` at one and two rounds. `Inv`, of the
sockets, then adds to the types what a coroutine sleeps over: a write
waits only beside a full ring, a flush beside one that is not empty, a read
beside an empty one. Without this `NeverEmptyCall` is not inductive. `Order` is
`InOrder` with the lost bytes of a reset named, which is needed since a write
after the reset still fills its ring. Records are sequences of bytes, so every
step of `LinkSpec` is one of the sockets.

*Records.* `Framed` is about the bytes that the peer has read, which stop
anywhere, so it is not inductive. `FrameInv` is about `Given`: what has entered
the ring, what the write that waits still holds, and the parts of the record
that are still to be written. Only `Output` changes it (`FrameKept`,
`FrameWritePart`, `FrameSent`). The peer that eats all of it has the outputs up
to the first that is too long, and stands between two records if none is
(`Parses`). `HeaderRead` says that the peer reads the numbers which
`Serialize` lays out; `HeaderEaten`, `ContentEaten` and `PaddingEaten` go
through one record, with the cases that have no content or no padding, where
the record is complete one part earlier; `FrameEaten` joins them. What is taken
apart only grows with more bytes (`EatenGrows`), and what was read begins what
was given (`GotBegins`), which gives `Framed`.

*Pool.* `CountExact` needs that a caller is in one place only (`Queued`: those
in the queue and in the events are the ones that wait, each once); the
cardinality of `Holding` then changes by the one caller of a step, which for a
move assignment becomes one more in `overwritten`.
`IdleForWoken` is inductive with the types.

*The connection to PostgreSQL.* `InStep` is about `m_query_ready` only, and says
nothing of the states between. `PgInv` says what each side may have sent where
the client is (`Paced`): of what the client has sent, a message that it waits
for the answer of is the last; and a message of the server that ends its turn,
ReadyForQuery or a demand of a login, stands only where the client has been
answered everything, with nothing after it but notices. `ServerSays` and
`Sends` are the two halves, each used by every action of its side;
`ReplyFollows` shows, of the fold that makes the answer of
a simple query, that ReadyForQuery comes once and last in it. Once a write
of a caller has thrown, none of that need hold: half a message may be out and the
connection still ready. Then `Lost` holds and stays (`LostStays`): the server is gone and
what is left to read answers nothing. So each invariant of a connection is of the form
"`PgInv` and more, or `Lost`".

`ResultsMatch` compares the results with what the server executed once a query
reads its ReadyForQuery; a query that was misread never does (section 4). So
`QueryInv` says how far each side is before that. While the server has not
taken the query up there is one pending result and nothing on the wire reports
anything; afterwards the results that the client has closed are those of the
first `i` outcomes, and `Leads` says that the wire carries the reports of the
others in their order, whatever notices are between them. It counts outcomes
along the wire, so that reading a message and joining one at the end are one
lemma each (`LeadsTail`, `LeadsJoin`); `ReplyLeads` shows that an answer leads
from the first outcome to the last.

`RowsKept` has two parts. The lemmas about values say that what `Params` lays
out is read back by `GetRow`, type by type, into variables of the same types
(`RowRead`): what was stored, and where nothing was stored the variable as it was
(`Expected`). Several rows of one portal go to the same variables, which still
follow from those before the first (`Follow`). The one that is not immediate is the
decimal form of a number: `ToChars` is a recursive function on the naturals,
whose equation is derived first (`WritesExist`, `TextIs`), and `NaturalsKept`
is strong induction on the number, with `NumberAppend` for its last digit.
`RowsInv` then follows one Bind: until the server has taken it, it is in
`m_out_buffer` or under way, before the Execute that needs it (`BindsFirst`);
afterwards the server has its values, or skips to the Sync and returns no row
(`Bound`). So each row on the wire has the values of the portal that the
client reads. What has been read stays as it is when the connection is lost
(`KeepsInv`).

`LoggedIn` says that a connection which is not lost is never refused if the
password is right and `handle_auth` can carry the method out. `LoginInv` is
about what is under way while the client logs in: every message it has sent is
right (`Sent`), and none on the wire refuses it (`Told`). For SCRAM this
relates the state of the client to that which the server keeps: after its first
message the server has what the client will compute (`Challenged`), after the
client's last both have the same salted password and the same transcript
(`Agreed`), so that each accepts the proof of the other. `Paced` is what makes
it inductive: a demand of the server stands alone, so nothing under way is of
an earlier state. The client takes the salt and the count of iterations out of
the server's text. For the count that is `NaturalsKept` again; for the salt it
is `RoundTrip`, base64 of any bytes. Both loops of `encoding.cpp` are folds;
`Sixes` and `Eights` are the arithmetic of their shifts, and `Codes` relates
the two: what has been encoded is decoded, up to one or two bytes that do not
fill a group yet. It is proved by induction on the bytes, and `OneDecoded` and
`TwoDecoded` finish the last group with its padding.

Every safety property that a passing run checks is proved. Model-checked only are the
liveness properties (`MatchingEnds`, `ItemsTaken`, both `TornDown`, `Answered`,
`Delivered`, `Served`), since they need fairness and `ENABLED`, which are out of
the prover's reach.

## 6. Not modelled

* Formatting and parsing of requests, JSON and HTTP headers, logs, layout. A
  request whose body cannot be parsed is one that fails.
* The size checks of identifiers, and `object_id` as bytes.
* The parameters of a query string (`context.cpp`): no endpoint reads them.
* The submission ring of io_uring: its 1024 entries are shared by all
  connections, and whether it is full depends on how many coroutines of all of
  them prepare a request between two submits.
* `accept`, address resolution and socket options: one call each, whose result
  is all that the models keep.
* The timer: only an example uses it, and it keeps no state.
* `event_loop::stop` and `add_op`, which the server never calls.
* Who owns a coroutine's frame, and when it is freed. Where the order matters
  (a connection's end, an id that begins anew, a temporary task) the models
  have the effect.
* The digests of OpenSSL.
* What follows undefined behaviour: after `"misread"` and `"undefined"` the
  models stop.
* A write that fails on a server that lives, which the kernel reports only for
  lack of memory, and a startup message that cannot be sent: `init` throws then,
  with nothing ready.
* Records for an id that was never begun (`requests.at` throws): a web server
  that follows FastCGI does not send them.
* Examples, tests and static pages.

With these exceptions every component is modelled; `PROJECT.json`
("components") says of each what is left out.

## 7. Naming

Definitions have the names of the source where there is one (`update_...`
becomes the verb of what it does). Replies and events are the strings that the
code sends. `MaxOrders`, `MaxItems`, `MaxEvents`, `MaxRestarts`, `MaxRecords`,
`MaxWire`, `MaxContent`, `MaxOutputs`, `MaxOperations` and `MaxAsync` are bounds
of the models and of nothing in the code; each one appears in a guard.
`LongMax`, `BUFFER_SIZE`, `Base`, `Rows` and `m_max_connections` are sizes that
the code has too, made small; `LinkSize` is the kernel's.

## 8. Plan

Done, in this order: (1) `Market` with its invariants and proofs, (2)
`PriceTime` and the refinement, (3) `MarketFeed`, (4) `EventQueue` with its
proofs, and `Exchange`, (5) `Router` and `FcgiConnection`, (6) `ByteBuffer`,
`Socket` and `RecordLink` with their proofs, (7) `Scram`, `PgConnection`, and
`PgDatabase` with its proofs, (8) `Ladder` under `MarketFeed`.

Then (9) the totals of `Market`, (10) `Exchange`, (11) all invariants of
`FcgiConnection`, with `Routed` last, (12) `InStep` of `PgConnection`, (13) the
refinement of `PriceTime`, (14) the invariants of `MarketFeed`, (15)
`ResultsMatch` of `PgConnection`, (16) `Framed` of `RecordLink`, (17) `RowsKept`
and `LoggedIn` of `PgConnection`.

Left: no safety property is without a proof; liveness is out of the prover's
reach.
