----------------------------- MODULE PriceTime ------------------------------
(***************************************************************************)
(* What a market promises its traders, without a loop, without price       *)
(* levels and without aggregates: orders, positions, and a rule that says  *)
(* in one step what placing an order does.  The rule is price-time         *)
(* priority: an incoming order takes from the resting orders it meets,     *)
(* best price first and oldest first at one price, each at the resting     *)
(* order's own price, until it or they are used up.                        *)
(***************************************************************************)
EXTENDS Settlement

CONSTANTS Traders, Prices, Quantities, LongMax, MaxOrders

VARIABLES positions,    \* registered trader -> units held and profit
          book,         \* id -> open order
          placed,       \* number of orders placed so far
          last          \* the last trade

promise == <<positions, book, placed, last>>

Wrap(x) == ((x + LongMax + 1) % (2 * LongMax + 2)) - (LongMax + 1)

SettledPositions(open, n, held) ==
  [t \in DOMAIN held |->
     [count |-> Wrap(held[t].count + DealtUnits(open, n, t)),
      pnl   |-> Wrap(held[t].pnl - DealtMoney(open, n, t))]]

-----------------------------------------------------------------------------
Init ==
  /\ positions = [t \in {} |-> t]
  /\ book = [i \in {} |-> i]
  /\ placed = 0
  /\ last = [price |-> 0, quantity |-> 0]

Join(trader) ==
  /\ trader \notin DOMAIN positions
  /\ positions' = [t \in DOMAIN positions \cup {trader} |->
                     IF t = trader THEN [count |-> 0, pnl |-> 0] ELSE positions[t]]
  /\ UNCHANGED <<book, placed, last>>

Place(trader, type, price, quantity) ==
  LET n == placed + 1
      open == [k \in DOMAIN book \cup {n} |->
                 IF k = n THEN [trader |-> trader, type |-> type,
                                price |-> price, quantity |-> quantity]
                          ELSE book[k]]
  IN
  /\ trader \in DOMAIN positions
  /\ placed < MaxOrders
  /\ placed' = n
  /\ book' = SettledBook(open, n)
  /\ positions' = SettledPositions(open, n, positions)
  /\ last' = SettledLast(open, n, last)

Cancel(id) ==
  /\ id \in DOMAIN book
  /\ book' = [k \in DOMAIN book \ {id} |-> book[k]]
  /\ UNCHANGED <<positions, placed, last>>

Next ==
  \/ \E t \in Traders : Join(t)
  \/ \E t \in Traders, type \in {"bid", "ask"}, p \in Prices, q \in Quantities :
       Place(t, type, p, q)
  \/ \E id \in DOMAIN book : Cancel(id)

Spec == Init /\ [][Next]_promise
=============================================================================
