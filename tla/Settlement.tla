----------------------------- MODULE Settlement -----------------------------
(***************************************************************************)
(* What a set of open orders comes to when one of them, order n, has taken *)
(* all it can from the others: price-time priority, as operators on        *)
(* functions from ids to orders.  There is no loop, no price level and no  *)
(* aggregate here.                                                         *)
(***************************************************************************)
EXTENDS Integers, FiniteSets, FiniteSetsExt

Direction(type) == IF type = "bid" THEN 1 ELSE -1

\* The resting orders that order n meets, and which of two goes first.
Meets(open, n) ==
  {m \in DOMAIN open \ {n} :
     /\ n \in DOMAIN open
     /\ open[m].type # open[n].type
     /\ Direction(open[n].type) * (open[n].price - open[m].price) >= 0}

Before(open, m, k) ==
  \/ Direction(open[m].type) * (open[m].price - open[k].price) > 0
  \/ open[m].price = open[k].price /\ m < k

Ahead(open, n, m) == {k \in Meets(open, n) : Before(open, k, m)}

Sizes(open) == [k \in DOMAIN open |-> open[k].quantity]

\* What order n takes from order m: what is left of n after the orders that
\* go before m, and no more than m has.
Taken(open, n, m) ==
  LET rest == open[n].quantity - SumFunctionOnSet(Sizes(open), Ahead(open, n, m))
  IN  IF rest <= 0 THEN 0
      ELSE IF rest <= open[m].quantity THEN rest ELSE open[m].quantity

Fills(open, n) == [m \in Meets(open, n) |-> Taken(open, n, m)]

\* What is left of order k
Left(open, n, k) ==
  CASE k \in Meets(open, n) -> open[k].quantity - Fills(open, n)[k]
    [] k = n               -> open[k].quantity - SumFunction(Fills(open, n))
    [] OTHER               -> open[k].quantity

SettledBook(open, n) ==
  [k \in {x \in DOMAIN open : Left(open, n, x) > 0} |->
     [open[k] EXCEPT !.quantity = Left(open, n, k)]]

\* The sum over the fills of a value of each, as trader t sees it: added
\* where t buys, subtracted where t sells.
Part(open, m, t) == IF open[m].trader = t THEN Direction(open[m].type) ELSE 0

Dealt(open, n, t, value) ==
  SumFunction([m \in Meets(open, n) |->
                 (Part(open, m, t) + Part(open, n, t)) * (value[m] * Fills(open, n)[m])])

DealtUnits(open, n, t) == Dealt(open, n, t, [m \in DOMAIN open |-> 1])
DealtMoney(open, n, t) == Dealt(open, n, t, [m \in DOMAIN open |-> open[m].price])

\* The last fill that is not empty
Final(open, n) ==
  {m \in Meets(open, n) :
     /\ Fills(open, n)[m] > 0
     /\ \A k \in Meets(open, n) : Before(open, m, k) => Fills(open, n)[k] = 0}

SettledLast(open, n, before) ==
  IF Final(open, n) = {} THEN before
  ELSE LET m == CHOOSE x \in Final(open, n) : TRUE
       IN  [price |-> open[m].price, quantity |-> Fills(open, n)[m]]
=============================================================================
