-------------------------- MODULE MarketRefinement --------------------------
(***************************************************************************)
(* The matching loop implements price-time priority.  The abstract market  *)
(* settles an order in the step that places it; while the loop is running, *)
(* the abstract state is the outcome that the loop still has to reach.     *)
(* Each iteration must therefore leave that outcome alone, and the loop    *)
(* may end only where nothing is left to settle.                           *)
(***************************************************************************)
EXTENDS Market, Settlement

\* The positions when the order being matched has taken all it can
SettledAccounts ==
  [t \in DOMAIN accounts |->
     [count |-> Long(accounts[t].count + DealtUnits(orders, orderCount, t)),
      pnl   |-> Long(accounts[t].pnl - DealtMoney(orders, orderCount, t))]]

Promised == INSTANCE PriceTime WITH
  positions <- IF matching THEN SettledAccounts ELSE accounts,
  book <- IF matching THEN SettledBook(orders, orderCount) ELSE orders,
  placed <- orderCount,
  last <- IF matching THEN SettledLast(orders, orderCount, lastTrade) ELSE lastTrade

\* Whatever the loop over the two books does, traders see an exchange that
\* executes each order at once, in price-time priority, at resting prices.
PriceTimePriority == Promised!Spec
=============================================================================
