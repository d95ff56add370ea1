---------------------------- MODULE MCMarketFeed ----------------------------
(***************************************************************************)
(* Three instances of the feed in one run, as scene says, so that their    *)
(* inputs are not multiplied.                                              *)
(*   "level"   two traders, one of them watching, three orders at one      *)
(*             price: two rest on one side, fills are partial or complete; *)
(*   "levels"  one trader, three orders at three prices and a table of two *)
(*             rows: levels come and go at either end and between others,  *)
(*             and a trade may be of orders of different prices, on a page *)
(*             that does not reconnect;                                    *)
(*   "limits"  two traders, two orders at two prices, with partial fills   *)
(*             at better prices than an order's limit.                     *)
(* Longs wrap at the ends of -8..7, and doubles are too short for each.    *)
(*                                                                         *)
(* MCMarketFeedDuplicate.cfg and MCMarketFeedPills.cfg have two orders at  *)
(* two prices.                                                             *)
(***************************************************************************)
EXTENDS MarketFeed

VARIABLE scene

svars == <<fvars, scene>>

MCPrices      == {1, 2}
MCThreePrices == {1, 2, 3}
MCQuantities  == {1, 2}

\* Doubles with a significand of two bits: 5 and 7 are ties, to even.
MCDouble(x) ==
  CASE x = 5 -> 4 [] x = -5 -> -4 [] x = 7 -> 8 [] x = -7 -> -8 [] OTHER -> x

\* What users do in each scene
InScene ==
  /\ scene = "level"  => \A id \in DOMAIN orders : orders[id].price = 1
  /\ scene = "levels" => /\ DOMAIN accounts \subseteq Watchers
                         /\ \A id \in DOMAIN orders : orders[id].quantity = 1
                         /\ \A w \in Watchers : page[w] # "retrying"
  /\ scene = "limits" => orderCount <= 2 /\ \A id \in DOMAIN orders : orders[id].price < 3

SceneInit == FeedInit /\ scene \in {"level", "levels", "limits"}
SceneNext == FeedNext /\ UNCHANGED scene /\ InScene'
SceneSpec == SceneInit /\ [][SceneNext]_svars
=============================================================================
