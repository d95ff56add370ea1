------------------------------ MODULE MCMarket ------------------------------
(***************************************************************************)
(* An instance of the market for TLC: four orders in a long of -4..3.      *)
(* Four orders of quantity 2 at one price wrap its total to zero, a profit *)
(* passes both ends of the type, and an incoming order meets up to two     *)
(* resting ones, on one level or two, and takes all, part or none of each. *)
(***************************************************************************)
EXTENDS MarketRefinement

MCPrices     == {1, 2}
MCQuantities == {1, 2}
=============================================================================
