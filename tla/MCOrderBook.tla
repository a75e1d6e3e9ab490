---------------------------- MODULE MCOrderBook ----------------------------
(***************************************************************************)
(* Instances of OrderBook for TLC.                                         *)
(***************************************************************************)
EXTENDS OrderBook

\* The messages of the last step influence no later one.
BookView == <<book, next_market_order_id, aggressor, fault>>
============================================================================
