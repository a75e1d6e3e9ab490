------------------------------- MODULE MCTrading -------------------------------
(***************************************************************************)
(* Instances of Trading for TLC.                                           *)
(***************************************************************************)
EXTENDS Trading

\* A market with one level on each side, and one in which a side is empty.
SomeBbos ==
    [bid : {100}, ask : {101, 102}, bid_qty : {1}, ask_qty : {1}]
      \cup [bid : {NoPrice}, ask : {101}, bid_qty : {0}, ask_qty : {1}]

\* The others trade one unit inside that market.
SomeOrders == [side : Sides, price : {100, 101}, qty : {1}]

\* The messages of the last step influence no later one.
TradingView == <<book, next_market_order_id, aggressor, fault, algo, om, next_order_id,
                 to_exchange, to_me>>
================================================================================
