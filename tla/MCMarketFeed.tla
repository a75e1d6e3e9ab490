---------------------------- MODULE MCMarketFeed ----------------------------
(***************************************************************************)
(* Instances of MarketFeed for TLC.                                        *)
(***************************************************************************)
EXTENDS MarketFeed

Order(type, i, id, qty) ==
    [type |-> type, instrument |-> i, moid |-> id, side |-> "BUY", price |-> 1,
     qty |-> qty, priority |-> 1]

\* Orders of two instruments rest together and one of them leaves; an order is
\* modified.
MCStreams ==
    {<<Order("ADD", 0, 1, 2), Order("ADD", 1, 1, 2), Order("CANCEL", 0, 1, 0)>>,
     <<Order("ADD", 0, 1, 2), Order("MODIFY", 0, 1, 1)>>}
=============================================================================
