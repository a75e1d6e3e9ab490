----------------------------- MODULE MCExchange -----------------------------
(***************************************************************************)
(* Instances of Exchange for TLC.                                          *)
(***************************************************************************)
EXTENDS Exchange

\* The messages of the last step and what is in the network influence no step.
ExchangeView ==
    <<book, next_market_order_id, aggressor, fault, market_updates,
      next_inc_seq_num, buffer, snapshot_updates, updates_by_instrument,
      last_inc_seq_num, failed>>
=============================================================================
