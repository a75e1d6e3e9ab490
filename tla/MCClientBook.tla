----------------------------- MODULE MCClientBook ------------------------------
(***************************************************************************)
(* Instances of ClientBook for TLC.                                        *)
(***************************************************************************)
EXTENDS ClientBook

\* The messages of the last step influence no later one.
ClientBookView == <<book, next_market_order_id, aggressor, fault, client, synced, recoveries>>
================================================================================
