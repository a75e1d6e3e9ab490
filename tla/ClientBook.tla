------------------------------ MODULE ClientBook -------------------------------
(***************************************************************************)
(* The order book of the exchange and a client's copy of it, kept from the *)
(* market updates the feed handler passes on.  The feed handler is modelled*)
(* elsewhere (FeedHandler, MarketFeed: a client out of recovery has seen   *)
(* exactly the updates up to its place in the stream); here its effect is  *)
(* that the copy either gets every update in order, or, from a gap on,     *)
(* nothing until a snapshot: a CLEAR and an ADD for each resting order, in *)
(* the order of their market order ids.                                    *)
(***************************************************************************)
EXTENDS OrderBook

CONSTANT MaxRecoveries    \* bound on the number of recoveries

ASSUME ClientBookAssumption == MaxRecoveries \in Nat

VARIABLES
    client,       \* the client's market_order_book
    synced,       \* does it get the updates?
    recoveries    \* snapshots it has got so far

M == INSTANCE MarketOrderBook

cbvars == <<vars, client, synced, recoveries>>

CBInit == Init /\ client = M!NewBook /\ synced = TRUE /\ recoveries = 0

\* The engine makes a step, and a client that follows gets its updates.
Trade ==
    /\ Next
    /\ client' = IF synced THEN FoldLeft(M!OnMarketUpdate, client, updates') ELSE client
    /\ UNCHANGED <<synced, recoveries>>

\* A datagram is lost, late or repeated: the feed handler goes into recovery.
Gap ==
    /\ synced /\ recoveries < MaxRecoveries
    /\ synced' = FALSE
    /\ UNCHANGED <<vars, client, recoveries>>

\* The updates of a snapshot of the instrument.
Snapshot ==
    LET ids == SetToSortSeq(DOMAIN orders, <)
    IN  <<Update("CLEAR", INVALID, "INVALID", INVALID, INVALID, INVALID)>>
          \o [k \in DOMAIN ids |-> UpdateOf("ADD", ids[k], orders[ids[k]].qty)]

Recover ==
    /\ ~synced
    /\ client' = FoldLeft(M!OnMarketUpdate, client, Snapshot)
    /\ synced' = TRUE /\ recoveries' = recoveries + 1
    /\ UNCHANGED vars

CBNext == Trade \/ Gap \/ Recover

CBSpec == CBInit /\ [][CBNext]_cbvars

-----------------------------------------------------------------------------
\* The copy of a client that has missed nothing, or has recovered, is the book of the
\* exchange: the same orders with the same data, the same levels in the same order,
\* and in each level the same orders in the same order.
CopyCorrect ==
    (synced /\ ~fault /\ ~client.failed) =>
       /\ DOMAIN client.orders = DOMAIN orders
       /\ \A m \in DOMAIN orders :
            client.orders[m] = [side |-> orders[m].side, price |-> orders[m].price,
                                qty |-> orders[m].qty, priority |-> orders[m].priority]
       /\ \A side \in Sides :
            /\ Len(client.rings[side]) = Len(rings[side])
            /\ \A i \in DOMAIN rings[side] :
                 LET theirs == client.levels[client.rings[side][i]]
                     ours == levels[rings[side][i]]
                 IN  theirs = ours

\* Until its first recovery the best bid and offer a client quotes from is never
\* wrong, only absent: a side has no price, or the best price of the copy with the
\* whole quantity there, though update_bbo runs only for updates at the top.
BboSound ==
    (recoveries = 0 /\ ~client.failed) =>
       \A side \in Sides : client.bbo[side] \in {M!NoQuote, M!Quote(client, side)}

\* A copy fails in two ways only: by a market order id beyond the table, and after
\* the CLEAR of a recovery.
FailsOnlyAfterClear ==
    client.failed => recoveries > 0 \/ next_market_order_id > MaxNumOrders

\* A client can go on with the copy it has after a snapshot: "Market data snapshots
\* are available for clients experiencing packet loss" (README.md:17).
CopyUsable == ~client.failed
================================================================================
