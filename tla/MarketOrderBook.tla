---------------------------- MODULE MarketOrderBook ----------------------------
(***************************************************************************)
(* A client's copy of an instrument's book:                                *)
(* kse::example::trading::market_order_book                                *)
(* (src/example/trading_engine/market_order_book.hpp, .cpp), as functions  *)
(* on a record.  Pointers become identifiers as in OrderBook: an order is  *)
(* named by its market order id, a level by that of the order it was       *)
(* created for, and 0 is nullptr.  A name that stands in price_levels and  *)
(* is not in the domain of levels is a pointer to a freed level.           *)
(*                                                                         *)
(* `failed' is set where the code follows a null or freed pointer, damages *)
(* a list, or throws; nothing is claimed about the copy from there on.     *)
(***************************************************************************)
EXTENDS Integers, SequencesExt

CONSTANTS
    MaxPriceLevels,    \* MAX_PRICE_LEVELS, the entries of price_levels_
    MaxNumOrders       \* MAX_NUM_ORDERS, the entries of orders_

Sides == {"BUY", "SELL"}
INVALID == -1

\* comparison_func: price a is strictly better than b on this side.
Better(side, a, b) == IF side = "BUY" THEN a > b ELSE a < b

With(f, x, v) == [y \in DOMAIN f \cup {x} |-> IF y = x THEN v ELSE f[y]]
Without(f, x) == [y \in DOMAIN f \ {x} |-> f[y]]
IndexOf(s, x) == CHOOSE i \in DOMAIN s : s[i] = x

NoQuote == [price |-> INVALID, qty |-> INVALID]

\* A market_order_book as it is constructed.
NewBook ==
    [orders |-> <<>>, levels |-> <<>>, rings |-> [side \in Sides |-> <<>>],
     price_levels |-> [i \in 0 .. MaxPriceLevels - 1 |-> 0],
     bbo |-> [side \in Sides |-> NoQuote], failed |-> FALSE]

Failed(b) == [b EXCEPT !.failed = TRUE]

-----------------------------------------------------------------------------
PriceToIndex(price) == price % MaxPriceLevels

\* Neither the side nor the price of the level is compared.
GetPriceLevel(b, price) == b.price_levels[PriceToIndex(price)]

\* Where add_price_level links a new level: its walk starts at the second level and
\* stops, from three levels on, before the last one is compared.
RingPosition(b, side, price) ==
    LET ring == b.rings[side]
        n == Len(ring)
        compared == IF n <= 2 THEN 1 .. n ELSE 1 .. n - 1
        worse == {i \in compared : Better(side, price, b.levels[ring[i]].price)}
    IN  IF worse = {} THEN n + 1 ELSE CHOOSE i \in worse : \A j \in worse : i <= j

\* Mutant: a new order goes to the front of its level.
EnqueueFront(queue, m) == <<m>> \o queue

Enqueue(queue, m) == Append(queue, m)

\* ADD: add_order, with orders_.at(market_order_id_) at its end.
AddOrder(b, m, o) ==
    LET l == GetPriceLevel(b, o.price)
    IN  IF m >= MaxNumOrders \/ (l # 0 /\ l \notin DOMAIN b.levels)
        THEN Failed(b)
        ELSE IF l = 0
        THEN [b EXCEPT !.orders = With(@, m, o),
                       !.levels = With(@, m, [side |-> o.side, price |-> o.price,
                                              queue |-> <<m>>]),
                       !.price_levels[PriceToIndex(o.price)] = m,
                       !.rings[o.side] = InsertAt(@, RingPosition(b, o.side, o.price), m)]
        ELSE [b EXCEPT !.orders = With(@, m, o),
                       !.levels[l].queue = Enqueue(@, m)]

\* Mutant: the entry of a removed level is not cleared.
RemoveOrderAtPriceKeepsSlot(b, l, side, price) ==
    [b EXCEPT !.levels = Without(@, l),
              !.rings[side] = RemoveAt(@, IndexOf(@, l))]

\* remove_order_at_price, for the level l an order of this side was the last of.
RemoveOrderAtPrice(b, l, side, price) ==
    IF b.levels[l].side # side
    THEN Failed(b)
    ELSE [b EXCEPT !.levels = Without(@, l),
                   !.rings[side] = RemoveAt(@, IndexOf(@, l)),
                   !.price_levels[PriceToIndex(price)] = 0]

\* CANCEL: remove_order, on the entry of orders_.
RemoveOrder(b, m) ==
    IF m \notin DOMAIN b.orders
    THEN Failed(b)
    ELSE LET o == b.orders[m]
             l == GetPriceLevel(b, o.price)
             c == IF Len(b.levels[l].queue) = 1
                  THEN RemoveOrderAtPrice(b, l, o.side, o.price)
                  ELSE [b EXCEPT !.levels[l].queue = RemoveAt(@, IndexOf(@, m))]
         IN  [c EXCEPT !.orders = Without(@, m)]

\* MODIFY: the order keeps its place.
ModifyOrder(b, m, price, qty) ==
    IF m \notin DOMAIN b.orders
    THEN Failed(b)
    ELSE [b EXCEPT !.orders[m].price = price, !.orders[m].qty = qty]

\* CLEAR: orders and levels go back to their pools, bid_ and ask_ are null; the
\* entries of price_levels_ stay as they are.
Clear(b) ==
    [b EXCEPT !.orders = <<>>, !.levels = <<>>, !.rings = [side \in Sides |-> <<>>]]

Total(quantities) == FoldLeft(LAMBDA sum, qty : sum + qty, 0, quantities)

\* update_side: the best level's price and the sum of its quantities.
Quote(b, side) ==
    IF b.rings[side] = <<>>
    THEN NoQuote
    ELSE LET best == b.levels[Head(b.rings[side])]
         IN  [price |-> best.price,
              qty |-> Total([i \in DOMAIN best.queue |-> b.orders[best.queue[i]].qty])]

\* Mutant: an update at the best price itself does not count.
TouchesBetter(b, side, u) ==
    /\ b.rings[side] # <<>> /\ u.side = side
    /\ Better(side, u.price, b.levels[Head(b.rings[side])].price)

\* bid_updated / ask_updated: the update is at the best price of the side or better,
\* as the side was before the update.
Touches(b, side, u) ==
    /\ b.rings[side] # <<>> /\ u.side = side
    /\ ~Better(side, b.levels[Head(b.rings[side])].price, u.price)

UpdateBbo(b, touched) ==
    [b EXCEPT !.bbo = [side \in Sides |-> IF side \in touched THEN Quote(b, side) ELSE @[side]]]

\* on_market_update.
OnMarketUpdate(b, u) ==
    LET touched == {side \in Sides : Touches(b, side, u)}
        c == CASE u.type = "ADD" ->
                    AddOrder(b, u.moid, [side |-> u.side, price |-> u.price, qty |-> u.qty,
                                         priority |-> u.priority])
               [] u.type = "MODIFY" -> ModifyOrder(b, u.moid, u.price, u.qty)
               [] u.type = "CANCEL" -> RemoveOrder(b, u.moid)
               [] u.type = "CLEAR" -> Clear(b)
               [] OTHER -> b
    IN  IF b.failed THEN b
        ELSE IF c.failed THEN Failed(b)
        ELSE IF u.type = "TRADE" THEN c ELSE UpdateBbo(c, touched)
================================================================================
