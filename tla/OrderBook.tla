------------------------------ MODULE OrderBook ------------------------------
(***************************************************************************)
(* The limit order book of one instrument: kse::engine::order_book         *)
(* (src/src/engine/order_book.hpp, order_book.cpp), driven by the matching *)
(* engine thread, which runs one request to its end before it reads the    *)
(* next.  A request is one step, except that add() is split: Add assigns   *)
(* the market order id, Match is one iteration of check_for_match's loop,  *)
(* and Finish is what add() does after the loop.                           *)
(*                                                                         *)
(* Pointers become identifiers.  A live order is named by its              *)
(* market_order_id, a live price level by the market_order_id of the order *)
(* it was created for, and 0 is nullptr.  The circular list of levels that *)
(* starts at bid_ or ask_ is a sequence of level names, and the circular   *)
(* list of orders that starts at first_order_ is a sequence of order names.*)
(* The slot table price_levels_ is kept as the code keeps it, apart from   *)
(* the lists: a level can be linked and not be found through its slot.     *)
(*                                                                         *)
(* `responses' and `updates' hold what the last step handed to the         *)
(* message_handler.  `fault' is set by a step after which the code has     *)
(* undefined behaviour (a null or dangling pointer is followed, or is left *)
(* in the book); nothing is claimed about the program from there on.       *)
(***************************************************************************)
EXTENDS Integers, FiniteSets, SequencesExt

CONSTANTS
    Clients,           \* client ids, all below MAX_NUM_CLIENTS
    OrderIds,          \* client order ids, all below MAX_NUM_ORDERS
    Prices,            \* limit prices requests may carry
    Quantities,        \* quantities requests may carry
    MaxPriceLevels,    \* MAX_PRICE_LEVELS: slots, and price_level_pool_
    MaxNumOrders,      \* MAX_NUM_ORDERS, the capacity of order_pool_
    MaxMarketOrders,   \* bound on the market order ids handed out
    ReuseLiveIds       \* may a client reuse the id of an order that rests?

ASSUME ConstantsAssumption ==
    /\ Prices \subseteq Int
    /\ Quantities \subseteq Nat
    /\ MaxPriceLevels \in Nat \ {0}
    /\ MaxNumOrders \in Nat \ {0}
    /\ MaxMarketOrders \in Nat
    /\ ReuseLiveIds \in BOOLEAN

VARIABLES
    orders,                \* live market order id -> the order
    levels,                \* live level name -> the price level
    rings,                 \* side -> its levels, from bid_ / ask_ on
    price_levels,          \* slot -> level name, or 0
    client_orders,         \* client -> client order id -> order, or 0
    next_market_order_id,
    aggressor,             \* the order add() is working on
    responses, updates,    \* handed to the message_handler by the last step
    fault

book == <<orders, levels, rings, price_levels, client_orders>>
vars == <<book, next_market_order_id, aggressor, responses, updates, fault>>

Sides == {"BUY", "SELL"}
Opposite(side) == IF side = "BUY" THEN "SELL" ELSE "BUY"
INVALID == -1    \* INVALID_ORDER_ID, INVALID_PRICE, INVALID_QUANTITY, ...
OrderNames == 1 .. MaxMarketOrders
Slots == 0 .. MaxPriceLevels - 1

With(f, x, v) == [y \in DOMAIN f \cup {x} |-> IF y = x THEN v ELSE f[y]]
Without(f, x) == [y \in DOMAIN f \ {x} |-> f[y]]
IndexOf(s, x) == CHOOSE i \in DOMAIN s : s[i] = x

NoAggressor == [active |-> FALSE]
Idle == ~aggressor.active /\ ~fault

-----------------------------------------------------------------------------
\* Messages.

Response(type, c, oid, m, side, price, exec, leaves) ==
    [type |-> type, client |-> c, oid |-> oid, moid |-> m, side |-> side,
     price |-> price, exec |-> exec, leaves |-> leaves]

Reject(type, c, oid) ==
    Response(type, c, oid, INVALID, "INVALID", INVALID, INVALID, INVALID)

Update(type, m, side, price, qty, priority) ==
    [type |-> type, moid |-> m, side |-> side, price |-> price,
     qty |-> qty, priority |-> priority]

\* The update that tells the market of order m as it is now, with qty.
UpdateOf(type, m, qty) ==
    Update(type, m, orders[m].side, orders[m].price, qty, orders[m].priority)

-----------------------------------------------------------------------------
\* Price levels.

\* comparison_func: price a is strictly better than b on this side.
Better(side, a, b) == IF side = "BUY" THEN a > b ELSE a < b

\* Mutant: half of the table is used.
PriceToHalfIndex(price) == price % (MaxPriceLevels \div 2)

PriceToIndex(price) == price % MaxPriceLevels

\* Only the side of the level found in the slot is compared, not its price.
GetPriceLevel(side, price) ==
    LET l == price_levels[PriceToIndex(price)]
    IN  IF l # 0 /\ levels[l].side = side THEN l ELSE 0

FirstOrder(l) == Head(levels[l].queue)

\* Mutant: one more than the last order's priority.
GetOrderPriorityAfterLast(side, price) ==
    LET l == GetPriceLevel(side, price)
    IN  IF l # 0 THEN orders[Last(levels[l].queue)].priority + 1 ELSE 1

GetOrderPriorityAtPriceLevel(side, price) ==
    LET l == GetPriceLevel(side, price)
    IN  IF l # 0 THEN orders[FirstOrder(l)].priority + 1 ELSE 1

\* Mutant: the new level is not compared with the best one.
RingPositionAfterBest(side, price) ==
    LET ring  == rings[side]
        worse == {i \in 2 .. Len(ring) :
                    Better(side, price, levels[ring[i]].price)}
    IN  IF worse = {} THEN Len(ring) + 1
        ELSE CHOOSE i \in worse : \A j \in worse : i <= j

\* Where the walk of add_price_level links a new level.  It starts at the
\* second level and, once its successor is the best level again, it stops
\* before the level it has reached is compared; with one or two levels it goes
\* round once more, so there every level has been compared.
RingPosition(side, price) ==
    LET ring == rings[side]
        n    == Len(ring)
        better(i) == Better(side, price, levels[ring[i]].price)
        compared  == IF n <= 2 THEN 1 .. n ELSE 1 .. n - 1
        worse     == {i \in compared : better(i)}
    IN  IF worse = {} THEN n + 1 ELSE CHOOSE i \in worse : \A j \in worse : i <= j

\* Mutant: the level that follows is unlinked with it.
UnlinkedTwo(side, l) ==
    LET i == IndexOf(rings[side], l)
    IN  SubSeq(rings[side], 1, i - 1)
          \o SubSeq(rings[side], i + 2, Len(rings[side]))

\* remove_price_level unlinks level l of this side.  Whether bid_ / ask_ moves
\* on to the next level is decided by comparing prices, not pointers.
Unlinked(side, l) ==
    LET ring == rings[side]
        i    == IndexOf(ring, l)
        before == SubSeq(ring, 1, i - 1)
        after  == SubSeq(ring, i + 1, Len(ring))
    IN  IF levels[ring[1]].price = levels[l].price
        THEN after \o before ELSE before \o after

\* Mutant: a new order goes to the front of its level.
EnqueueFront(queue, m) == <<m>> \o queue

Enqueue(queue, m) == Append(queue, m)

\* add_order, with the pool allocations it and its caller make: order m, the
\* record o, is linked behind the orders of its level or into a new level.
AddOrder(m, o) ==
    LET l == GetPriceLevel(o.side, o.price)
    IN  /\ IF l = 0
           THEN /\ orders' = With(orders, m, [o EXCEPT !.home = m])
                /\ levels' = With(levels, m,
                     [side |-> o.side, price |-> o.price, queue |-> <<m>>])
                /\ price_levels' =
                     [price_levels EXCEPT ![PriceToIndex(o.price)] = m]
                /\ rings' = [rings EXCEPT ![o.side] =
                     InsertAt(@, RingPosition(o.side, o.price), m)]
           ELSE /\ orders' = With(orders, m, [o EXCEPT !.home = l])
                /\ levels' = [levels EXCEPT ![l].queue = Enqueue(@, m)]
                /\ UNCHANGED <<price_levels, rings>>
        /\ client_orders' = [client_orders EXCEPT ![o.client][o.oid] = m]

\* May remove_order run on order m without undefined behaviour?  It works on
\* the level found in the slot of the order's price.  That is the level the
\* order is linked in unless another level took the slot; then only the last
\* case goes well, where just the order's neighbours are relinked.
RemoveIsDefined(m) ==
    LET o     == orders[m]
        found == GetPriceLevel(o.side, o.price)
    IN  \/ found = o.home
        \/ /\ found # 0
           /\ Len(levels[o.home].queue) > 1
           /\ FirstOrder(o.home) # m

\* Mutants: the entry of a removed order is kept; all the client's are cleared.
ForgetNothing(o) == client_orders
ForgetClient(o) == [client_orders EXCEPT ![o.client] = [oid \in OrderIds |-> 0]]

Forget(o) == [client_orders EXCEPT ![o.client][o.oid] = 0]

\* Mutant: the slot of a removed level is not cleared.
RemoveOrderKeepsSlot(m) ==
    LET o     == orders[m]
        queue == levels[o.home].queue
    IN  /\ IF Len(queue) = 1
           THEN /\ levels' = Without(levels, o.home)
                /\ rings' = [rings EXCEPT ![o.side] = Unlinked(o.side, o.home)]
           ELSE /\ levels' = [levels EXCEPT ![o.home].queue = RemoveAt(@, IndexOf(@, m))]
                /\ UNCHANGED rings
        /\ UNCHANGED price_levels
        /\ orders' = Without(orders, m)
        /\ client_orders' = Forget(o)

\* remove_order, where it is defined.
RemoveOrder(m) ==
    LET o     == orders[m]
        queue == levels[o.home].queue
    IN  /\ IF Len(queue) = 1
           THEN /\ levels' = Without(levels, o.home)
                /\ rings' = [rings EXCEPT ![o.side] = Unlinked(o.side, o.home)]
                /\ price_levels' =
                     [price_levels EXCEPT ![PriceToIndex(o.price)] = 0]
           ELSE /\ levels' = [levels EXCEPT ![o.home].queue = RemoveAt(@, IndexOf(@, m))]
                /\ UNCHANGED <<rings, price_levels>>
        /\ orders' = Without(orders, m)
        /\ client_orders' = Forget(o)

\* The step runs into undefined behaviour.
Fault ==
    /\ fault' = TRUE
    /\ responses' = <<>> /\ updates' = <<>>
    /\ UNCHANGED <<book, next_market_order_id, aggressor>>

-----------------------------------------------------------------------------
\* The requests.

Init ==
    /\ orders = <<>> /\ levels = <<>>
    /\ rings = [side \in Sides |-> <<>>]
    /\ price_levels = [i \in Slots |-> 0]
    /\ client_orders = [c \in Clients |-> [oid \in OrderIds |-> 0]]
    /\ next_market_order_id = 1
    /\ aggressor = NoAggressor
    /\ responses = <<>> /\ updates = <<>>
    /\ fault = FALSE

\* Mutant: the same market order id is handed out again.
BeginAddSameId(c, oid, side, price, qty, sent) ==
    LET m == next_market_order_id
    IN  /\ m <= MaxMarketOrders
        /\ next_market_order_id' = m
        /\ aggressor' = [active |-> TRUE, moid |-> m, client |-> c, oid |-> oid,
                         side |-> side, price |-> price, leaves |-> qty]
        /\ responses' =
             Append(sent, Response("ACCEPTED", c, oid, m, side, price, 0, qty))

\* The head of add(): a market order id is taken and the client is told.
\* `sent' is what the request sent before.
BeginAdd(c, oid, side, price, qty, sent) ==
    LET m == next_market_order_id
    IN  /\ m <= MaxMarketOrders
        /\ next_market_order_id' = m + 1
        /\ aggressor' = [active |-> TRUE, moid |-> m, client |-> c, oid |-> oid,
                         side |-> side, price |-> price, leaves |-> qty]
        /\ responses' =
             Append(sent, Response("ACCEPTED", c, oid, m, side, price, 0, qty))

Add(c, oid, side, price, qty) ==
    /\ Idle
    /\ ReuseLiveIds \/ \A m \in DOMAIN orders :
                          orders[m].client # c \/ orders[m].oid # oid
    /\ BeginAdd(c, oid, side, price, qty, <<>>)
    /\ updates' = <<>>
    /\ UNCHANGED <<book, fault>>

\* Mutant: the last order of the best opposite level.
LastOpposite == Last(levels[rings[Opposite(aggressor.side)][1]].queue)

\* check_for_match's loop condition and its break: the first order of the best
\* opposite level is the one to trade with, if its price is good enough.
BestOpposite == FirstOrder(rings[Opposite(aggressor.side)][1])

\* Mutants: an equal price is not a match; a filled order goes on matching.
CanMatchStrict ==
    /\ aggressor.active
    /\ aggressor.leaves > 0
    /\ rings[Opposite(aggressor.side)] # <<>>
    /\ Better(aggressor.side, aggressor.price, orders[BestOpposite].price)

CanMatchFilled ==
    /\ aggressor.active
    /\ rings[Opposite(aggressor.side)] # <<>>
    /\ ~Better(Opposite(aggressor.side), aggressor.price,
               orders[BestOpposite].price)

CanMatch ==
    /\ aggressor.active
    /\ aggressor.leaves > 0
    /\ rings[Opposite(aggressor.side)] # <<>>
    /\ ~Better(Opposite(aggressor.side), aggressor.price,
               orders[BestOpposite].price)

\* Mutant: the resting quantity, whatever the aggressor has left.
MatchedQtyResting(leaves, qty) == qty

MatchedQty(leaves, qty) == IF leaves < qty THEN leaves ELSE qty

\* match(): trade with that order, and remove it once nothing is left of it.
Match ==
    /\ ~fault
    /\ CanMatch
    /\ LET a == aggressor
           m == BestOpposite
           o == orders[m]
           matched == MatchedQty(a.leaves, o.qty)
           leaves  == a.leaves - matched
           left    == o.qty - matched
           trade   == Update("TRADE", INVALID, a.side, o.price, matched, INVALID)
           reports ==
             /\ responses' =
                  <<Response("FILLED", a.client, a.oid, a.moid, a.side, o.price,
                             matched, leaves),
                    Response("FILLED", o.client, o.oid, m, o.side, o.price,
                             matched, left)>>
             /\ aggressor' = [a EXCEPT !.leaves = leaves]
             /\ UNCHANGED <<next_market_order_id, fault>>
       IN  \/ /\ left > 0
              /\ orders' = [orders EXCEPT ![m].qty = left]
              /\ updates' = <<trade, UpdateOf("MODIFY", m, left)>>
              /\ UNCHANGED <<levels, rings, price_levels, client_orders>>
              /\ reports
           \/ /\ left = 0 /\ RemoveIsDefined(m)
              /\ RemoveOrder(m)
              /\ updates' = <<trade, UpdateOf("CANCEL", m, o.qty)>>
              /\ reports
           \/ /\ left = 0 /\ ~RemoveIsDefined(m)
              /\ Fault

\* Do order_pool_ and, for a new level, price_level_pool_ have a free block?
HasRoom(side, price) ==
    /\ Cardinality(DOMAIN orders) < MaxNumOrders
    /\ \/ GetPriceLevel(side, price) # 0
       \/ Cardinality(DOMAIN levels) < MaxPriceLevels

\* The rest of add() after check_for_match: what is left joins the book.
Finish ==
    /\ aggressor.active /\ ~fault
    /\ ~CanMatch
    /\ LET a == aggressor
           priority == GetOrderPriorityAtPriceLevel(a.side, a.price)
       IN  \/ /\ a.leaves = 0
              /\ updates' = <<>>
              /\ aggressor' = NoAggressor /\ responses' = <<>>
              /\ UNCHANGED <<book, next_market_order_id, fault>>
           \/ /\ a.leaves > 0
              /\ HasRoom(a.side, a.price)
              /\ AddOrder(a.moid,
                    [client |-> a.client, oid |-> a.oid, side |-> a.side,
                     price |-> a.price, qty |-> a.leaves, priority |-> priority,
                     home |-> 0])
              /\ updates' = <<Update("ADD", a.moid, a.side, a.price, a.leaves,
                                     priority)>>
              /\ aggressor' = NoAggressor /\ responses' = <<>>
              /\ UNCHANGED <<next_market_order_id, fault>>
           \/ /\ a.leaves > 0
              /\ ~HasRoom(a.side, a.price)
              /\ Fault

\* The messages of a cancel of order m that is not rejected.
Canceled(m) ==
    Response("CANCELED", orders[m].client, orders[m].oid, m, orders[m].side,
             orders[m].price, INVALID, orders[m].qty)

Cancel(c, oid) ==
    /\ Idle
    /\ LET m == client_orders[c][oid]
       IN  \/ /\ m = 0
              /\ responses' = <<Reject("CANCEL_REJECTED", c, oid)>>
              /\ updates' = <<>>
              /\ UNCHANGED <<book, next_market_order_id, aggressor, fault>>
           \/ /\ m # 0 /\ RemoveIsDefined(m)
              /\ RemoveOrder(m)
              /\ responses' = <<Canceled(m)>>
              /\ updates' = <<UpdateOf("CANCEL", m, 0)>>
              /\ UNCHANGED <<next_market_order_id, aggressor, fault>>
           \/ /\ m # 0 /\ ~RemoveIsDefined(m)
              /\ Fault

\* A new price or a larger quantity is a cancel followed by an add; otherwise
\* the order keeps its place and only its quantity changes, possibly to 0.
Modify(c, oid, price, qty) ==
    /\ Idle
    /\ LET m == client_orders[c][oid]
           o == orders[m]
           replace == o.price # price \/ o.qty < qty
       IN  \/ /\ m = 0
              /\ responses' = <<Reject("MODIFY_REJECTED", c, oid)>>
              /\ updates' = <<>>
              /\ UNCHANGED <<book, next_market_order_id, aggressor, fault>>
           \/ /\ m # 0 /\ replace /\ RemoveIsDefined(m)
              /\ RemoveOrder(m)
              /\ updates' = <<UpdateOf("CANCEL", m, 0)>>
              /\ BeginAdd(c, oid, o.side, price, qty, <<Canceled(m)>>)
              /\ UNCHANGED fault
           \/ /\ m # 0 /\ replace /\ ~RemoveIsDefined(m)
              /\ Fault
           \/ /\ m # 0 /\ ~replace
              /\ orders' = [orders EXCEPT ![m].qty = qty]
              /\ responses' = <<Response("MODIFIED", c, oid, m, o.side, price,
                                         0, qty)>>
              /\ updates' = <<UpdateOf("MODIFY", m, qty)>>
              /\ UNCHANGED <<levels, rings, price_levels, client_orders,
                             next_market_order_id, aggressor, fault>>

Request ==
    \E c \in Clients, oid \in OrderIds :
       \/ Cancel(c, oid)
       \/ \E price \in Prices, qty \in Quantities :
             \/ Modify(c, oid, price, qty)
             \/ \E side \in Sides : Add(c, oid, side, price, qty)

Next == Request \/ Match \/ Finish

\* The engine thread never blocks between two steps of one request.
Spec == Init /\ [][Next]_vars /\ WF_vars(Match) /\ WF_vars(Finish)

-----------------------------------------------------------------------------
\* Properties.

Order == [client : Clients, oid : OrderIds, side : Sides, price : Prices,
          qty : Nat, priority : Nat, home : OrderNames]
Level == [side : Sides, price : Prices, queue : Seq(OrderNames)]
Aggressor == [active : {TRUE}, moid : OrderNames, client : Clients,
              oid : OrderIds, side : Sides, price : Prices, leaves : Nat]

\* Every variable of the book has the shape its C++ type gives it.
BookTypeOK ==
    /\ DOMAIN orders \subseteq OrderNames
    /\ orders \in [DOMAIN orders -> Order]
    /\ DOMAIN levels \subseteq OrderNames
    /\ levels \in [DOMAIN levels -> Level]
    /\ rings \in [Sides -> Seq(OrderNames)]
    /\ price_levels \in [Slots -> {0} \cup OrderNames]
    /\ client_orders \in [Clients -> [OrderIds -> {0} \cup OrderNames]]

TypeOK ==
    /\ BookTypeOK
    /\ next_market_order_id \in 1 .. MaxMarketOrders + 1
    /\ aggressor \in Aggressor \cup {NoAggressor}
    /\ fault \in BOOLEAN

\* No request leads the book into undefined behaviour: remove_order always
\* finds the level the order is linked in, and the pools have a free block.
NoFault == ~fault

\* client_orders_ never dangles: whatever ids clients reuse, an entry is null
\* or points to a live order of that very client and client order id, so
\* cancel() and modify() never touch freed memory or someone else's order.
IndexSound ==
    \A c \in Clients, oid \in OrderIds :
       LET m == client_orders[c][oid]
       IN  m # 0 => /\ m \in DOMAIN orders
                    /\ orders[m].client = c /\ orders[m].oid = oid

\* A resting order that its client can cancel and modify stays within its reach:
\* client_orders_ loses it only when it leaves, or when another order of the same
\* client and client order id joins the book or leaves it.
IndexKeptStep ==
    \A m \in DOMAIN orders :
       LET o == orders[m]
           sameId(k, f) == k # m /\ f[k].client = o.client /\ f[k].oid = o.oid
       IN  client_orders[o.client][o.oid] = m =>
             \/ m \notin DOMAIN orders'
             \/ client_orders'[o.client][o.oid] = m
             \/ \E k \in DOMAIN orders' \ DOMAIN orders : sameId(k, orders')
             \/ \E k \in DOMAIN orders \ DOMAIN orders' : sameId(k, orders)

IndexKept == [][IndexKeptStep]_vars

\* The structures of the book agree: each side's level list holds every live
\* level of that side once and nothing else, each level's order list holds
\* exactly the live orders linked in it, and no level is empty.
Linked ==
    /\ \A side \in Sides :
          /\ IsInjective(rings[side])
          /\ ToSet(rings[side]) = {l \in DOMAIN levels : levels[l].side = side}
    /\ \A l \in DOMAIN levels :
          /\ levels[l].queue # <<>>
          /\ ToSet(levels[l].queue) = {m \in DOMAIN orders : orders[m].home = l}
    /\ \A m \in DOMAIN orders :
          /\ orders[m].home \in DOMAIN levels
          /\ levels[orders[m].home].side = orders[m].side

\* price_levels_ never dangles: a slot is null or holds a live level that
\* belongs there, whatever levels other levels pushed out of their slots.
SlotsSound ==
    \A i \in Slots : price_levels[i] # 0 =>
       /\ price_levels[i] \in DOMAIN levels
       /\ PriceToIndex(levels[price_levels[i]].price) = i

\* A market order id is never used twice: the ids of live orders and levels
\* all lie below the one add() is working on and the next one to hand out.
Fresh ==
    /\ \A m \in DOMAIN orders \cup DOMAIN levels :
          /\ m < next_market_order_id
          /\ aggressor.active => m < aggressor.moid
    /\ aggressor.active => aggressor.moid < next_market_order_id

\* Within a level orders stand in the order of their arrival, through partial
\* fills, modifications in place and removals from the middle.
ArrivalOrder ==
    \A l \in DOMAIN levels : \A i, j \in DOMAIN levels[l].queue :
       i < j => levels[l].queue[i] < levels[l].queue[j]

\* The priority published with an order never contradicts its place in the
\* level: it does not decrease along the list, and it exceeds the first
\* order's by one at most.  (It is not unique: it is the first order's plus 1.)
PriorityOrder ==
    \A l \in DOMAIN levels : \A i, j \in DOMAIN levels[l].queue :
       LET p(k) == orders[levels[l].queue[k]].priority
       IN  i < j => p(i) <= p(j) /\ p(j) <= p(1) + 1

\* Walking from bid_ or ask_ along next_entry_, prices only get worse: what
\* to_string() checks and reports as "Bids/Asks not sorted by price".
BookSorted ==
    \A side \in Sides : \A i, j \in DOMAIN rings[side] :
       i < j => Better(side, levels[rings[side][i]].price,
                             levels[rings[side][j]].price)

\* Between requests no resting bid meets a resting ask.
Uncrossed ==
    Idle => \A b, s \in DOMAIN orders :
              orders[b].side = "BUY" /\ orders[s].side = "SELL"
                => orders[b].price < orders[s].price

\* Every trade is with the best-priced resting order of the other side and,
\* among those at the same price, with the one that arrived first: "Orders are
\* matched from highest to lowest price for buy orders and lowest to highest
\* price for sell orders" and "based on their arrival time" (README.md:12-13).
PriceTimePriorityStep ==
    (Len(responses') = 2 /\ responses'[2].type = "FILLED") =>
       LET m == responses'[2].moid
       IN  \A k \in DOMAIN orders \ {m} :
              orders[k].side = orders[m].side =>
                 \/ Better(orders[m].side, orders[m].price, orders[k].price)
                 \/ orders[m].price = orders[k].price /\ m < k

PriceTimePriority == [][PriceTimePriorityStep]_vars

\* Whatever became of the price order and of the slots, every trade is with the
\* order of its level that arrived first: "Orders at the same price and side
\* are matched based on their arrival time" (README.md:13).
TimePriorityStep ==
    (Len(responses') = 2 /\ responses'[2].type = "FILLED") =>
       LET m == responses'[2].moid
       IN  /\ m \in DOMAIN orders
           /\ \A k \in DOMAIN orders :
                 orders[k].home = orders[m].home => m <= k

TimePriority == [][TimePriorityStep]_vars

\* Every request comes to its end: check_for_match's loop terminates, also when
\* it meets resting orders that were modified down to quantity 0.
RequestEnds == aggressor.active ~> (~aggressor.active \/ fault)
=============================================================================
