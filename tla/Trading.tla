-------------------------------- MODULE Trading --------------------------------
(***************************************************************************)
(* A client's trade_engine and the order book it trades on: order_manager, *)
(* risk_manager, feature_engine and the two algorithms market_maker and    *)
(* liquidity_taker (src/example/trading_engine), for one instrument.       *)
(*                                                                         *)
(* Requests and responses cross queues, gateways and TCP; each way is one  *)
(* first-in-first-out queue here (see OrderRequests and OrderResponses).   *)
(* The market data a step of the algorithm looks at may be of any age, so  *)
(* the best bid and offer is an input.  Positions stay 0: the body of      *)
(* position_keeper::add_fill is commented out.                             *)
(***************************************************************************)
EXTENDS OrderBook

CONSTANTS
    Me,            \* this client; the others are Clients \ {Me}
    Clip,          \* clip_, the quantity of every order
    Threshold,     \* threshold_
    MaxOrderSize,  \* max_order_size_
    MaxPosition,   \* max_position_
    Bbos,          \* best bids and offers the market data may show
    OtherOrders,   \* what the others may order: side, price and quantity
    MaxOnTheWay    \* bound on the messages on their way when a request is sent

NoPrice == INVALID

ASSUME TradingAssumption ==
    /\ Me \in Clients
    /\ \A oid \in OrderIds : oid \in Nat \ {0} /\ 1 .. oid \subseteq OrderIds
    /\ Clip \in Quantities \ {0}
    /\ {MaxOrderSize, MaxPosition, Threshold, MaxOnTheWay} \subseteq Nat
    /\ \A bbo \in Bbos : /\ bbo.bid \in Int /\ bbo.ask \in Int
                         /\ bbo.bid_qty \in Nat /\ bbo.ask_qty \in Nat
                         /\ (bbo.bid # NoPrice /\ bbo.ask # NoPrice) =>
                              {bbo.bid - 1, bbo.bid, bbo.ask, bbo.ask + 1}
                                \subseteq Prices \cup {NoPrice}
    /\ OtherOrders \subseteq [side : Sides, price : Prices, qty : Quantities]

VARIABLES
    algo,            \* the algo_type_t the engine was constructed with
    om,              \* instrument_side_order_: side -> om_order
    next_order_id,
    to_exchange,     \* requests on their way, the oldest first
    to_me            \* responses on their way

tvars == <<vars, algo, om, next_order_id, to_exchange, to_me>>

\* An om_order as it is constructed.
NoOrder == [oid |-> INVALID, price |-> NoPrice, qty |-> INVALID, state |-> "INVALID"]

TInit ==
    /\ Init
    /\ algo \in {"MAKER", "TAKER"}
    /\ om = [side \in Sides |-> NoOrder]
    /\ next_order_id = 1
    /\ to_exchange = <<>> /\ to_me = <<>>

-----------------------------------------------------------------------------
\* The order manager.

\* check_pretrade_risk.  Position and profit are 0, and max_loss_ is not above 0, so no
\* loss is too large.
Allowed(side, qty) == qty <= MaxOrderSize /\ qty <= MaxPosition

\* The next three work on a record of what they change.
SendClientRequest(s, request) == [s EXCEPT !.requests = Append(@, request)]

NewOrder(s, side, price, qty) ==
    LET t == SendClientRequest(s, [type |-> "NEW", oid |-> s.next, side |-> side,
                                   price |-> price, qty |-> qty])
    IN  [t EXCEPT !.om[side] = [oid |-> s.next, price |-> price, qty |-> qty,
                                state |-> "PENDING_NEW"],
                  !.next = @ + 1]

\* The request that cancels an order.
CancelRequest(order, side) ==
    [type |-> "CANCEL", oid |-> order.oid, side |-> side, price |-> order.price,
     qty |-> order.qty]

\* Mutant: the order counts as dead as soon as the cancel is sent.
CancelOrderDead(s, side) ==
    [SendClientRequest(s, CancelRequest(s.om[side], side)) EXCEPT !.om[side].state = "DEAD"]

\* The order stays LIVE until the answer comes.
CancelOrder(s, side) == SendClientRequest(s, CancelRequest(s.om[side], side))

MoveOrder(s, side, price) ==
    LET order == s.om[side]
    IN  CASE order.state = "LIVE" /\ order.price # price -> CancelOrder(s, side)
          [] /\ order.state \in {"INVALID", "DEAD"} /\ price # NoPrice
             /\ Allowed(side, Clip) -> NewOrder(s, side, price, Clip)
          [] OTHER -> s

\* move_orders: the bid first.
MoveOrders(bid_price, ask_price) ==
    LET s == MoveOrder(MoveOrder([om |-> om, next |-> next_order_id, requests |-> <<>>],
                                 "BUY", bid_price), "SELL", ask_price)
    IN  /\ s.next - 1 \in {0} \cup OrderIds
        /\ Len(to_exchange) + Len(to_me) + Len(s.requests) <= MaxOnTheWay
        /\ om' = s.om /\ next_order_id' = s.next
        /\ to_exchange' = to_exchange \o s.requests

-----------------------------------------------------------------------------
\* The algorithms.  The market price of the feature engine is
\* (bid * ask_qty + ask * bid_qty) / (bid_qty + ask_qty), so it lies above the bid
\* by (ask - bid) * bid_qty / (bid_qty + ask_qty); 0 / 0 is not a number and
\* compares as false.

AtLeast(gap, qty, all) == all > 0 /\ gap * qty >= Threshold * all

\* market_maker::on_order_book_update.
MakerQuotes(bbo) ==
    /\ bbo.bid # NoPrice /\ bbo.ask # NoPrice
    /\ LET all == bbo.bid_qty + bbo.ask_qty
           gap == bbo.ask - bbo.bid
       IN  MoveOrders(bbo.bid - (IF AtLeast(gap, bbo.bid_qty, all) THEN 0 ELSE 1),
                      bbo.ask + (IF AtLeast(gap, bbo.ask_qty, all) THEN 0 ELSE 1))

\* agg_trade_qty_ratio_ >= threshold: the trade took a large part of what the other
\* side shows.
LargeTrade(bbo, side, qty) ==
    LET shown == IF side = "BUY" THEN bbo.ask_qty ELSE bbo.bid_qty
    IN  qty + shown > 0 /\ qty >= Threshold * shown

\* liquidity_taker::on_trade_update.
TakerFollows(bbo, side, qty) ==
    /\ bbo.bid # NoPrice /\ bbo.ask # NoPrice
    /\ LargeTrade(bbo, side, qty)
    /\ IF side = "BUY" THEN MoveOrders(bbo.ask, NoPrice) ELSE MoveOrders(NoPrice, bbo.bid)

\* trade_engine::on_order_book_update and on_trade_update.
OnOrderBookUpdate(bbo) ==
    /\ algo = "MAKER" /\ MakerQuotes(bbo)
    /\ UNCHANGED <<vars, algo, to_me>>

OnTradeUpdate(bbo, side, qty) ==
    /\ algo = "TAKER" /\ TakerFollows(bbo, side, qty)
    /\ UNCHANGED <<vars, algo, to_me>>

\* Mutants: a fill sets what was executed; an order is live only when it is modified.
AfterResponseExec(order, r) ==
    CASE r.type \in {"ACCEPTED", "MODIFIED"} -> [order EXCEPT !.state = "LIVE"]
      [] r.type = "CANCELED" -> [order EXCEPT !.state = "DEAD"]
      [] r.type = "FILLED" -> [order EXCEPT !.qty = r.exec]
      [] OTHER -> order
AfterResponseNotLive(order, r) ==
    CASE r.type = "MODIFIED" -> [order EXCEPT !.state = "LIVE"]
      [] r.type = "CANCELED" -> [order EXCEPT !.state = "DEAD"]
      [] OTHER -> order

\* order_manager::on_order_update: the order id of the response is not looked at.
AfterResponse(order, r) ==
    CASE r.type \in {"ACCEPTED", "MODIFIED"} -> [order EXCEPT !.state = "LIVE"]
      [] r.type = "CANCELED" -> [order EXCEPT !.state = "DEAD"]
      [] r.type = "FILLED" -> [order EXCEPT !.qty = r.leaves,
                                            !.state = IF r.leaves = 0 THEN "DEAD" ELSE @]
      [] OTHER -> order

\* side_to_index: what is not BUY counts as SELL.
SideOf(r) == IF r.side = "BUY" THEN "BUY" ELSE "SELL"

\* trade_engine::on_order_update for the next response.
OnOrderUpdate ==
    /\ to_me # <<>>
    /\ om' = [om EXCEPT ![SideOf(Head(to_me))] = AfterResponse(@, Head(to_me))]
    /\ to_me' = Tail(to_me)
    /\ UNCHANGED <<vars, algo, next_order_id, to_exchange>>

-----------------------------------------------------------------------------
\* The exchange.

\* A response reaches the queue of this client's connection, or another one.
Deliver(queue, r) == IF r.client = Me THEN Append(queue, r) ELSE queue

Respond == to_me' = FoldLeft(Deliver, to_me, responses')

\* The engine takes this client's next request.
TakeRequest ==
    /\ to_exchange # <<>>
    /\ LET r == Head(to_exchange)
       IN  \/ r.type = "NEW" /\ Add(Me, r.oid, r.side, r.price, r.qty)
           \/ r.type = "CANCEL" /\ Cancel(Me, r.oid)
    /\ to_exchange' = Tail(to_exchange)
    /\ Respond
    /\ UNCHANGED <<algo, om, next_order_id>>

\* Market order ids that the bound MaxMarketOrders keeps for this client's orders.
Reserved ==
    Cardinality(OrderIds) + 1 - next_order_id
      + Len(SelectSeq(to_exchange, LAMBDA r : r.type = "NEW"))

\* It takes a request of somebody else, or goes on with the one it has.
OtherRequest ==
    /\ next_market_order_id + Reserved <= MaxMarketOrders
    /\ \E c \in Clients \ {Me}, oid \in OrderIds :
         \/ Cancel(c, oid)
         \/ \E o \in OtherOrders : Add(c, oid, o.side, o.price, o.qty)
    /\ Respond
    /\ UNCHANGED <<algo, om, next_order_id, to_exchange>>

GoOn == (Match \/ Finish) /\ Respond /\ UNCHANGED <<algo, om, next_order_id, to_exchange>>

TNext ==
    \/ OnOrderUpdate \/ TakeRequest \/ OtherRequest \/ GoOn
    \/ \E bbo \in Bbos :
         \/ OnOrderBookUpdate(bbo)
         \/ \E side \in Sides, qty \in Quantities : OnTradeUpdate(bbo, side, qty)

\* The threads poll their queues for ever.
TSpec ==
    /\ TInit /\ [][TNext]_tvars
    /\ WF_tvars(OnOrderUpdate) /\ WF_tvars(TakeRequest) /\ WF_tvars(GoOn)

-----------------------------------------------------------------------------
\* This client's orders that are not finished, as the exchange has them or will have
\* them: resting, in check_for_match, or as a request on its way.
Unfinished ==
    {[oid |-> orders[m].oid, side |-> orders[m].side, price |-> orders[m].price,
      qty |-> orders[m].qty] : m \in {k \in DOMAIN orders : orders[k].client = Me}}
    \cup (IF aggressor.active /\ aggressor.client = Me
          THEN {[oid |-> aggressor.oid, side |-> aggressor.side, price |-> aggressor.price,
                 qty |-> aggressor.leaves]} ELSE {})
    \cup {[oid |-> r.oid, side |-> r.side, price |-> r.price, qty |-> r.qty] :
            r \in {q \in Range(to_exchange) : q.type = "NEW"}}

\* The order manager loses no order: whatever answers are late, each unfinished order
\* is the one it has for that side, neither dead nor with less left than it really
\* has.  So there is at most one per side, which the pre-trade check relies on.
Tracked ==
    ~fault => \A u \in Unfinished :
      u.qty > 0 =>
        /\ om[u.side].oid = u.oid /\ om[u.side].price = u.price
        /\ om[u.side].state \in {"PENDING_NEW", "LIVE"}
        /\ om[u.side].qty >= u.qty

\* When nothing is on its way the order manager and the exchange agree: the orders it
\* takes for live are those that rest, with the quantity they rest with.
Agreement ==
    (Idle /\ to_exchange = <<>> /\ to_me = <<>>) =>
      {[oid |-> om[side].oid, side |-> side, price |-> om[side].price, qty |-> om[side].qty] :
         side \in {s \in Sides : om[s].state \notin {"INVALID", "DEAD"}}} = Unfinished

\* Every new order is answered: it does not stay PENDING_NEW, where no algorithm
\* could move or cancel it.
NewOrdersAnswered ==
    \A side \in Sides :
      om[side].state = "PENDING_NEW" ~> (om[side].state # "PENDING_NEW" \/ fault)
================================================================================
