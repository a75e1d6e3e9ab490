# A TLA+ model of the stock exchange

This directory holds a verification project for the exchange in this
repository: TLA+ modules for the exchange and for its example client, TLC
configurations that check them on small instances, and TLAPS proofs for all
instances of the order book, the queue between the threads, the order server's two
paths, publisher and synthesizer, the client's copy of the book and its trade
engine. `PROJECT.json` lists components, runs, mutants, hazards, findings,
theorems, and for every definition the source lines it models.

To repeat the work: `tlc -config OrderBook_priority.cfg MCOrderBook` for a run
(module and cfg as in the table below), `tlapm OrderBookProofs.tla`, and so on
for each module with proofs.

## Inventory

### Threads and how they meet

The exchange process (`src/main.cpp`) runs the order server's libuv loop, the
order server's response thread, the matching engine, the market data
publisher's loop, the snapshot synthesizer's loop, and a logger thread per log.
They meet only in `lock_free_queue`s with one writer and one reader:

    order server --requests--> matching engine --responses--> order server
                               matching engine --updates--> publisher
                               publisher --numbered updates--> synthesizer

The publisher multicasts numbered incremental messages, the synthesizer
multicasts a snapshot every minute.  A client process (`example/`) has a feed
handler thread, an order gateway and a trade engine, again joined by queues.

### Components

| component | state | operations | what makes it correct |
|---|---|---|---|
| order book | orders, price levels in circular lists, slot table `price_levels_`, index `client_orders_`, next id, two pools | add, cancel, modify, match | price-time priority, sorted and uncrossed, lists and tables never dangle, requests end |
| matching engine, message handler | one book per instrument | dispatch a request, send responses and updates | one request after the other, all messages in order |
| memory pool | blocks, free list | alloc, free | never out of blocks, nothing freed twice |
| lock-free queue | slots, two indices, counter | get/advance for write and for read | first in, first out, nothing torn, nothing lost |
| market data publisher | next number, send buffer | number, buffer, send, hand over | numbers without gaps, the synthesizer gets what the network gets |
| snapshot synthesizer | stored update per instrument and order id, last number, pool | store an update, publish a snapshot | its table is the book at its number |
| feed handler (client) | next expected number, recovery flag, two maps of queued messages, two sockets | read a datagram, queue, synchronise | outside recovery the client's view is right; recovery ends |
| order server | connections, client ids, numbers per client, inbound and outbound buffers, two threads | accept, read, reject, number, send, close | a client's requests and responses once, in order and to the right client |
| fifo sequencer | pending requests with their receive time | add, sort and publish | first come, first served, over all clients |
| order gateway (client) | its client id, two numbers, two buffers | send a request, read responses | the trade engine gets the responses to its requests, in order |
| client's market order book | copy of orders, levels and slots, best bid and offer | apply an update, clear | the copy is the exchange's book |
| order manager, risk manager, algorithms | an order per side with its state, next order id | move orders, apply a response | no order is lost or taken for dead while it works; both ends agree |
| position keeper | positions, profits | none: `add_fill` is commented out | outside the model |
| serialisers, logger, utilities | buffers, files | byte layout, I/O | outside the model |

### Where it is hard

Interleaving of two threads on a queue without a full check; a slot used after
its release; several updates of one request seen one at a time; lost, late,
reordered and duplicated datagrams with a recovery protocol on top; hand-made
circular lists under long sequences of adds, fills, cancels and modifications;
tables indexed by a remainder or by an id that only grows; liveness of the
matching loop and of recovery; two threads on a connection, its outbound buffer
and its wake-up signal; messages cut by reads; answers that cross with new
requests.  `PROJECT.json` has the list with lines.

## Modules

| module | models | extends / instantiates |
|---|---|---|
| `OrderBook` | one instrument's book and the engine loop around it | |
| `MCOrderBook` | a view for TLC | `OrderBook` |
| `OrderBookProofs` | proofs | `OrderBook`, `SequenceLemmas` |
| `Fifo` | what a queue promises (abstract) | |
| `LockFreeQueue` | the queue, thread by thread | refines `Fifo` |
| `LockFreeQueueProofs` | proofs | `LockFreeQueue`, `SequenceLemmas` |
| `MarketData` | publisher and synthesizer | |
| `Exchange` | book, publisher and synthesizer together | `OrderBook`, `MarketData` |
| `ExchangeProofs` | proofs for `Exchange` and `ClientBook` | both, `OrderBookProofs`, instances of `StreamLemmas` |
| `MCExchange` | a view for TLC | `Exchange` |
| `FeedHandler` | the client's feed handler | |
| `MarketFeed` | publisher, synthesizer, network, feed handler | `MarketData`, `FeedHandler` |
| `MCMarketFeed` | streams of updates for TLC | `MarketFeed` |
| `TcpStream` | messages as cells in a stream and an inbound buffer | |
| `OrderRequests` | gateway to engine: reads, checks, the sequencer | `TcpStream` |
| `OrderResponses` | engine and server to gateway: the server's two threads | `TcpStream` |
| `SequenceLemmas` | facts about sequences, division and least elements | |
| `StreamLemmas` | what a read callback decodes; folds as loops | `TcpStream`, `SequenceLemmas` |
| `OrderRequestsProofs`, `OrderResponsesProofs` | proofs | the model each is named after, instance of `StreamLemmas` |
| `MarketOrderBook` | the client's copy of a book, as functions on a record | |
| `ClientBook` | the book of the exchange and a client's copy | `OrderBook`, instance of `MarketOrderBook` |
| `MCClientBook` | a view for TLC | `ClientBook` |
| `Trading` | the client's trade engine against the book | `OrderBook` |
| `MCTrading` | market data, others' orders and a view for TLC | `Trading` |
| `TradingProofs` | proofs | `Trading`, `OrderBookProofs`, instance of `StreamLemmas` |

### OrderBook

Orders are named by their market order id, levels by the id of the order they
were created for; 0 is `nullptr`.  `rings[side]` is the circular list that
starts at `bid_` / `ask_`, `levels[l].queue` the one that starts at
`first_order_`, and `price_levels` and `client_orders` are the code's tables,
kept apart from the lists, because the code reaches a level through its slot
and the two may disagree.  `orders[m].home` is the level in whose list the
order really is.  `Cancel`, `Modify` and `Add` are the requests, whole; `Match`
is one iteration of `check_for_match` with `match()`, `Finish` the rest of
`add()`.  `responses` and `updates` are what the step gave to the message
handler.  `RingPosition` says where the walk of `add_price_level` ends,
including the last level it does not compare.

`fault` marks a step from which on the C++ program has undefined behaviour: a
removal that finds no level or the wrong one (`RemoveIsDefined`), or an
allocation without a free block (`HasRoom`).  A fault is the end of the
behaviour: nothing is claimed about what the program does then.

Bounds: `MaxMarketOrders` limits the ids handed out and so the length of a
behaviour; `ReuseLiveIds` says whether a client may use the id of an order it
still has resting.

### LockFreeQueue and Fifo

`BeginWrite`, `EndWrite`, `NextWriteIndex` are the writer's steps,
`GetNextReadElement`, `UseElement`, `NextReadIndex` and `UseReleased` the
reader's; a slot is `Torn` while it is written.  `NextWriteIndex` and
`NextReadIndex` are single steps: the index belongs to one thread and only the
counter is seen by the other.  `UseReleased` is the publisher's second use of an
element after `next_read_index()`; every other reader is the case
`ReadsAfterRelease = FALSE`.  `MaxBacklog` is how far the writer gets ahead: the
queue itself does not limit it.

### MarketData and Exchange

An update is a record, a message its number and the update, a datagram a
sequence of messages.  `Publish` is one iteration of the publisher's loop,
`SendData` the end of the loop; `AddToSnapshot` is one iteration of the
synthesizer's loop with all assertions of `add_to_snapshot` (`Accepts`; if one
fails, `failed` is set and the thread stops), `PublishSnapshot` the timer's
callback with all the partial snapshots it sends.  `Exchange` gives every step
of `OrderBook` the sending of its updates.

### FeedHandler and MarketFeed

`feed` is the object, `ReadMessage` an iteration of `read_data`'s loop with
everything it calls.  `MarketFeed` replaces the book by a stream of updates and
adds a network that loses, delays, reorders and duplicates incremental
datagrams, and may deliver any snapshot datagram that was ever sent, again and
late.  `view` is the map of orders the client's books get from the updates the
feed handler passes on.

### TcpStream, OrderRequests and OrderResponses

A message is `Parts` cells, and a read returns any number of the cells on their
way.  `Filled` is what `alloc_buffer` makes of it: the new cells lie over those
left from the read before.  Nothing ends there: `read_data` goes on with the rows
it finds.  A row that is as it was sent (`Whole`) deserialises to its message; in any
other one number and client id come from other bytes and may be anything
(`Readings`): right by chance or not, any client's or nobody's.  So a message that a
read has cut may be rejected, and may also be taken; `cut` names the connections
where it has happened.

`fault` ends a behaviour where the program aborts or leaves its arrays: an
eleventh connection, more pending requests than the array takes, a damaged client id
beyond the server's tables, a response for a connection that is not stored, a slot
behind the outbound buffer.

In `OrderRequests` everything the server does is one callback of the loop
thread, so `OnRead` is `on_read` with all of `read_data`, `add_request`
included, and `OnCheck` the sequencer's publication.  `Sortings` are all results
`std::sort` may leave: libstdc++ sorts up to 16 elements by insertion, which is
stable (`StableUpTo`), more than that is not.  `SendWrong` is a client that does
not count or states another's id.

In `OrderResponses` the loop thread and the response thread step one by one
where they share state.  `Accept` and `Store` are the two halves of
`handle_new_connection`; `PushIndex`, `Serialise` and `Notify` an iteration of
`process_responses_helper`, in the code's order: index, bytes, signal.
`WriteMessage` and `WriteToSocket` are the handler of the signal.  A slot that
is sent between its index and its bytes holds what was there before, or the new
number, or number and client id (`SlotReads`).

### MarketOrderBook and ClientBook

`MarketOrderBook` has the client's lists, tables and BBO, named as in
`OrderBook`; a name in `price_levels` that is no level is a pointer to a freed
one.  `ClientBook` feeds it with the updates of the exchange's book, with gaps
and snapshots in between; that the feed handler delivers just these is what
`MarketFeed` checks.

### Trading

`om` is `instrument_side_order_`, `to_exchange` and `to_me` the ways through
queues, gateway and network, first in, first out as `OrderRequests` and
`OrderResponses` justify as long as no read cuts a message.  The exchange is the whole `OrderBook`, with other
clients' new orders and cancels in between (their modifications, which may end in
a new order too, are left to the runs of `OrderBook`); what they may order is the constant
`OtherOrders`.  The best bid and offer an algorithm sees is an
input, since market data may be of any age.  `AtLeast` and `LargeTrade` compare
the features with the threshold by cross-multiplication.

## Runs

| run | module | expected | checks |
|---|---|---|---|
| `OrderBook_priority` | `MCOrderBook` | pass | `NoFault`, `BookSorted`, `Uncrossed`, `PriceTimePriority`, `RequestEnds` |
| `OrderBook_corrupt` | `MCOrderBook` | pass | `TypeOK`, `IndexSound`, `SlotsSound`, `Linked`, `Fresh`, `ArrivalOrder`, `PriorityOrder`, `TimePriority`, `IndexKept` |
| `OrderBook_unsorted` | `MCOrderBook` | violation | `PriceTimePriority` |
| `LockFreeQueue` | `LockFreeQueue` | pass | `TypeOK`, `SizeSound`, `CopiesAgree`, `ImplementsFifo` |
| `Exchange` | `MCExchange` | pass | `NothingLost`, `SynthesizerSound`, `NumbersAgree` |
| `MarketFeed` | `MCMarketFeed` | pass | `ViewCorrect`, `FirstRecoveryEnds` |
| `MarketFeed_again` | `MCMarketFeed` | violation | `RecoveryEnds` |
| `OrderRequests` | `OrderRequests` | pass | `TypeOK`, `FirstComeFirstServed`, `ExactlyOnce`, `RightIsTaken`, `RequestsPublished` |
| `OrderResponses` | `OrderResponses` | pass | `TypeOK`, `SocketMissing`, `WireSound`, `DeliveredInOrder`, `NoneStranded` |
| `ClientBook` | `MCClientBook` | pass | `CopyCorrect`, `BboSound`, `FailsOnlyAfterClear` |
| `ClientBook_clear` | `MCClientBook` | violation | `CopyUsable` |
| `Trading` | `MCTrading` | pass | `Tracked`, `Agreement`, `NewOrdersAnswered` |

What the newer properties say:

- `IndexKept`: a resting order its client can reach stays within reach until it
  leaves, or until another order of the same client and id comes or goes.
- `ExactlyOnce`, `FirstComeFirstServed`: numbers and sockets keep wrong requests
  out, and damaged ones from the numbers of others; the order of arrival survives
  batches.
- `RightIsTaken`: a client that counts right and whose messages came in one read each
  is never rejected, and the server has taken all it has read of it, whatever others
  send and however their messages are cut.  Without the condition on the reads this is
  false: one request that comes in two reads may be rejected.
- `NoneStranded`: no response waits without a signal set, a handler at work, or
  a response thread that has yet to signal.  One signal may stand for several.
- `WireSound`, `DeliveredInOrder`: whichever queue a response came from, it is
  numbered and delivered in order; the exception is a slot that is sent while it
  is written.  Once a message to a gateway was cut, only the numbers it passes on are
  right: client id and content may be damaged.
- `CopyCorrect`, `BboSound`: the copy equals the book, list by list; the BBO is
  right or, as long as no update came at the top of a non-empty side, absent.
- `Tracked`: every order that works or may still work is the one the order
  manager has for its side.  It holds although responses are applied without
  looking at their order id, because `cancel_order` keeps the order `LIVE` and a
  new order is sent only after the answer: the mutant that drops this breaks it.

**Bounds.**  `OrderBook_priority` has four orders at three prices in distinct
slots: three levels on a side, levels of several orders, fills that take
several orders, replacement by `modify`, quantity 0 left in the book by `modify`,
and reuse of live ids all occur.  Three
levels is as far as the code keeps its list sorted: the fourth is
`OrderBook_unsorted`, with the code's own 256 slots.  `OrderBook_corrupt` puts
four prices into two slots, so levels are pushed out of their slots and orders
join levels of other prices; its properties hold up to the fault.
The queue has a capacity of 4 and 9 writes, so the indices
wrap twice.  `Exchange` has more table entries than orders.  `MarketFeed` has two instruments, streams of two and
three updates, and one duplicate; losing any of the datagrams, a snapshot at
any number, and a recovery that must wait for a later snapshot all occur.
`OrderRequests` and `OrderResponses` have two clients and a third connection, one
more than the table takes, and messages of two cells, so that a read may cut one.
`OrderRequests` has batches of up to three requests at two times, with
`StableUpTo = 2` in place of 16, so that both kinds of sorting occur; a fourth
request, taken because its number was damaged into the right one, finds the array
full.  In `OrderResponses` only the client that trades gets messages in
two reads (`CutClients`; the theorems have no such bound).  It has outbound buffers
of three slots and up to four responses for a client, which reaches the overrun,
and `MaxBacklog = 1` response in a queue: the response thread takes one at a time
anyway.  `ClientBook` has one order more than the client's table takes and one
recovery.  In `Trading` up to three messages are on their way, so a cancel is sent
again before its answer comes, and crosses with a fill; `Reserved` keeps the
other clients from using up the market order ids, without which a bound of the
model and not the code would leave a request untaken.  The client's clip is 2 and
the others trade one unit inside the market (`SomeOrders`), so orders of the client
are filled in part; `Prices` reaches one tick beyond the quotes, because the market
maker quotes there (`TradingAssumption`).

`VIEW`s leave out what no guard and no later state depends on: the messages of
the last step, and in `Exchange` the network.  TLC evaluates action properties
on every step, also on those that lead to a state it has seen.

`CHECK_DEADLOCK FALSE` stands where a behaviour really ends: at a fault, at a
failed assertion of the synthesizer, or when the bound on writes, updates or
requests is reached.

**Fairness.**  The engine thread never blocks inside a request: weak fairness of
`Match` and `Finish`.  The threads of a queue run: a started write is finished
and the reader polls.  In `MarketFeed` the client's thread reads what it got
(weak); the exchange's loop and its timer run again and again, although the
client's reading interrupts them in the model (strong, `Exchange`); and the
network does not lose the newest complete snapshot every time it is sent, which
a client that listens needs (strong).  No incremental datagram is assumed to
arrive.  libuv runs check handlers in every turn of its loop (`OnCheck`, weak).
In `Trading` the engine and the trade engine poll their queues for ever
(`TakeRequest`, `GoOn` and `OnOrderUpdate`, weak).  `OrderResponses` assumes no
fairness: `NoneStranded` is the safety property behind delivery.

Every property of a passing run has a mutant of the model in `PROJECT.json`
that it refutes.  The mutants are the definitions marked as such in the modules.

## Findings

1. `add_price_level` does not compare the last of three or more levels
   (`order_book.hpp:119-123`): the list may become unsorted and a trade miss the
   best price (`OrderBook_unsorted`).
2. The snapshot socket is closed after the first recovery
   (`feed_handler.cpp:132,179`): a second one never ends (`MarketFeed_again`).
3. A CLEAR leaves the client's `price_levels_` pointing to freed levels
   (`market_order_book.cpp:46-57`): the snapshot that follows it is added to them
   (`ClientBook_clear`).

The models show more limits of the code, as the conditions under which their
properties hold:

- Prices 256 apart share a slot and only the side is compared
  (`order_book.hpp:70,75`): a removal goes to the wrong level or to none.
  `NoFault` holds for prices in distinct slots only; in the states of
  `OrderBook_corrupt` it does not.
- The publisher reads a queue element after releasing its slot
  (`market_data_publisher.cpp:54-58`).  `CopiesAgree` holds while the backlog
  (`MaxBacklog`) is below the capacity, not when it reaches it.
- The synthesizer's tables, and the client's, are indexed by an id that only
  grows (`snapshot_synthesizer.cpp:21`, `market_order_book.hpp:195`).
  `SynthesizerSound` and `FailsOnlyAfterClear` speak of ids within the table.
- `alloc_buffer` hands out the start of the inbound buffer also when a part of a
  message is left in it (`order_server.cpp:50`, `order_gateway.cpp:21`), and the rest
  of the message overwrites that part.  A request that was in order may then be
  answered `INVALID_REQUEST`, as may all that follow it, and a gateway may drop
  responses or pass on damaged ones: the conditions on `cut` in `RightIsTaken` and
  `DeliveredInOrder`.
- The connection is announced before it is stored (`order_server.cpp:35,39`), and
  a rejection goes to whatever client id the request states
  (`order_server.cpp:99`): `SocketMissing` says that these two are the only ways
  to a missing socket.
- A slot is queued before it is written (`order_server.hpp:62-65`):
  `WireSound`'s exception; the gateway may then wait for a number that never
  comes.
- The outbound index starts again one slot too late (`order_server.hpp:58`): the
  fault "overrun".

## Proofs

Every theorem is for all values of the constants that the named assumptions of
the models allow (numbers of the right kind, and what `TradingAssumption` says of
ids and quotes); a further hypothesis is part of the theorem's statement and listed
here.

### The order book (`OrderBookProofs`)

| theorem | says |
|---|---|
| `Invariance` | `Spec => []IInv` |
| `TypeCorrect` | `Spec => []TypeOK` |
| `IndexIsSound`, `BookIsLinked`, `SlotsAreSound`, `NamesAreFresh` | `Spec => []IndexSound`, `[]Linked`, `[]SlotsSound`, `[]Fresh` |
| `LevelsAreFifo`, `PrioritiesAreOrdered` | `Spec => []ArrivalOrder`, `[]PriorityOrder` |
| `TradesAreFifo`, `IndexIsKept` | `Spec => TimePriority`, `IndexKept` |
| `BookStaysTidy` | `Spec /\ []FewLevels => []Tidy` |
| `BookIsSorted`, `BookIsUncrossed`, `BookIsFaultless` | `Spec /\ []FewLevels => []BookSorted`, `[]Uncrossed`, `[]NoFault` |
| `TradesFollowPriceAndTime` | `Spec /\ []FewLevels => PriceTimePriority` |

`IInv == TypeOK /\ Fresh /\ BookInv`, with `BookInv` the types of the book,
`Linked`, `SlotsSound`, `ArrivalOrder` and `IndexSound`.  None of the parts is
inductive alone.  A removal keeps `IndexSound` only because the entry it clears
is that of the order it removes; it keeps `SlotsSound` only because a level is
in one slot, that of its price; `ArrivalOrder` survives an add only because of
`Fresh`: the new id is above all live ones.  `Linked` needs that lists have no
repetitions, which follows from `ArrivalOrder` for orders and is a part of it
for levels.  These theorems speak of all behaviours up to a fault, so of a book
whose slots collide too.

The argument goes by the three changes of the book, one lemma each:
`RemoveKeepsBook`, `AddKeepsBook` and `QtyKeepsBook`; each action's lemma
(`AddInv`, `CancelInv`, `ModifyInv`, `MatchInv`, `FinishInv`) combines them with
what it does to the control variables.  `TradesAreFifo` follows from
`FirstOrderOldest`: the first order of a level is its oldest.

The last two rows need two hypotheses, because without them the code is wrong:
`Unshared`, no two prices share a slot of `price_levels_`, and `FewLevels`, no
side ever has more than three levels.  The second is exactly where
`add_price_level` stops comparing (finding 1, and run `OrderBook_unsorted` with a
fourth level); for the first see `OrderBook_corrupt`.  `BookIsFaultless` asks
also that the pools have a block for every id (`MaxMarketOrders <=
MaxNumOrders`).  Run `OrderBook_priority` has all three.  Their invariant is
`Tidy`: a level is found through its slot, orders stand at the price of their
level, the sides are sorted, and no bid level meets an ask level.  `Apart` is
what matching leaves behind: `Finish` adds an order only when the best level of
the other side does not match, and in a sorted side then none does.

### The queue (`LockFreeQueueProofs`)

| theorem | hypothesis | says |
|---|---|---|
| `QueueInvariance`, `QueueTypeCorrect`, `QueueSizeSound` | `MaxBacklog <= Capacity` | `Spec => []IInv`, `[]TypeOK`, `[]SizeSound` |
| `QueueIsFifo` | `MaxBacklog <= Capacity` | `Spec => F!Init /\ [][F!Next]_(F!vars)` |
| `QueueCopiesAgree` | `MaxBacklog < Capacity` | `Spec => []CopiesAgree` |

The code has no check for a full queue, so how far the writer gets ahead is a
hypothesis.  `IInv` counts what was published and released and says that the
slots between the indices hold just these numbers; an index is a count modulo
the capacity.  The use of an element after `next_read_index()` needs one free slot
more (`CopyInv`): at `MaxBacklog = Capacity` the writer may be in that very slot.
`QueueIsFifo` is the refinement of run `LockFreeQueue` step by step; its
fairness is left to TLC.

### The order server's requests (`OrderRequestsProofs`)

| theorem | says |
|---|---|
| `RequestsInvariance`, `RequestsTypeCorrect` | `Spec => []IInv`, `[]TypeOK` |
| `RequestsAreFirstComeFirstServed` | `Spec => []FirstComeFirstServed` |
| `RequestsExactlyOnce` | `Spec => []ExactlyOnce` |
| `RequestsRightIsTaken` | `Spec => []RightIsTaken` |

The invariant: `Numbered`, of every client the engine has the numbers 1 to n and
the sequencer those from n + 1 to below the expected one, each once and from that
client's connection; `Lined`, the pending requests stand in the order of arrival
and of the clock, behind all that was published; and `InStep`: from a client that
counts right and whose messages came in one read each nothing was rejected, some
number q of cells of its stream has been read, the inbound buffer has `q % Parts`
of them, the server expects `(q \div Parts) + 1`, and what is on its way are the
cells behind q.  `ReadWhole` is why: if nothing was left in the buffer, the rows
are whole and hold the messages sent next (`ReadAll`).  Any other read may end in any of
the states the damaged rows allow, and each of these keeps the other parts
(`ReadAny`, `ReadLoop`).
`ExactlyOnce` alone is not inductive: it says nothing of what is pending.

### The order server's responses (`OrderResponsesProofs`)

| theorem | says |
|---|---|
| `ResponsesInvariance`, `ResponsesTypeCorrect` | `Spec => []IInv`, `[]TypeOK` |
| `NoResponseStranded` | `Spec => []NoneStranded` |
| `SocketMissingCauses` | `Spec => []SocketMissing` |
| `WireIsSound`, `ResponsesDeliveredInOrder` | `Spec => []WireSound`, `[]DeliveredInOrder` |

The invariant places every number of a client: sent, or in the slots of the
outbound buffer between the two indices (`Placed`, `Sound`); it has a signal for
whatever waits (`Signalled`); it relates announced, stored and answered
connections (`Connected`); and it follows the stream to the gateway cell by cell
(`Streamed`), as in the requests: the gateway passes on consecutive numbers
whatever it reads (`Counted`), and while no message was cut just what was sent
(`Passed`).

### Publisher and synthesizer (`ExchangeProofs`)

| theorem | says |
|---|---|
| `ExchangeNumbersAgree` | `XSpec => []NumbersAgree` |
| `ExchangeNothingLost` | `XSpec => []NothingLost` |
| `ExchangeSynthesizerSound` | `XSpec => []SynthesizerSound`, if `MaxMarketOrders < TableSize` |

The invariant is `IInv /\ NumbersInv /\ LostInv`.  `NumbersInv` is `NumbersAgree`
with the types of the queue and the buffer: it speaks of every place a number can
be, so the synthesizer's own check `seq = last + 1` cannot fail.  `LostInv` follows
the orders: the updates on their way fit one after the other (`Fits`: an add finds
no entry, a modification or cancel one of the same side) and lead from the
synthesizer's table to a table that shows the book (`Reaches`, `Shows`).
`NothingLost` alone is not inductive, because a fold over updates that do not fit
may still end at the right table, by chance.  The bridge to the book is `StepTold`:
whatever a step of `OrderBook` does, its `updates`, in their order, tell just that
(`Told`): at most one order comes, goes or changes its quantity in a step, and the
update says which and how.  It rests on the book's `IInv`.  The hypothesis on `TableSize` is
the one the code needs (`snapshot_synthesizer.cpp:21`): it has one entry for each
id the book ever gives out.

### The client's copy (`ExchangeProofs`)

| theorem | says |
|---|---|
| `ClientFollows` | `CBSpec /\ []FewLevels => []Follows` |
| `ClientCopiesUntilRecovery` | `CBSpec /\ []FewLevels => [](recoveries = 0 => CopyCorrect)` |
| `ClientQuotesSoundly` | `CBSpec /\ []FewLevels => []BboSound` |
| `ClientFailsOnlyAfterClear` | `CBSpec /\ []FewLevels => []FailsOnlyAfterClear` |

The hypotheses are `Unshared` and `FewLevels`, those under which the book stays
tidy: the client has the same table of slots and the same `add_price_level`, and in a
book with shared slots its removals fail as the book's do.  Run `ClientBook` meets
both: its three prices have slots of their own.

The invariant is `IInv /\ Tidy /\ Follows`.  While the client gets the updates,
`Follows` says that its copy is the book's orders, levels, rings and slots
(`Copies`): `BboSound` and `FailsOnlyAfterClear` say nothing of the lists, so
they do not show that the next update finds its order or its level.  A client
that has missed updates applies no more until it recovers, and keeps its
quotes.  One update makes the change of the book that it reports (`CopyModifies`,
`CopyRemoves`, `CopyAdds`), and `StepUpdates` gives the updates of every step: none, one,
or a trade and what it does to the resting order.  The quote of a side that
`update_bbo` skips still stands, because an update at a price worse than the best
one is not at the best level (`BestLevel`, `QuoteKept`, `BestStands`).

### The trade engine (`TradingProofs`)

| theorem | says |
|---|---|
| `TradingTracked` | `TSpec => []Tracked` |
| `TradingAgreement` | `TSpec => []Agreement` |

Neither property is inductive: each speaks of the order manager and the exchange
and not of the answers between them.  The invariant (`Agreed`) says for each side
that there is one `e`, what is left of the client's one unfinished order or
quantity 0, such that

- `Standing`: `e` rests in the book, or is in `check_for_match`, or is a request on
  its way, and it is in one of these places only;
- `Answers`: with the answers still on their way the order manager has just that
  order.  While something is left of it, no answer on the way ends it, and the last
  fill on the way says what is left; when nothing is left and the order manager
  still has it open, exactly one answer on the way ends it, and that is the last
  one for the side.

The second part is why a response may be applied without looking at its order id:
the first answer that ends an order is followed by none for the same side, and the
order manager sends the next new order only after it.  A `CANCEL_REJECTED` names no
valid side and changes nothing.  Each of the exchange's steps changes `Standing`
and appends to the answers (`AddMineAgreed`, `AddOtherAgreed`, `CancelAgreed`,
`MatchAgreed`, `FinishAgreed`); each of the trade engine's moves an order
(`NewMovable` and its neighbours) or takes the first answer.  The theorems
hold up to a fault of the book and for every `TradingAssumption`: order ids are
counted from 1, and the quotes an algorithm may send are among `Prices`.

### Folds and streams

A read callback is a `FoldLeft` over the messages it decodes.  What a fold
computes is not proved by induction (see below) but as a loop: `FoldSteps` gives
the states `h[0], h[1], ...` the fold runs through, and a property of all of them
follows by looking at the least index without it (`LeastElement`).
The fold runs over sets of states, because a damaged row may be read in several ways.
`ReadWhole` says that a read on an empty buffer yields the messages sent next, as
whole rows.

### What is only model-checked

Liveness under fairness (`RequestEnds`, the fairness part of `ImplementsFifo`,
`FirstRecoveryEnds`, `RequestsPublished`, `NewOrdersAnswered`): the prover has no
rules for `ENABLED`.  Of the safety properties:

- `ViewCorrect` of `MarketFeed`.  The view is a fold of updates the feed handler
  merges and sorts out of two queues of numbered messages; its steps are built with
  `SelectSeq`, `FlattenSeq`, `:>` and `@@`, of which the provers know nothing, and
  what the recursive ones compute is induction over data.
- `CopyCorrect` of `ClientBook` after a recovery.  A rebuilt copy is a fold over the
  snapshot's messages, and its levels have other names than the book's; that it
  ends with the same lists is induction over the orders sent, with sorted lists to
  compare.

## Not modelled

Byte layouts (a message is a record or a row of cells; only how many fit into a
datagram, and where a read cuts, matters); logging and time measurement;
start-up, connecting, shutdown and signals; `to_string` and its validity check,
which `BookSorted` states; the free list inside the memory pools (only how many
blocks are in use); the position keeper, whose `add_fill` is commented out, so
that positions and profits stay 0; the random requests of `example/main.cpp`,
which are requests like any others; floating-point rounding of the features; the
width of integers: ids and sequence numbers have 64 bits, or 32 for the server's
numbers per client, and are not run to their end, and quantities only shrink.
Requests sent with a client or order id beyond the tables are left out: they index
plain arrays, or `.at()` throws in a `noexcept` function.  A client id that becomes
such a one because its message was cut is the fault "no such client".  UDP errors, and libuv's
queues of pending sends and writes with the buffers they keep, are external.

## Plan

Done, in the order of importance: the order book with its first theorems; the
queue and its refinement; publisher and synthesizer with the book; the feed
handler with the network; order server, sequencer and gateway; the client's book;
the trade engine with its order manager.

Proved since: all safety properties of the order book, of the queue, of the order
server's two paths, of publisher and synthesizer with the book, and of the trade
engine; of the client's copy all but what a recovery leaves.  Left to prove:
`CopyCorrect` after a recovery (`ClientBook`), and the feed handler (`MarketFeed`).
