------------------------------- MODULE Exchange -------------------------------
(***************************************************************************)
(* The matching engine thread with the order book of one instrument, the   *)
(* market data publisher and the snapshot synthesizer, composed: every     *)
(* update a request makes goes through the market update queue             *)
(* (message_handler::send_market_update).                                  *)
(*                                                                         *)
(* The updates of one step of the book enter the queue together; the       *)
(* publisher takes them one at a time, so every interleaving in which it   *)
(* sees only the first of them occurs.                                     *)
(***************************************************************************)
EXTENDS OrderBook

CONSTANTS
    NumInstruments, TableSize, MaxDatagram,
    Instrument,      \* the instrument of this book
    MaxUpdates       \* bound on the number of market updates

ASSUME ExchangeAssumption ==
    /\ NumInstruments \in Nat /\ Instrument \in 0 .. NumInstruments - 1
    /\ TableSize \in Nat /\ MaxDatagram \in Nat /\ MaxUpdates \in Nat

VARIABLES
    market_updates, next_inc_seq_num, buffer, snapshot_updates, incrementals,
    updates_by_instrument, last_inc_seq_num, snapshots, failed

MD == INSTANCE MarketData

xvars == <<vars, market_updates, next_inc_seq_num, buffer, snapshot_updates,
           incrementals, updates_by_instrument, last_inc_seq_num, snapshots,
           failed>>

XInit == Init /\ MD!MDInit

\* The message for an update of this book.
MarketUpdate(u) ==
    [type |-> u.type, instrument |-> Instrument, moid |-> u.moid, side |-> u.side,
     price |-> u.price, qty |-> u.qty, priority |-> u.priority]

\* send_market_update for every update of the step.
SendMarketUpdates ==
    market_updates' = market_updates \o [k \in DOMAIN updates' |-> MarketUpdate(updates'[k])]

Engine ==
    /\ next_inc_seq_num + Len(market_updates) <= MaxUpdates
    /\ Next
    /\ SendMarketUpdates
    /\ UNCHANGED <<next_inc_seq_num, buffer, snapshot_updates, incrementals,
                   updates_by_instrument, last_inc_seq_num, snapshots, failed>>

Publisher == (MD!Publish \/ MD!SendData) /\ UNCHANGED vars
Synthesizer == (MD!AddToSnapshot \/ MD!PublishSnapshot) /\ UNCHANGED vars

XNext == Engine \/ Publisher \/ Synthesizer

XSpec == XInit /\ [][XNext]_xvars

-----------------------------------------------------------------------------
\* Properties.

\* What the synthesizer would store if it took all updates that are on the way.
Upcoming ==
    LET pending == [k \in DOMAIN snapshot_updates |-> snapshot_updates[k].upd]
                     \o market_updates
    IN  FoldLeft(MD!StoredAfter, updates_by_instrument[Instrument], pending)

\* No add, modify or cancel that a request makes is lost, reordered or wrong on
\* its way: the synthesizer's entries, brought up to date with the updates in
\* the two queues, are exactly the orders that rest in the book.
NothingLost ==
    (~fault /\ ~failed) =>
       /\ DOMAIN Upcoming = DOMAIN orders
       /\ \A m \in DOMAIN orders :
             LET u == Upcoming[m]
                 o == orders[m]
             IN  <<u.side, u.price, u.qty, u.priority>>
                   = <<o.side, o.price, o.qty, o.priority>>

\* No assertion of add_to_snapshot fails, and no .at() throws.
SynthesizerSound == ~failed

\* The number of the next incremental message is one more than the number of
\* the last one that is sent, buffered, or on its way to the synthesizer.
NumbersAgree ==
    /\ next_inc_seq_num = last_inc_seq_num + Len(snapshot_updates) + 1
    /\ \A k \in DOMAIN snapshot_updates :
          snapshot_updates[k].seq = last_inc_seq_num + k
    /\ \A k \in DOMAIN buffer :
          buffer[k].seq = next_inc_seq_num - Len(buffer) + k - 1
=============================================================================
