------------------------------ MODULE MarketData ------------------------------
(***************************************************************************)
(* Market data on the exchange's side: the market_data_publisher thread    *)
(* numbers the updates of the matching engine, sends them in datagrams and *)
(* hands them to the snapshot_synthesizer thread, which keeps what rests   *)
(* in every book and publishes it from time to time                        *)
(* (src/src/market_data/market_data_publisher.cpp,                         *)
(* snapshot_synthesizer.cpp).                                              *)
(*                                                                         *)
(* The two queues are first in, first out (see LockFreeQueue).  An update  *)
(* is a record with the fields type, instrument, moid (order_id_), side,   *)
(* price, qty and priority; what a client gets is a message [seq, upd].    *)
(* uv_udp_send and the network are external: a datagram that does not fit  *)
(* is not sent, and publishing is all that is said here about the others.  *)
(*                                                                         *)
(* Each loop iteration is a step of its own.  A snapshot may therefore     *)
(* fall between two elements that were in the queue together, where the    *)
(* code would drain the queue first; the same steps are reached when the   *)
(* second element comes after the queue was found empty.                   *)
(***************************************************************************)
EXTENDS Integers, FiniteSets, SequencesExt

CONSTANTS
    NumInstruments, \* MAX_NUM_INSTRUMENTS
    TableSize,      \* MAX_NUM_ORDERS, per instrument; the pool has as many
    MaxDatagram     \* messages that fit into one datagram

VARIABLES
    market_updates,        \* outgoing_market_update_queue_
    next_inc_seq_num,
    buffer,                \* serialised and not yet sent
    snapshot_updates,      \* snapshot_market_update_queue_
    incrementals,          \* incremental datagrams in the network
    updates_by_instrument, \* instrument -> order id -> the stored update
    last_inc_seq_num,
    snapshots,             \* snapshot datagrams in the network
    failed                 \* an assertion or an .at() of add_to_snapshot failed

publisher == <<next_inc_seq_num, buffer>>
synthesizer == <<updates_by_instrument, last_inc_seq_num, failed>>
mdvars == <<market_updates, publisher, snapshot_updates, incrementals,
            synthesizer, snapshots>>

Instruments == 0 .. NumInstruments - 1
None == -1
Nobody(type, instrument, moid) ==
    [type |-> type, instrument |-> instrument, moid |-> moid, side |-> "INVALID",
     price |-> None, qty |-> None, priority |-> None]

MDInit ==
    /\ market_updates = <<>> /\ snapshot_updates = <<>>
    /\ next_inc_seq_num = 1
    /\ buffer = <<>>
    /\ incrementals = {} /\ snapshots = {}
    /\ updates_by_instrument = [i \in Instruments |-> <<>>]
    /\ last_inc_seq_num = 0
    /\ failed = FALSE

-----------------------------------------------------------------------------
\* The publisher.

\* Mutants: the number is not advanced; the synthesizer gets no trades.
PublishSameNumber ==
    /\ market_updates # <<>>
    /\ LET m == [seq |-> next_inc_seq_num, upd |-> Head(market_updates)]
       IN  /\ buffer' = Append(buffer, m)
           /\ snapshot_updates' = Append(snapshot_updates, m)
    /\ market_updates' = Tail(market_updates)
    /\ UNCHANGED <<next_inc_seq_num, incrementals, synthesizer, snapshots>>

PublishWithoutTrades ==
    /\ market_updates # <<>>
    /\ LET m == [seq |-> next_inc_seq_num, upd |-> Head(market_updates)]
       IN  /\ buffer' = Append(buffer, m)
           /\ snapshot_updates' = IF m.upd.type = "TRADE" THEN snapshot_updates
                                  ELSE Append(snapshot_updates, m)
    /\ market_updates' = Tail(market_updates)
    /\ next_inc_seq_num' = next_inc_seq_num + 1
    /\ UNCHANGED <<incrementals, synthesizer, snapshots>>

\* One iteration of process_and_publish's loop.
Publish ==
    /\ market_updates # <<>>
    /\ LET m == [seq |-> next_inc_seq_num, upd |-> Head(market_updates)]
       IN  /\ buffer' = Append(buffer, m)
           /\ snapshot_updates' = Append(snapshot_updates, m)
    /\ market_updates' = Tail(market_updates)
    /\ next_inc_seq_num' = next_inc_seq_num + 1
    /\ UNCHANGED <<incrementals, synthesizer, snapshots>>

\* The loop has ended: send_data, and the buffer is empty again.
SendData ==
    /\ market_updates = <<>> /\ buffer # <<>>
    /\ incrementals' = incrementals \cup
         (IF Len(buffer) <= MaxDatagram THEN {buffer} ELSE {})
    /\ buffer' = <<>>
    /\ UNCHANGED <<market_updates, next_inc_seq_num, snapshot_updates,
                   synthesizer, snapshots>>

-----------------------------------------------------------------------------
\* The synthesizer.

\* Can add_to_snapshot run on u without failing?  An order id must be in the
\* range of the vector, and the assertions must hold.
Accepts(table, u) ==
    LET stored == table[u.instrument]
        used   == UNION {{i} \X DOMAIN table[i] : i \in Instruments}
    IN  /\ u.type = "ADD" =>
             /\ u.moid \in 0 .. TableSize - 1
             /\ u.moid \notin DOMAIN stored
             /\ Cardinality(used) < TableSize
        /\ u.type \in {"MODIFY", "CANCEL"} =>
             /\ u.moid \in DOMAIN stored
             /\ stored[u.moid].side = u.side

\* The table f with v at index x.
With(f, x, v) == [y \in DOMAIN f \cup {x} |-> IF y = x THEN v ELSE f[y]]

\* Mutant: a modification changes the price only.
StoredAfterPriceOnly(stored, u) ==
    CASE u.type = "ADD"    -> With(stored, u.moid, u)
      [] u.type = "MODIFY" -> [stored EXCEPT ![u.moid].price = u.price]
      [] u.type = "CANCEL" -> Restrict(stored, DOMAIN stored \ {u.moid})
      [] OTHER             -> stored

\* The entries of u's instrument after add_to_snapshot.
StoredAfter(stored, u) ==
    CASE u.type = "ADD"    -> With(stored, u.moid, u)
      [] u.type = "MODIFY" -> [stored EXCEPT ![u.moid].qty = u.qty,
                                             ![u.moid].price = u.price]
      [] u.type = "CANCEL" -> Restrict(stored, DOMAIN stored \ {u.moid})
      [] OTHER             -> stored

\* One iteration of process_client_market_update's loop.
AddToSnapshot ==
    /\ ~failed
    /\ snapshot_updates # <<>>
    /\ LET m == Head(snapshot_updates)
           i == m.upd.instrument
       IN  \/ /\ Accepts(updates_by_instrument, m.upd)
              /\ m.seq = last_inc_seq_num + 1
              /\ updates_by_instrument' =
                   [updates_by_instrument EXCEPT ![i] = StoredAfter(@, m.upd)]
              /\ last_inc_seq_num' = m.seq
              /\ snapshot_updates' = Tail(snapshot_updates)
              /\ UNCHANGED failed
           \/ /\ \/ ~Accepts(updates_by_instrument, m.upd)
                 \/ m.seq # last_inc_seq_num + 1
              /\ failed' = TRUE
              /\ UNCHANGED <<updates_by_instrument, last_inc_seq_num,
                             snapshot_updates>>
    /\ UNCHANGED <<market_updates, publisher, incrementals, snapshots>>

\* The snapshot: its start, then for every instrument CLEAR and what rests in
\* the order of the ids, and its end.  The messages are numbered from 0 on,
\* and the first and the last carry last_inc_seq_num_ as their order id.
SnapshotMessages ==
    LET table(i) == updates_by_instrument[i]
        ids(i)  == SelectSeq([k \in 1 .. TableSize |-> k - 1],
                             LAMBDA id : id \in DOMAIN table(i))
        one(i)  == <<Nobody("CLEAR", i, None)>>
                     \o [k \in DOMAIN ids(i) |-> table(i)[ids(i)[k]]]
        body == FlattenSeq([k \in 1 .. NumInstruments |-> one(k - 1)])
        all  == <<Nobody("SNAPSHOT_START", None, last_inc_seq_num)>> \o body
                  \o <<Nobody("SNAPSHOT_END", None, last_inc_seq_num)>>
    IN  [k \in DOMAIN all |-> [seq |-> k - 1, upd |-> all[k]]]

\* publish_snapshot sends everything that is in the buffer after each order it
\* adds and once more at the end: growing beginnings of one message sequence.
PublishSnapshot ==
    /\ ~failed
    /\ LET all  == SnapshotMessages
           cuts == {k \in DOMAIN all : all[k].upd.type \in {"ADD", "SNAPSHOT_END"}}
       IN  snapshots' = snapshots \cup
             {SubSeq(all, 1, k) : k \in {c \in cuts : c <= MaxDatagram}}
    /\ UNCHANGED <<market_updates, publisher, snapshot_updates, incrementals,
                   synthesizer>>

MDNext == Publish \/ SendData \/ AddToSnapshot \/ PublishSnapshot
=============================================================================
