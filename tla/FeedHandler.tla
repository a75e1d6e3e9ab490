----------------------------- MODULE FeedHandler -----------------------------
(***************************************************************************)
(* The client's market data consumer: kse::example::market_data::          *)
(* feed_handler (src/example/feed_handler/feed_handler.cpp).  One libuv    *)
(* thread reads incremental and snapshot datagrams; a gap in the sequence  *)
(* numbers starts a recovery, which ends when a complete snapshot and the  *)
(* incremental messages queued meanwhile fit together.                     *)
(*                                                                         *)
(* The members of the object are the fields of the record `feed'.  Its     *)
(* field `out' holds what the message that was read last has put into      *)
(* incoming_updates_.  `listening' tells whether the snapshot socket was   *)
(* "never" started, is "open", or was "closed": after uv_close the handle  *)
(* has lost its port and its group, and uv_udp_recv_start on it brings no  *)
(* snapshot any more.                                                      *)
(***************************************************************************)
EXTENDS Integers, FiniteSets, SequencesExt

VARIABLES
    feed,
    inbox,            \* messages of the datagram that are still to be read
    from_snapshot     \* does it come from the snapshot socket?

FeedInit ==
    /\ feed = [next_expected_seq |-> 1, in_recovery |-> FALSE,
               snapshot_queued |-> <<>>, incremental_queued |-> <<>>,
               listening |-> "never", out |-> <<>>]
    /\ inbox = <<>> /\ from_snapshot = FALSE

\* The first number from n on that is not queued.
FirstMissing(n, queued) ==
    CHOOSE s \in n .. n + Cardinality(DOMAIN queued) :
       s \notin DOMAIN queued /\ \A t \in n .. s - 1 : t \in DOMAIN queued

\* Mutant: any queued message counts as one behind a gap.
HasGapAny(next, queued) == DOMAIN queued # {}

\* Is a message queued behind the first one that is missing?
HasGap(next, queued) == \E s \in DOMAIN queued : s > next

\* sync_snapshot_with_incremental: nothing to do, a snapshot that has no start
\* or has a gap, one that has no end yet, one that does not reach the queued
\* incremental messages, and success.
SyncSnapshotWithIncremental(h) ==
    LET snap     == h.snapshot_queued
        n        == Cardinality(DOMAIN snap)
        complete == DOMAIN snap = 0 .. n - 1
        last     == snap[n - 1]
        inc      == h.incremental_queued
        start    == last.moid + 1
        next     == FirstMissing(start, inc)
        resting  == SelectSeq([s \in 1 .. n - 1 |-> snap[s]],
                              LAMBDA u : u.type # "SNAPSHOT_END")
        missed   == [k \in 1 .. next - start |-> inc[start + k - 1]]
    IN  IF n = 0 THEN h
        ELSE IF ~complete THEN [h EXCEPT !.snapshot_queued = <<>>]
        ELSE IF last.type # "SNAPSHOT_END" THEN h
        ELSE IF HasGap(next, inc)
        THEN [h EXCEPT !.next_expected_seq = next, !.snapshot_queued = <<>>]
        ELSE [h EXCEPT !.next_expected_seq = next,
                       !.out = @ \o resting \o missed,
                       !.snapshot_queued = <<>>, !.incremental_queued = <<>>,
                       !.in_recovery = FALSE, !.listening = "closed"]

\* queue_message: a snapshot message that is queued already starts a new
\* collection, an incremental one that is queued already is kept.
QueueMessage(h, is_snapshot, m) ==
    LET entry == m.seq :> m.upd
        old   == IF m.seq \in DOMAIN h.snapshot_queued THEN <<>>
                 ELSE h.snapshot_queued
    IN  SyncSnapshotWithIncremental(
          IF is_snapshot
          THEN [h EXCEPT !.snapshot_queued = entry @@ old]
          ELSE [h EXCEPT !.incremental_queued = @ @@ entry])

\* Recovery begins: both queues are emptied, the snapshot socket is started.
StartRecovery(h) ==
    [h EXCEPT !.in_recovery = TRUE,
              !.snapshot_queued = <<>>, !.incremental_queued = <<>>,
              !.listening = IF @ = "never" THEN "open" ELSE @]

\* Mutant: a message that was lost is not noticed.
InSequenceOrLater(h, m) == m.seq >= h.next_expected_seq

InSequence(h, m) == m.seq = h.next_expected_seq

\* One message in read_data's loop.
ReadMessage(h, is_snapshot, m) ==
    IF h.in_recovery THEN QueueMessage(h, is_snapshot, m)
    ELSE IF ~InSequence(h, m) THEN QueueMessage(StartRecovery(h), is_snapshot, m)
    ELSE IF is_snapshot THEN h
    ELSE [h EXCEPT !.next_expected_seq = @ + 1, !.out = Append(@, m.upd)]

\* on_read: a datagram has come in from one of the sockets.
OnRead(is_snapshot, datagram) ==
    /\ inbox = <<>>
    /\ inbox' = datagram
    /\ from_snapshot' = is_snapshot

\* One iteration of read_data's loop over the messages of the datagram.
ReadData ==
    /\ inbox # <<>>
    /\ feed' = ReadMessage([feed EXCEPT !.out = <<>>], from_snapshot, Head(inbox))
    /\ inbox' = Tail(inbox)
    /\ UNCHANGED from_snapshot
=============================================================================
