------------------------------ MODULE MarketFeed ------------------------------
(***************************************************************************)
(* Market data from end to end: a source of updates in place of the        *)
(* matching engine, the exchange's publisher and synthesizer, a network    *)
(* that loses, delays, duplicates and reorders datagrams, and a client's   *)
(* feed handler with the view of the books that its updates add up to.     *)
(***************************************************************************)
EXTENDS MarketData, FeedHandler

CONSTANTS
    Streams,          \* the sequences of updates the books may make
    MaxDuplicates     \* bound on the number of incremental duplicates

ASSUME FeedAssumption == MaxDuplicates \in Nat

VARIABLES
    log,              \* the updates the books are going to make
    made,             \* how many of them they have made
    duplicates,       \* incremental datagrams received and still in the network
    view              \* what the client knows: instrument -> order id -> order

client == <<feed, inbox, from_snapshot, view>>
fvars == <<mdvars, client, log, made, duplicates>>

Empty == [i \in Instruments |-> <<>>]

\* What a receiver of update u makes of the books it knows.
Apply(books, u) ==
    CASE u.type = "CLEAR" -> [books EXCEPT ![u.instrument] = <<>>]
      [] u.type \in {"ADD", "MODIFY", "CANCEL"} ->
           [books EXCEPT ![u.instrument] = StoredAfter(@, u)]
      [] OTHER -> books

\* The books after the first n updates.
After(n) == FoldLeft(Apply, Empty, SubSeq(log, 1, n))

FInit ==
    /\ MDInit /\ FeedInit
    /\ log \in Streams /\ made = 0 /\ duplicates = 0 /\ view = Empty

\* The matching engine's next update.
Source ==
    /\ inbox = <<>> /\ made < Len(log)
    /\ made' = made + 1
    /\ market_updates' = Append(market_updates, log[made'])
    /\ UNCHANGED <<publisher, snapshot_updates, incrementals, synthesizer,
                   snapshots, client, log, duplicates>>

\* A datagram from the incremental socket, which the network may keep a copy of.
Receive(d) ==
    /\ OnRead(FALSE, d)
    /\ \/ incrementals' = incrementals \ {d} /\ UNCHANGED duplicates
       \/ /\ duplicates < MaxDuplicates
          /\ duplicates' = duplicates + 1
          /\ UNCHANGED incrementals
    /\ UNCHANGED <<market_updates, publisher, snapshot_updates, synthesizer,
                   snapshots, feed, view, log, made>>

Lose(d) ==
    /\ inbox = <<>>
    /\ incrementals' = incrementals \ {d}
    /\ UNCHANGED <<market_updates, publisher, snapshot_updates, synthesizer,
                   snapshots, client, log, made, duplicates>>

\* A snapshot datagram may be read again, and long after it was sent: the
\* socket is bound and in the group before it is started.
ReceiveSnapshot(d) ==
    /\ feed.listening = "open"
    /\ OnRead(TRUE, d)
    /\ UNCHANGED <<mdvars, feed, view, log, made, duplicates>>

Network ==
    \/ \E d \in incrementals : Receive(d) \/ Lose(d)
    \/ \E d \in snapshots : ReceiveSnapshot(d)

\* The client's thread reads the next message of the datagram.
Read ==
    /\ ReadData
    /\ view' = FoldLeft(Apply, view, feed'.out)
    /\ UNCHANGED <<mdvars, log, made, duplicates>>

\* A step of the publisher or of the synthesizer.  No other thread sees what
\* the client is reading, and it sees none of their state: the messages of a
\* datagram are read without steps of others between.
Step(action) == inbox = <<>> /\ action /\ UNCHANGED <<client, log, made, duplicates>>

Exchange == Step(Publish) \/ Step(SendData) \/ Step(AddToSnapshot) \/ Step(PublishSnapshot)

FNext == Source \/ Exchange \/ Network \/ Read

\* The complete snapshots that were sent last.
Newest ==
    {d \in snapshots :
       /\ Last(d).upd.type = "SNAPSHOT_END"
       /\ \A e \in snapshots : Last(e).upd.type = "SNAPSHOT_END"
                                 => Last(e).upd.moid <= Last(d).upd.moid}

\* The exchange's threads run and the timer fires until there is nothing new
\* to number, store or publish; the client reads what it receives; and the
\* network does not lose every complete snapshot.
FSpec ==
    /\ FInit /\ [][FNext]_fvars
    /\ WF_fvars(Read)
    /\ SF_fvars(Exchange)
    /\ SF_fvars(\E d \in Newest : ReceiveSnapshot(d))

-----------------------------------------------------------------------------
\* Properties.

\* Outside recovery the client's view is the books as they were after the
\* update before the one it waits for: no message is missed or applied twice,
\* and snapshot and incremental messages are never mixed wrongly, whatever the
\* network loses, delays, duplicates or reorders.
ViewCorrect ==
    ~feed.in_recovery => /\ feed.next_expected_seq <= made + 1
                         /\ view = After(feed.next_expected_seq - 1)

\* The recovery the snapshot socket is open for comes to its end.
FirstRecoveryEnds ==
    (feed.in_recovery /\ feed.listening = "open") ~> ~feed.in_recovery

\* Every recovery comes to its end: "Market data snapshots are available for
\* clients experiencing packet loss" (README.md:17).
RecoveryEnds == feed.in_recovery ~> ~feed.in_recovery
=============================================================================
