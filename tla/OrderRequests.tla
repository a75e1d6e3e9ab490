----------------------------- MODULE OrderRequests -----------------------------
(***************************************************************************)
(* The way of a request from an order_gateway to the matching engine:      *)
(* order_gateway::send_request (src/example/order_gateway), a TCP stream,  *)
(* the read callback of order_server and its fifo_sequencer                *)
(* (src/src/order_server).  All of the server's part runs in the loop      *)
(* thread, one libuv callback after the other.                             *)
(*                                                                         *)
(* A connection is named by the client id it gets.  A read may end inside  *)
(* a message; the next one then lies over its beginning, and the server    *)
(* deserialises and checks what comes of it as it does any other request.  *)
(* `fault' names the place where the program ends or becomes undefined;    *)
(* nothing is claimed about it from there on.                              *)
(***************************************************************************)
EXTENDS TcpStream, FiniteSets, SequencesExt

CONSTANTS
    MaxNumClients,       \* MAX_NUM_CLIENTS
    MaxPendingRequests,  \* MAX_PENDING_REQUESTS
    StableUpTo,          \* up to this many elements std::sort is stable
    MaxConnects,         \* bound on the connections clients open
    MaxRequests,         \* bound on the requests all gateways send
    MaxTroubles,         \* bound on wrong requests and closed connections
    MaxClock             \* bound on the loop's clock

ASSUME RequestsAssumption ==
    /\ MaxNumClients \in Nat \ {0} /\ MaxPendingRequests \in Nat \ {0}
    /\ {StableUpTo, MaxConnects, MaxRequests, MaxTroubles, MaxClock} \subseteq Nat

VARIABLES
    conns,              \* client_connections_: "none", "open" or "closed"
    next_client_id,
    inbound,            \* connection -> cells left in inbound_data_
    next_incoming_seq,  \* client_next_incoming_seq_num_
    pending,            \* the sequencer's pending_client_requests_
    clock,              \* uv_now
    rejected,           \* from whose connection, and to whom, INVALID_REQUESTs went
    to_engine,          \* the requests published to the matching engine
    to_server,          \* connection -> cells on their way
    next_out,           \* gateway -> next_outgoing_seq_num_
    arrivals,           \* requests taken by read_data, in all
    cut,                \* connections of which a message came in two reads
    wrong,              \* clients that have sent a wrong request
    requests, troubles, \* counters for the bounds
    fault

serverVars == <<conns, next_client_id, inbound, next_incoming_seq, pending, clock,
                rejected, to_engine, arrivals, cut>>
vars == <<serverVars, to_server, next_out, wrong, requests, troubles, fault>>

Clients == 0 .. MaxNumClients - 1
NoClient == MaxNumClients     \* stands for every id behind the server's tables
Running == fault = "none"
Fail(what) == fault' = what

Init ==
    /\ conns = [c \in Clients |-> "none"] /\ next_client_id = 0
    /\ inbound = [c \in Clients |-> <<>>]
    /\ next_incoming_seq = [c \in Clients |-> 1]
    /\ pending = <<>> /\ clock = 0
    /\ rejected = {} /\ to_engine = <<>>
    /\ to_server = [c \in Clients |-> <<>>]
    /\ next_out = [c \in Clients |-> 1]
    /\ arrivals = 0 /\ cut = {} /\ wrong = {} /\ requests = 0 /\ troubles = 0
    /\ fault = "none"

-----------------------------------------------------------------------------
\* handle_new_connection: client_connections_.at(next_client_id_++).  (Its steps,
\* which the response thread can see, are in OrderResponses.)
Connect ==
    /\ Running /\ next_client_id < MaxConnects
    /\ \/ /\ next_client_id \in Clients
          /\ conns' = [conns EXCEPT ![next_client_id] = "open"]
          /\ next_client_id' = next_client_id + 1
          /\ UNCHANGED fault
       \/ /\ next_client_id \notin Clients
          /\ Fail("too many clients")
          /\ UNCHANGED <<conns, next_client_id>>
    /\ UNCHANGED <<inbound, next_incoming_seq, pending, clock, rejected, to_engine,
                   arrivals, cut, to_server, next_out, wrong, requests, troubles>>

\* What a row deserialises to.  In a row that is not as it was sent the number and
\* the client id may be anything: the number right by chance or not (0), the id that
\* of any client or none.
Readings(s, row) ==
    IF Whole(row)
    THEN {row[1].msg}
    ELSE [seq : {0, s.next_in[s.conn]}, client : Clients \cup {NoClient}]

\* Mutants: the stated client id is not compared with the connection's; numbers are
\* counted from 0.
ValidAnyone(s, m) == m.seq = s.next_in[m.client]
ValidFromZero(s, m) == m.client = s.conn /\ m.seq = s.next_in[m.client] - 1

\* The two checks of read_data's loop: the socket of the client, the number.
Valid(s, m) == m.client = s.conn /\ m.seq = s.next_in[m.client]

\* Mutant: one request more than there is room for.
NoRoomLate(s) == Len(s.pending) > MaxPendingRequests

\* The check of fifo_sequencer::add_request.
NoRoom(s) == Len(s.pending) >= MaxPendingRequests

\* One iteration of that loop, on a record of what it uses and changes, with
\* fifo_sequencer::add_request at its end.  The arrays indexed by the client id have
\* MAX_NUM_CLIENTS elements.
ReadRequest(s, m) ==
    IF s.fault # "none"
    THEN s
    ELSE IF m.client \notin Clients
    THEN [s EXCEPT !.fault = "no such client"]
    ELSE IF ~Valid(s, m)
    THEN [s EXCEPT !.rejected = @ \cup {[from |-> s.conn, to |-> m.client]}]
    ELSE IF NoRoom(s)
    THEN [s EXCEPT !.fault = "too many pending requests"]
    ELSE [s EXCEPT !.next_in[m.client] = @ + 1,
                   !.arrivals = @ + 1,
                   !.pending = Append(@,
                     [time |-> s.now, client |-> m.client, seq |-> m.seq,
                      from |-> s.conn, arrival |-> s.arrivals + 1])]

\* The same for all that may have come of the rows before, and of this one.
ReadRow(states, row) ==
    UNION {{ReadRequest(s, m) : m \in Readings(s, row)} : s \in states}

\* The loop starts from what the server has.
Start(c) ==
    [conn |-> c, now |-> clock, rejected |-> rejected, pending |-> pending,
     next_in |-> next_incoming_seq, arrivals |-> arrivals, fault |-> fault]

\* on_read with n > 0 cells, and read_data.
OnRead(c, n) ==
    /\ Running /\ conns[c] = "open" /\ n <= Len(to_server[c])
    /\ LET cells == Filled(inbound[c], SubSeq(to_server[c], 1, n))
       IN  /\ \E s \in FoldLeft(ReadRow, {Start(c)}, Rows(cells)) :
                /\ rejected' = s.rejected
                /\ pending' = s.pending
                /\ next_incoming_seq' = s.next_in
                /\ arrivals' = s.arrivals
                /\ fault' = s.fault
           /\ inbound' = [inbound EXCEPT ![c] = Shifted(cells)]
    /\ cut' = IF inbound[c] = <<>> THEN cut ELSE cut \cup {c}
    /\ to_server' = [to_server EXCEPT ![c] = SubSeq(@, n + 1, Len(@))]
    /\ UNCHANGED <<conns, next_client_id, clock, to_engine, next_out, wrong, requests,
                   troubles>>

\* on_read at the end of the stream or after an error: uv_close, and the entry in
\* client_connections_ stays.
OnClose(c) ==
    /\ Running /\ conns[c] = "open" /\ troubles < MaxTroubles
    /\ conns' = [conns EXCEPT ![c] = "closed"]
    /\ troubles' = troubles + 1
    /\ UNCHANGED <<next_client_id, inbound, next_incoming_seq, pending, clock,
                   rejected, to_engine, arrivals, cut, to_server, next_out, wrong,
                   requests, fault>>

\* Mutants: a batch is published from its end; the last request is left out.
SortingsBackwards(reqs) == {Reverse(reqs)}
SortingsShort(reqs) == {Front(reqs)}

\* The orders in which std::sort by recv_time_ may leave the pending requests.
Sortings(reqs) ==
    {q \in SetToSeqs(Range(reqs)) :
       \A i, j \in DOMAIN q : i < j =>
         \/ q[i].time < q[j].time
         \/ /\ q[i].time = q[j].time
            /\ Len(q) > StableUpTo \/ q[i].arrival < q[j].arrival}

\* on_check: sequence_and_publish, unless nothing is pending.
OnCheck ==
    /\ Running /\ pending # <<>>
    /\ \E q \in Sortings(pending) :
         to_engine' = to_engine \o
           [i \in DOMAIN q |-> [req |-> q[i], batch |-> Len(q)]]
    /\ pending' = <<>>
    /\ UNCHANGED <<conns, next_client_id, inbound, next_incoming_seq, clock, rejected,
                   arrivals, cut, to_server, next_out, wrong, requests, troubles, fault>>

\* The loop's cached time moves on; only a change between two reads of one batch
\* can be told apart.
Tick ==
    /\ Running /\ pending # <<>> /\ clock < MaxClock
    /\ clock' = clock + 1
    /\ UNCHANGED <<conns, next_client_id, inbound, next_incoming_seq, pending,
                   rejected, to_engine, arrivals, cut, to_server, next_out, wrong,
                   requests, troubles, fault>>

-----------------------------------------------------------------------------
\* on_idle and send_request of a gateway that knows its client id, for one request
\* of the trade engine: the next number, and uv_write appends to the stream.
SendRequest(c) ==
    /\ Running /\ conns[c] = "open" /\ requests < MaxRequests
    /\ to_server' = [to_server EXCEPT ![c] =
         @ \o Cells([seq |-> next_out[c], client |-> c])]
    /\ next_out' = [next_out EXCEPT ![c] = @ + 1]
    /\ requests' = requests + 1
    /\ UNCHANGED <<serverVars, wrong, troubles, fault>>

\* A client that does not count, or states another client's id: it repeats or skips
\* a number, or sends what would be the other's next request.
SendWrong(c) ==
    /\ Running /\ conns[c] = "open" /\ troubles < MaxTroubles
    /\ \E m \in [seq : {next_out[c] - 1, next_out[c] + 1}, client : {c}]
                  \cup {[seq |-> next_out[d], client |-> d] : d \in Clients \ {c}} :
         to_server' = [to_server EXCEPT ![c] = @ \o Cells(m)]
    /\ wrong' = wrong \cup {c} /\ troubles' = troubles + 1
    /\ UNCHANGED <<serverVars, next_out, requests, fault>>

Next ==
    \/ Connect \/ OnCheck \/ Tick
    \/ \E c \in Clients :
         \/ OnClose(c) \/ SendRequest(c) \/ SendWrong(c)
         \/ \E n \in 1 .. Len(to_server[c]) : OnRead(c, n)

\* libuv runs the check handlers in every iteration of its loop.
Spec == Init /\ [][Next]_vars /\ WF_vars(OnCheck)

-----------------------------------------------------------------------------
Pending == [time : Nat, client : Clients, seq : Nat, from : Clients, arrival : Nat]

\* The variables hold what the code's types allow; a buffer never keeps a whole
\* message.
TypeOK ==
    /\ conns \in [Clients -> {"none", "open", "closed"}]
    /\ next_client_id \in 0 .. MaxNumClients
    /\ next_incoming_seq \in [Clients -> Nat] /\ next_out \in [Clients -> Nat]
    /\ \A c \in Clients : Len(inbound[c]) < Parts
    /\ pending \in Seq(Pending) /\ Len(pending) <= MaxPendingRequests
    /\ rejected \subseteq [from : Clients, to : Clients]
    /\ cut \subseteq Clients /\ wrong \subseteq Clients
    /\ to_engine \in Seq([req : Pending, batch : Nat])
    /\ {arrivals, clock, requests, troubles} \subseteq Nat
    /\ fault \in {"none", "too many clients", "too many pending requests",
                  "no such client"}

\* The sequencer publishes requests in the order in which they were read, across
\* connections, callbacks and batches; only requests of one batch too long for
\* std::sort's insertion sort may change places, and only those of one time.
FirstComeFirstServed ==
    \A i, j \in DOMAIN to_engine :
      i < j => \/ to_engine[i].req.arrival < to_engine[j].req.arrival
               \/ /\ to_engine[i].req.time = to_engine[j].req.time
                  /\ to_engine[i].batch = to_engine[j].batch
                  /\ to_engine[i].batch > StableUpTo

\* Whatever clients send, the engine gets each number of a client once and without
\* a gap, and only from that client's own connection (the checks of read_data).
ExactlyOnce ==
    \A c \in Clients :
      LET mine == {i \in DOMAIN to_engine : to_engine[i].req.client = c}
      IN  /\ {to_engine[i].req.seq : i \in mine} = 1 .. Cardinality(mine)
          /\ \A i \in mine : to_engine[i].req.from = c

\* A client that counts right and whose messages came in one read each is never
\* rejected, and all it sent is taken but for what is on its way: whatever others send
\* and however their messages are cut, its number and the server's never drift apart.
RightIsTaken ==
    \A c \in Clients \ (cut \cup wrong) :
      /\ \A r \in rejected : r.from # c
      /\ Running => Parts * (next_out[c] - next_incoming_seq[c])
                        = Len(inbound[c]) + Len(to_server[c])

\* Every request the server took is published to the engine.
RequestsPublished ==
    \A k \in 1 .. MaxRequests + MaxTroubles :
      arrivals >= k ~> (~Running \/ \E i \in DOMAIN to_engine : to_engine[i].req.arrival = k)
================================================================================
