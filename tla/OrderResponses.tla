---------------------------- MODULE OrderResponses -----------------------------
(***************************************************************************)
(* The way of a response from the matching engine or the order server to a *)
(* client's trade engine: the response thread of order_server numbers it   *)
(* and puts it into the connection's outbound buffer, the loop thread      *)
(* sends it (src/src/order_server/order_server.hpp, .cpp), and the         *)
(* order_gateway (src/example/order_gateway/order_gateway.cpp) reads it.   *)
(*                                                                         *)
(* The two threads of the server meet in client_connections_, in           *)
(* write_queue_ and in the outbound buffer, so a callback of the loop and  *)
(* an iteration of the response thread are several steps here.  Queues are *)
(* first in, first out (see LockFreeQueue).  uv_write is external: it      *)
(* copies the bytes, and fails on a closed handle.  A read of the gateway  *)
(* may end inside a message, and then the next one lies over its           *)
(* beginning.  `fault' names the place where the program ends or becomes   *)
(* undefined; nothing is claimed about it from there on.                   *)
(***************************************************************************)
EXTENDS TcpStream, FiniteSets, SequencesExt

CONSTANTS
    MaxNumClients,       \* MAX_NUM_CLIENTS
    MaxBufferedResponse, \* MAX_BUFFERED_RESPONSE, slots of an outbound buffer
    Traders,             \* the clients that send requests
    CutClients,          \* bound: the clients a message may reach in two reads
    MaxConnects,         \* bound on the connections clients open
    MaxInvalid,          \* bound on the responses of the loop thread
    MaxReplies,          \* bound on the responses of the matching engine
    MaxBacklog,          \* bound on the responses in a queue
    MaxCloses            \* bound on the connections that are closed

ASSUME ResponsesAssumption ==
    /\ MaxNumClients \in Nat \ {0} /\ MaxBufferedResponse \in Nat \ {0}
    /\ Traders \subseteq 0 .. MaxNumClients - 1
    /\ {MaxConnects, MaxInvalid, MaxReplies, MaxBacklog, MaxCloses} \subseteq Nat

VARIABLES
    loop,               \* the callback the loop thread is in
    conns,              \* client_connections_: "none", "open" or "closed"
    next_client_id,
    worker,             \* the step of the response thread, its queue, the response
    next_outgoing_seq,  \* client_next_outgoing_seq_num_
    next_send,          \* connection -> next_send_valid_index_
    responses,          \* queue -> responses in it, "server" and "engine"
    write_queue,        \* connection -> slots to be sent
    outbound,           \* connection -> slot -> message
    async,              \* connection -> is async_write_msg_ signalled?
    to_client,          \* connection -> cells on their way
    gateways,           \* connection -> the order_gateway at its end
    delivered,          \* connection -> responses passed to the trade engine
    cut,                \* gateways that have got a message in two reads
    numbered,           \* client -> responses in the order they were taken
    sent,               \* client -> messages given to uv_write
    made,               \* queue -> responses put into it, for the bounds
    closes, fault

workerVars == <<worker, next_outgoing_seq, next_send, outbound, numbered>>
gatewayVars == <<gateways, delivered, cut>>
vars == <<loop, conns, next_client_id, workerVars, gatewayVars, responses,
          write_queue, async, to_client, sent, made, closes, fault>>

Clients == 0 .. MaxNumClients - 1
Slots == 0 .. MaxBufferedResponse - 1
Queues == {"server", "engine"}
INVALID == -1     \* INVALID_CLIENT_ID

\* A slot of outbound_data_ before anything is written to it: zeros.
Blank == [seq |-> 0, client |-> 0, body |-> [type |-> "none", n |-> 0]]

Running == fault = "none"
Fail(what) == fault' = what

Init ==
    /\ loop = [at |-> "idle"]
    /\ conns = [c \in Clients |-> "none"] /\ next_client_id = 0
    /\ worker = [at |-> "poll", queue |-> "server"]
    /\ next_outgoing_seq = [c \in Clients |-> 1]
    /\ next_send = [c \in Clients |-> 0]
    /\ responses = [q \in Queues |-> <<>>]
    /\ write_queue = [c \in Clients |-> <<>>]
    /\ outbound = [c \in Clients |-> [s \in Slots |-> Blank]]
    /\ async = [c \in Clients |-> FALSE]
    /\ to_client = [c \in Clients |-> <<>>]
    /\ gateways = [c \in Clients |-> [client_id |-> INVALID, next_exp |-> 1,
                                      inbound |-> <<>>]]
    /\ delivered = [c \in Clients |-> <<>>] /\ cut = {}
    /\ numbered = [c \in Clients |-> <<>>] /\ sent = [c \in Clients |-> <<>>]
    /\ made = [q \in Queues |-> 0] /\ closes = 0
    /\ fault = "none"

\* A response enters a queue; n tells it from the others of that queue.
Push(q, c, type) ==
    /\ Len(responses[q]) < MaxBacklog
    /\ responses' = [responses EXCEPT ![q] =
         Append(@, [client |-> c, body |-> [type |-> type, n |-> made[q] + 1]])]
    /\ made' = [made EXCEPT ![q] = @ + 1]

-----------------------------------------------------------------------------
\* The loop thread.

LoopIdle == Running /\ loop.at = "idle"

\* handle_new_connection up to send_connection_accepted_response.
Accept ==
    /\ LoopIdle /\ next_client_id < MaxConnects
    /\ Push("server", next_client_id, "accepted")
    /\ loop' = [at |-> "accept"]
    /\ UNCHANGED <<conns, next_client_id, workerVars, gatewayVars, write_queue, async,
                   to_client, sent, closes, fault>>

\* The rest of it: client_connections_.at(next_client_id_++) = std::move(conn).
Store ==
    /\ Running /\ loop.at = "accept"
    /\ \/ /\ next_client_id \in Clients
          /\ conns' = [conns EXCEPT ![next_client_id] = "open"]
          /\ next_client_id' = next_client_id + 1
          /\ UNCHANGED fault
       \/ /\ next_client_id \notin Clients
          /\ Fail("too many clients")
          /\ UNCHANGED <<conns, next_client_id>>
    /\ loop' = [at |-> "idle"]
    /\ UNCHANGED <<workerVars, gatewayVars, responses, write_queue, async, to_client,
                   sent, made, closes>>

\* read_data meets a request it does not accept: send_invalid_response, to the
\* client the request names.
Reject(c) ==
    /\ LoopIdle
    /\ \E d \in Traders : conns[d] = "open" /\ gateways[d].client_id # INVALID
    /\ made["server"] - next_client_id < MaxInvalid
    /\ Push("server", c, "invalid")
    /\ UNCHANGED <<loop, conns, next_client_id, workerVars, gatewayVars, write_queue,
                   async, to_client, sent, closes, fault>>

\* Mutant: the entry in client_connections_ is given up.
AfterCloseGone == "none"

\* What on_read leaves of a connection at the end of its stream or after an error:
\* uv_close, and nothing else.
AfterClose == "closed"

OnClose(c) ==
    /\ LoopIdle /\ conns[c] = "open" /\ closes < MaxCloses
    /\ conns' = [conns EXCEPT ![c] = AfterClose]
    /\ closes' = closes + 1
    /\ UNCHANGED <<loop, next_client_id, workerVars, gatewayVars, responses,
                   write_queue, async, to_client, sent, made, fault>>

\* write_message: libuv clears the signal before it calls the handler.
WriteMessage(c) ==
    /\ LoopIdle /\ async[c]
    /\ async' = [async EXCEPT ![c] = FALSE]
    /\ loop' = [at |-> "write", conn |-> c]
    /\ UNCHANGED <<conns, next_client_id, workerVars, gatewayVars, responses,
                   write_queue, to_client, sent, made, closes, fault>>

\* Is the response thread between the index and the bytes of this slot?
BeingWritten(c, slot) ==
    /\ worker.at = "serialise"
    /\ worker.response.client = c /\ next_send[c] = slot

\* What uv_write may find in a slot: serialize_client_response may have got no
\* further than the number or the client id.
SlotReads(c, slot) ==
    LET old == outbound[c][slot]
        number == [old EXCEPT !.seq = next_outgoing_seq[c]]
    IN  IF BeingWritten(c, slot)
        THEN {old, number, [number EXCEPT !.client = c]}
        ELSE {old}

\* Mutant: the handler sends one response and leaves the rest to the next signal.
AfterWriteOne(c) == [at |-> "idle"]

\* Where the loop of write_to_socket goes on.
AfterWrite(c) == [at |-> "write", conn |-> c]

\* One iteration of write_to_socket.  On a closed handle uv_write only fails.
WriteToSocket ==
    /\ Running /\ loop.at = "write"
    /\ LET c == loop.conn
       IN  /\ write_queue[c] # <<>>
           /\ \E m \in SlotReads(c, Head(write_queue[c])) :
                /\ sent' = [sent EXCEPT ![c] = Append(@,
                     [msg |-> m, early |-> BeingWritten(c, Head(write_queue[c]))])]
                /\ to_client' = IF conns[c] = "open"
                                THEN [to_client EXCEPT ![c] = @ \o Cells(m)]
                                ELSE to_client
           /\ write_queue' = [write_queue EXCEPT ![c] = Tail(@)]
           /\ loop' = AfterWrite(c)
    /\ UNCHANGED <<conns, next_client_id, workerVars, gatewayVars, responses, async,
                   made, closes, fault>>

\* It finds the queue empty and returns to the event loop.
EndWrite ==
    /\ Running /\ loop.at = "write" /\ write_queue[loop.conn] = <<>>
    /\ loop' = [at |-> "idle"]
    /\ UNCHANGED <<conns, next_client_id, workerVars, gatewayVars, responses,
                   write_queue, async, to_client, sent, made, closes, fault>>

-----------------------------------------------------------------------------
\* The response thread: process_responses runs process_responses_helper on the two
\* queues in turn.

Polling == Running /\ worker.at = "poll"

\* A queue is found empty, and the other one has its turn.
SwitchQueue ==
    /\ Polling /\ responses[worker.queue] = <<>>
    /\ worker' = [worker EXCEPT !.queue = CHOOSE q \in Queues : q # @]
    /\ UNCHANGED <<loop, conns, next_client_id, next_outgoing_seq, next_send, outbound,
                   numbered, gatewayVars, responses, write_queue, async, to_client,
                   sent, made, closes, fault>>

\* append_to_outbound_buffer: the slot it takes.
NextSlot(c) == IF next_send[c] > MaxBufferedResponse THEN 0 ELSE next_send[c]

\* An iteration up to the index in write_queue_: the connection is looked up, and
\* without one the pointer is null; the slot behind the last is outside the buffer.
PushIndex ==
    /\ Polling /\ responses[worker.queue] # <<>>
    /\ LET r == Head(responses[worker.queue])
           c == r.client
           connected == c \in Clients /\ conns[c] # "none"
       IN  \/ /\ ~connected
              /\ Fail("no socket")
              /\ UNCHANGED <<worker, next_send, write_queue, numbered>>
           \/ /\ connected /\ NextSlot(c) \notin Slots
              /\ Fail("overrun")
              /\ UNCHANGED <<worker, next_send, write_queue, numbered>>
           \/ /\ connected /\ NextSlot(c) \in Slots
              /\ next_send' = [next_send EXCEPT ![c] = NextSlot(c)]
              /\ write_queue' = [write_queue EXCEPT ![c] = Append(@, NextSlot(c))]
              /\ numbered' = [numbered EXCEPT ![c] = Append(@, r)]
              /\ worker' = [at |-> "serialise", queue |-> worker.queue, response |-> r]
              /\ UNCHANGED fault
    /\ UNCHANGED <<loop, conns, next_client_id, next_outgoing_seq, outbound,
                   gatewayVars, responses, async, to_client, sent, made, closes>>

\* The rest of append_to_outbound_buffer.
Serialise ==
    /\ Running /\ worker.at = "serialise"
    /\ LET c == worker.response.client
       IN  /\ outbound' = [outbound EXCEPT ![c][next_send[c]] =
                [seq |-> next_outgoing_seq[c], client |-> c,
                 body |-> worker.response.body]]
           /\ next_send' = [next_send EXCEPT ![c] = @ + 1]
    /\ worker' = [worker EXCEPT !.at = "notify"]
    /\ UNCHANGED <<loop, conns, next_client_id, next_outgoing_seq, numbered,
                   gatewayVars, responses, write_queue, async, to_client, sent, made,
                   closes, fault>>

\* Mutant: the number is used again.
NextNumberKept(n) == n

\* ++next_outgoing_seq_num.  It is 32 bits wide; the outbound buffer is overrun long
\* before it could wrap.
NextNumber(n) == n + 1

\* The end of the iteration: uv_async_send, next_read_index, the next number.
Notify ==
    /\ Running /\ worker.at = "notify"
    /\ LET c == worker.response.client
       IN  /\ async' = [async EXCEPT ![c] = TRUE]
           /\ next_outgoing_seq' = [next_outgoing_seq EXCEPT ![c] = NextNumber(@)]
    /\ responses' = [responses EXCEPT ![worker.queue] = Tail(@)]
    /\ worker' = [at |-> "poll", queue |-> worker.queue]
    /\ UNCHANGED <<loop, conns, next_client_id, next_send, outbound, numbered,
                   gatewayVars, write_queue, to_client, sent, made, closes, fault>>

\* The matching engine, seen from here: responses for clients that have sent
\* requests, and so know what their client id is.
EngineResponds(c) ==
    /\ Running /\ c \in Traders /\ made["engine"] < MaxReplies
    /\ gateways[c].client_id = c
    /\ Push("engine", c, "reply")
    /\ UNCHANGED <<loop, conns, next_client_id, workerVars, gatewayVars, write_queue,
                   async, to_client, sent, closes, fault>>

-----------------------------------------------------------------------------
\* The order gateway.

\* What a row deserialises to, as in OrderRequests: in one that is not as it was sent
\* the number may be the expected one or not (0), and the client id anything.
Readings(s, row) ==
    IF Whole(row)
    THEN {row[1].msg}
    ELSE [seq : {0, s.gateway.next_exp}, client : Clients \cup {INVALID},
          body : {[type |-> "damaged", n |-> 0]}]

\* Mutant: a response with a number that is too high is taken.
ExpectedLater(g, m) == m.seq >= g.next_exp

\* response.sequence_number_ == next_exp_seq_num_
Expected(g, m) == m.seq = g.next_exp

\* One iteration of the loop of order_gateway::read_data: the checks of the client
\* id and of the number, and number 1 only tells the client id.
ReadResponse(s, m) ==
    LET g == s.gateway
    IN  IF \/ g.client_id # INVALID /\ g.client_id # m.client
           \/ ~Expected(g, m)
        THEN s
        ELSE [gateway |-> [g EXCEPT !.next_exp = @ + 1,
                                    !.client_id = IF m.seq = 1 THEN m.client ELSE @],
              passed  |-> IF m.seq = 1 THEN s.passed ELSE Append(s.passed, m)]

\* The same for all that may have come of the rows before, and of this one.
ReadRow(states, row) ==
    UNION {{ReadResponse(s, m) : m \in Readings(s, row)} : s \in states}

\* The loop starts from what the gateway has.
Start(c) == [gateway |-> gateways[c], passed |-> delivered[c]]

\* on_read of the gateway with n > 0 cells.
GatewayRead(c, n) ==
    /\ Running /\ n <= Len(to_client[c])
    /\ LET cells == Filled(gateways[c].inbound, SubSeq(to_client[c], 1, n))
       IN  /\ c \in CutClients \/ Shifted(cells) = <<>>
           /\ \E s \in FoldLeft(ReadRow, {Start(c)}, Rows(cells)) :
                /\ gateways' = [gateways EXCEPT ![c] =
                     [s.gateway EXCEPT !.inbound = Shifted(cells)]]
                /\ delivered' = [delivered EXCEPT ![c] = s.passed]
    /\ cut' = IF gateways[c].inbound = <<>> THEN cut ELSE cut \cup {c}
    /\ to_client' = [to_client EXCEPT ![c] = SubSeq(@, n + 1, Len(@))]
    /\ UNCHANGED <<loop, conns, next_client_id, workerVars, responses, write_queue,
                   async, sent, made, closes, fault>>

-----------------------------------------------------------------------------
LoopThread ==
    \/ Accept \/ Store \/ WriteToSocket \/ EndWrite
    \/ \E c \in Clients : Reject(c) \/ OnClose(c) \/ WriteMessage(c)

ResponseThread == SwitchQueue \/ PushIndex \/ Serialise \/ Notify

Next ==
    \/ LoopThread \/ ResponseThread
    \/ \E c \in Clients :
         \/ EngineResponds(c)
         \/ \E n \in 1 .. Len(to_client[c]) : GatewayRead(c, n)

Spec == Init /\ [][Next]_vars

-----------------------------------------------------------------------------
\* The variables hold what the code's types allow, and every slot that is written
\* or waits to be sent lies within the outbound buffer.
TypeOK ==
    /\ loop.at \in {"idle", "accept", "write"}
    /\ worker.at \in {"poll", "serialise", "notify"} /\ worker.queue \in Queues
    /\ conns \in [Clients -> {"none", "open", "closed"}]
    /\ next_client_id \in 0 .. MaxNumClients
    /\ \A c \in Clients :
         /\ next_send[c] \in 0 .. MaxBufferedResponse
         /\ DOMAIN outbound[c] = Slots /\ Range(write_queue[c]) \subseteq Slots
         /\ Len(gateways[c].inbound) < Parts
    /\ fault \in {"none", "too many clients", "no socket", "overrun"}

\* The response thread finds no connection only for a connection that
\* handle_new_connection has announced and not yet stored, or for a rejected request
\* that named a client id nobody has.  Clients that left keep theirs.
SocketMissing ==
    fault = "no socket" =>
      LET r == Head(responses[worker.queue])
      IN  \/ loop.at = "accept" /\ r.client = next_client_id
          \/ r.body.type = "invalid" /\ r.client >= next_client_id

\* The k-th message given to uv_write for a client is its k-th response, with the
\* number k, whichever queue it came from; unless uv_write read the slot while the
\* response thread was writing it.
WireSound ==
    \A c \in Clients : \A k \in DOMAIN sent[c] :
      \/ sent[c][k].early
      \/ sent[c][k].msg = [seq |-> k, client |-> c, body |-> numbered[c][k].body]

\* The trade engine gets the responses for its client in the order in which they
\* were taken from the queues, none twice and none left out before a later one, and
\* each whole: unless its slot was read early - after a damaged number the gateway
\* passes on nothing more - or a message came in two reads, after which only the
\* numbers are right.  (The first response only tells it its client id.)
DeliveredInOrder ==
    \A c \in Clients : \A k \in DOMAIN delivered[c] :
      LET m == delivered[c][k]
      IN  /\ m.seq = k + 1
          /\ c \notin cut =>
               /\ m.client = c
               /\ m.body = numbered[c][k + 1].body \/ sent[c][k + 1].early

\* No wake-up is lost, although one signal may stand for several responses and comes
\* after the index: a response that waits in an outbound buffer has a signal set, or
\* the handler is emptying that buffer, or the response thread has yet to signal.
NoneStranded ==
    \A c \in Clients : (write_queue[c] # <<>> /\ Running) =>
      \/ async[c]
      \/ loop.at = "write" /\ loop.conn = c
      \/ worker.at \in {"serialise", "notify"} /\ worker.response.client = c
================================================================================
