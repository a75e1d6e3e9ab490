------------------------ MODULE OrderResponsesProofs -------------------------
(***************************************************************************)
(* Proofs about OrderResponses, for any number of clients, any size of the *)
(* outbound buffers and of a message, any number of responses, any cut of  *)
(* the streams into reads, and anything a cut message may deserialise to.  *)
(*                                                                         *)
(* The argument is about positions.  The k-th response taken for a client  *)
(* goes to slot k - 1 of its outbound buffer, because the buffer is        *)
(* overrun before the index could start again; it gets the number k and is *)
(* the k-th message given to uv_write.  A slot that is read early is still *)
(* blank behind the number and the client id, and never the first one: its *)
(* signal has come after the bytes.  The gateway has read q cells of the   *)
(* stream of these messages, and has passed on those it took in a row.     *)
(* Once a message has come to it in two reads, only the numbers are sure.  *)
(***************************************************************************)
EXTENDS OrderResponses, SequenceLemmas

\* One iteration of the gateway's loop over the rows it has read.
B == INSTANCE StreamLemmas WITH op <- ReadRow

Bodies == [type : {"none", "accepted", "invalid", "reply", "damaged"}, n : Nat]
Responses == [client : Nat, body : Bodies]
Messages == [seq : Nat, client : Int, body : Bodies]
Received == [msg : Messages, part : Nat]
Buffered == {row \in Seq(Received) : row[1] \in Received}    \* rows of a buffer
Gateways == [client_id : Int, next_exp : Nat, inbound : Seq(Received)]

\* The types the proofs need, beyond TypeOK.
Typed ==
    /\ loop \in [at : {"idle", "accept"}] \cup [at : {"write"}, conn : Clients]
    /\ worker \in [at : {"poll"}, queue : Queues] \cup
                  [at : {"serialise", "notify"}, queue : Queues, response : Responses]
    /\ conns \in [Clients -> {"none", "open", "closed"}]
    /\ next_client_id \in 0 .. MaxNumClients
    /\ next_outgoing_seq \in [Clients -> Nat]
    /\ next_send \in [Clients -> 0 .. MaxBufferedResponse]
    /\ responses \in [Queues -> Seq(Responses)] /\ made \in [Queues -> Nat]
    /\ write_queue \in [Clients -> Seq(Slots)]
    /\ outbound \in [Clients -> [Slots -> Messages]]
    /\ async \in [Clients -> BOOLEAN]
    /\ to_client \in [Clients -> Seq(Received)]
    /\ gateways \in [Clients -> Gateways]
    /\ delivered \in [Clients -> Seq(Messages)] /\ cut \subseteq Clients
    /\ numbered \in [Clients -> Seq(Responses)]
    /\ sent \in [Clients -> Seq([msg : Messages, early : BOOLEAN])]
    /\ fault \in {"none", "too many clients", "no socket", "overrun"}

\* Is the response thread between the index of a response for c and its number, and
\* has the number been written?
Busy(c) == worker.at \in {"serialise", "notify"} /\ worker.response.client = c
Unwritten(c) == worker.at = "serialise" /\ worker.response.client = c

\* The response in slot k - 1 when it is whole.
Intact(c, k) == [seq |-> k, client |-> c, body |-> numbered[c][k].body]

\* The k-th response taken is in slot k - 1, those that are not yet sent have their
\* slots in the queue, and nothing is behind them.
PlacedAt(c) ==
    /\ Len(numbered[c]) = Len(sent[c]) + Len(write_queue[c])
    /\ \A j \in 1 .. Len(write_queue[c]) : write_queue[c][j] = Len(sent[c]) + j - 1
    /\ next_send[c] = Len(numbered[c]) - (IF Unwritten(c) THEN 1 ELSE 0)
    /\ next_outgoing_seq[c] = Len(numbered[c]) + (IF Busy(c) THEN 0 ELSE 1)
    /\ Busy(c) => /\ Len(numbered[c]) > 0
                  /\ worker.response = numbered[c][Len(numbered[c])]
    /\ Unwritten(c) => next_send[c] \in Slots
    /\ \A s \in Slots : outbound[c][s] =
          IF s < next_send[c] THEN Intact(c, s + 1) ELSE Blank

Placed == \A c \in Clients : PlacedAt(c)

\* What uv_write may have read early.
Damaged(c, k) ==
    {Blank, [seq |-> k, client |-> 0, body |-> Blank.body],
     [seq |-> k, client |-> c, body |-> Blank.body]}

\* What has been sent, whole or damaged.
Sound ==
    \A c \in Clients : \A k \in 1 .. Len(sent[c]) :
      IF sent[c][k].early THEN k >= 2 /\ sent[c][k].msg \in Damaged(c, k)
      ELSE sent[c][k].msg = Intact(c, k)

\* A signal comes after the first number.
Signalled ==
    \A c \in Clients :
      async[c] \/ (loop.at = "write" /\ loop.conn = c) => next_outgoing_seq[c] >= 2

\* Who has a connection: the ids below next_client_id, among them all that got
\* responses.  Who else may be named in a queue: the one that is being accepted, or
\* any client in a rejected request.
Connected ==
    /\ worker.at # "poll" => /\ worker.response.client \in Clients
                             /\ responses[worker.queue] # <<>>
    /\ Running =>
         /\ \A c \in Clients :
              /\ conns[c] # "none" <=> c < next_client_id
              /\ numbered[c] # <<>> => conns[c] # "none"
         /\ \A q \in Queues : \A i \in 1 .. Len(responses[q]) :
              LET r == responses[q][i]
              IN  \/ r.client < next_client_id
                  \/ loop.at = "accept" /\ r.client = next_client_id
                  \/ r.body.type = "invalid"

\* A gateway has passed on one response for each number but the first.
Counted(g, passed) ==
    \/ g.next_exp = 1 /\ passed = <<>>
    \/ /\ g.next_exp >= 2 /\ Len(passed) = g.next_exp - 2
       /\ \A k \in 1 .. Len(passed) : passed[k].seq = k + 1

\* What the gateway of c has after the first n messages that were sent to it, if each
\* came in one read.
Passed(c, msgs, g, passed, n) ==
    \/ g.next_exp = 1 /\ g.client_id = INVALID /\ passed = <<>>
    \/ /\ g.next_exp \in 2 .. n + 1 /\ g.client_id = c
       /\ Len(passed) = g.next_exp - 2
       /\ \A k \in 1 .. Len(passed) :
            passed[k] = msgs[k + 1] /\ passed[k].seq = k + 1 /\ passed[k].client = c

Sent(c) == [k \in 1 .. Len(sent[c]) |-> sent[c][k].msg]

\* The gateway has read the first q cells; the rest follows while the connection is
\* open, and what was sent after it was closed is lost.  It has a client id only if
\* something was sent.
ReadSoFar(c, q) ==
    /\ Running =>
         /\ B!Follow(to_client[c], Sent(c), q)
         /\ conns[c] # "closed" => q + Len(to_client[c]) = Parts * Len(sent[c])
         /\ q + Len(to_client[c]) <= Parts * Len(sent[c])
    /\ q \div Parts <= Len(sent[c])
    /\ Len(gateways[c].inbound) = q % Parts
    /\ Counted(gateways[c], delivered[c])
    /\ gateways[c].client_id # INVALID => sent[c] # <<>>
    /\ c \notin cut => Passed(c, Sent(c), gateways[c], delivered[c], q \div Parts)

Streamed == \A c \in Clients : \E q \in Nat : ReadSoFar(c, q)

\* The inductive invariant.
IInv ==
    /\ Typed /\ Placed /\ Sound /\ Signalled /\ Connected /\ Streamed
    /\ SocketMissing /\ NoneStranded

-----------------------------------------------------------------------------
\* Helpers.

\* The instance's definitions about streams are those of the model.
LEMMA SameStreams ==
    /\ \A left, chunk : B!Filled(left, chunk) = Filled(left, chunk)
    /\ \A cells : B!Rows(cells) = Rows(cells) /\ B!Shifted(cells) = Shifted(cells)
    /\ \A row : B!Whole(row) = Whole(row)
    /\ \A m : B!Cells(m) = Cells(m)
<1>1. \A cells : B!Rows(cells) = Rows(cells)
  BY DEF B!Rows, Rows
<1>2. \A m : B!Cells(m) = Cells(m)
  BY DEF B!Cells, Cells
<1>3. \A left, chunk : B!Filled(left, chunk) = Filled(left, chunk)
  BY DEF B!Filled, Filled
<1>4. \A cells : B!Shifted(cells) = Shifted(cells)
  BY DEF B!Shifted, Shifted
<1>5. \A row : B!Whole(row) = Whole(row)
  BY <1>2 DEF B!Whole, Whole
<1> QED BY <1>1, <1>2, <1>3, <1>4, <1>5

\* The loop of read_data runs through the states h[0], h[1], ...
LEMMA ReadSteps ==
    ASSUME NEW S, NEW seq \in Seq(S), NEW base
    PROVE  \E h : /\ h[0] = base
                  /\ \A i \in 1 .. Len(seq) : h[i] = ReadRow(h[i - 1], seq[i])
                  /\ FoldLeft(ReadRow, base, seq) = h[Len(seq)]
<1>1. B!FoldLeft(ReadRow, base, seq) = FoldLeft(ReadRow, base, seq)
  BY DEF B!FoldLeft, B!MapThenFoldSet, B!Max, FoldLeft, MapThenFoldSet, Max
<1>2. \E h : /\ h[0] = base
             /\ \A i \in 1 .. Len(seq) : h[i] = ReadRow(h[i - 1], seq[i])
             /\ B!FoldLeft(ReadRow, base, seq) = h[Len(seq)]
  BY StreamAssumption, B!FoldSteps, Zenon
<1> QED BY <1>1, <1>2

\* What holds before the loop and is kept by every iteration holds behind it.
LEMMA ReadKeeps ==
    ASSUME NEW S, NEW seq \in Seq(S), NEW T, NEW base \in T,
           \A s \in T : \A m \in S : ReadRow(s, m) \in T
    PROVE  FoldLeft(ReadRow, base, seq) \in T
<1>1. PICK h : /\ h[0] = base
               /\ \A i \in 1 .. Len(seq) : h[i] = ReadRow(h[i - 1], seq[i])
               /\ FoldLeft(ReadRow, base, seq) = h[Len(seq)]
  BY ReadSteps
<1> DEFINE n == Len(seq)
           bad == {i \in 0 .. n : h[i] \notin T}
<1>2. n \in Nat /\ \A i \in 1 .. n : seq[i] \in S
  OBVIOUS
<1> HIDE DEF n
<1>3. bad = {}
  <2> SUFFICES ASSUME bad # {} PROVE FALSE
    OBVIOUS
  <2>1. bad \subseteq Nat
    BY <1>2
  <2>2. PICK i \in bad : \A j \in bad : i <= j
    BY <2>1, LeastElement
  <2>3. i # 0
    BY <1>1
  <2>4. i \in 1 .. n /\ i - 1 \in 0 .. n /\ i - 1 \notin bad
    BY <1>2, <2>2, <2>3
  <2>5. h[i - 1] \in T
    BY <2>4
  <2>6. h[i] = ReadRow(h[i - 1], seq[i])
    BY <1>1, <2>4 DEF n
  <2>7. h[i] \in T
    BY <1>2, <2>4, <2>5, <2>6
  <2> QED BY <2>7
<1>4. n \in 0 .. n
  BY <1>2
<1> QED BY <1>1, <1>3, <1>4 DEF n

\* What was sent, message by message.
LEMMA SentIs ==
    ASSUME Typed, NEW c \in Clients
    PROVE  /\ Len(sent[c]) \in Nat
           /\ \A k \in 1 .. Len(sent[c]) : Sent(c)[k] = sent[c][k].msg /\ Sent(c)[k] \in Messages
<1>1. sent[c] \in Seq([msg : Messages, early : BOOLEAN])
  BY DEF Typed
<1>2. \A k \in 1 .. Len(sent[c]) : sent[c][k] \in [msg : Messages, early : BOOLEAN]
  BY <1>1, ElementOfSeq
<1>3. ASSUME NEW k \in 1 .. Len(sent[c]) PROVE sent[c][k].msg \in Messages
  <2> DEFINE x == sent[c][k]
  <2>1. x \in [msg : Messages, early : BOOLEAN]
    BY <1>2
  <2> HIDE DEF x
  <2>2. x.msg \in Messages
    BY <2>1
  <2> QED BY <2>2 DEF x
<1> QED BY <1>1, <1>3 DEF Sent

\* What the gateway has between two messages.
Between(c, s, n) ==
    /\ s.gateway \in Gateways /\ s.passed \in Seq(Messages)
    /\ Passed(c, Sent(c), s.gateway, s.passed, n)

\* One iteration of read_data: the k-th message is taken if all before it were, and
\* the first one is whole.
LEMMA ReadOne ==
    ASSUME Typed, Sound, NEW c \in Clients, NEW k \in 1 .. Len(sent[c]),
           NEW s, Between(c, s, k - 1)
    PROVE  /\ Between(c, ReadResponse(s, Sent(c)[k]), k)
           /\ ReadResponse(s, Sent(c)[k]).gateway.inbound = s.gateway.inbound
<1> DEFINE m == Sent(c)[k]
           g == s.gateway
           t == ReadResponse(s, m)
<1>1. Len(sent[c]) \in Nat /\ m = sent[c][k].msg /\ m \in Messages /\ c \in Nat /\ k \in Nat \ {0}
  BY SentIs DEF Clients
<1>2. /\ m.seq \in {0, k}
      /\ m.seq = 1 => m.client = c
  <2>1. IF sent[c][k].early
        THEN k >= 2 /\ sent[c][k].msg \in Damaged(c, k)
        ELSE sent[c][k].msg = Intact(c, k)
    BY DEF Sound
  <2>2. CASE sent[c][k].early
    BY <1>1, <2>1, <2>2 DEF Damaged, Blank
  <2>3. CASE ~sent[c][k].early
    BY <1>1, <2>1, <2>3 DEF Intact
  <2> QED BY <2>2, <2>3
<1>3. g.next_exp \in Nat \ {0}
  BY <1>1 DEF Between, Passed
<1>4. CASE (g.client_id # INVALID /\ g.client_id # m.client) \/ ~Expected(g, m)
  <2>1. t = s
    BY <1>4 DEF ReadResponse
  <2>2. Passed(c, Sent(c), s.gateway, s.passed, k)
    BY <1>1 DEF Between, Passed
  <2> QED BY <2>1, <2>2 DEF Between
<1>5. CASE ~((g.client_id # INVALID /\ g.client_id # m.client) \/ ~Expected(g, m))
  <2>1. g.next_exp = k /\ m.seq = k
    BY <1>2, <1>3, <1>5 DEF Expected
  <2> DEFINE id == IF m.seq = 1 THEN m.client ELSE g.client_id
             u == [g EXCEPT !.next_exp = g.next_exp + 1, !.client_id = id]
             p == IF k = 1 THEN s.passed ELSE Append(s.passed, m)
  <2>2. g \in [client_id : Int, next_exp : Nat, inbound : Seq(Received)]
    BY DEF Between, Gateways
  <2>3. [g EXCEPT !.next_exp = @ + 1, !.client_id = IF m.seq = 1 THEN m.client ELSE @] = u
    <3> HIDE DEF g, m
    <3> QED BY <2>2
  <2>4. id = (IF k = 1 THEN c ELSE g.client_id) /\ id \in Int
    BY <1>1, <1>2, <2>1, <2>2
  <2>5. t.gateway = u /\ t.passed = p
    BY <1>5, <2>1, <2>3 DEF ReadResponse
  <2>6. /\ u \in Gateways /\ p \in Seq(Messages)
        /\ u.inbound = g.inbound /\ u.next_exp = k + 1 /\ u.client_id = id
    <3>1. p \in Seq(Messages)
      BY <1>1 DEF Between
    <3> HIDE DEF g, id
    <3>2. /\ u.inbound = g.inbound /\ u.next_exp = g.next_exp + 1 /\ u.client_id = id
      BY <2>2
    <3>3. u \in Gateways
      <4> DEFINE Z == Seq(Received)
                 d == g.next_exp + 1
      <4>1. id \in Int /\ d \in Nat /\ g \in [client_id : Int, next_exp : Nat, inbound : Z]
        BY <2>2, <2>4
      <4> HIDE DEF Z, d
      <4>2. [g EXCEPT !.next_exp = d, !.client_id = id]
              \in [client_id : Int, next_exp : Nat, inbound : Z]
        BY <4>1
      <4> QED BY <4>2 DEF Gateways, Z, d
    <3> QED BY <2>1, <3>1, <3>2, <3>3
  <2> HIDE DEF u
  <2>7. Passed(c, Sent(c), u, p, k)
    <3>1. CASE k = 1
      <4>1. g.next_exp = 1 /\ s.passed = <<>>
        BY <2>1, <3>1 DEF Between, Passed
      <4>2. p = <<>> /\ u.next_exp = 2 /\ u.client_id = c /\ Len(p) = 0
        BY <2>4, <2>6, <3>1, <4>1
      <4> QED BY <3>1, <4>2 DEF Passed
    <3>2. CASE k # 1
      <4>1. /\ g.client_id = c /\ Len(s.passed) = k - 2 /\ s.passed \in Seq(Messages)
            /\ \A j \in 1 .. Len(s.passed) : /\ s.passed[j] = Sent(c)[j + 1]
                 /\ s.passed[j].seq = j + 1 /\ s.passed[j].client = c
        BY <2>1, <3>2 DEF Between, Passed
      <4>2. m.client = c
        BY <1>1, <1>5, <4>1 DEF INVALID
      <4>3. p = Append(s.passed, m) /\ u.next_exp = k + 1 /\ u.client_id = c
        BY <2>4, <2>6, <3>2, <4>1
      <4>4. /\ Len(p) = k - 1 /\ k + 1 \in 2 .. k + 1
            /\ \A j \in 1 .. k - 2 : p[j] = s.passed[j]
            /\ p[k - 1] = m
        BY <1>1, <3>2, <4>1, <4>3
      <4>5. ASSUME NEW j \in 1 .. Len(p)
            PROVE  p[j] = Sent(c)[j + 1] /\ p[j].seq = j + 1 /\ p[j].client = c
        <5> HIDE DEF p
        <5>1. CASE j = k - 1
          BY <1>1, <2>1, <4>2, <4>4, <5>1
        <5>2. CASE j # k - 1
          <6>1. j \in 1 .. k - 2
            BY <1>1, <4>4, <5>2
          <6> QED BY <4>1, <4>4, <6>1
        <5> QED BY <5>1, <5>2
      <4>6. u.next_exp \in 2 .. k + 1 /\ Len(p) = u.next_exp - 2
        BY <1>1, <4>3, <4>4
      <4> HIDE DEF p, u
      <4> QED BY <4>3, <4>5, <4>6 DEF Passed
    <3> QED BY <3>1, <3>2
  <2> HIDE DEF u, p
  <2> QED BY <2>5, <2>6, <2>7 DEF Between
<1> QED BY <1>4, <1>5

\* The states of the loop of a read, whatever is read.
LoopStates ==
    {s \in [gateway : Gateways, passed : Seq(Messages)] : Counted(s.gateway, s.passed)}

\* Every response leads from such a state to such a state.
LEMMA ReadCounts ==
    ASSUME NEW s \in LoopStates, NEW m \in Messages
    PROVE  ReadResponse(s, m) \in LoopStates
<1> DEFINE g == s.gateway
           t == ReadResponse(s, m)
<1>1. g \in Gateways /\ s.passed \in Seq(Messages) /\ Counted(g, s.passed)
  BY DEF LoopStates
<1>2. CASE (g.client_id # INVALID /\ g.client_id # m.client) \/ ~Expected(g, m)
  <2>1. t = s
    BY <1>2 DEF ReadResponse
  <2> QED BY <2>1
<1>3. CASE ~((g.client_id # INVALID /\ g.client_id # m.client) \/ ~Expected(g, m))
  <2> DEFINE x == g.next_exp
             id == IF m.seq = 1 THEN m.client ELSE g.client_id
             u == [g EXCEPT !.next_exp = x + 1, !.client_id = id]
             p == IF m.seq = 1 THEN s.passed ELSE Append(s.passed, m)
             Z == Seq(Received)
  <2>1. m.seq = x
    BY <1>3 DEF Expected
  <2>2. t = [gateway |-> u, passed |-> p]
    BY <1>3 DEF ReadResponse
  <2>3. /\ g \in [client_id : Int, next_exp : Nat, inbound : Z]
        /\ x \in Nat /\ id \in Int /\ x + 1 \in Nat
    <3>1. g \in [client_id : Int, next_exp : Nat, inbound : Z]
      BY <1>1 DEF Gateways
    <3> HIDE DEF g, Z
    <3>2. g.client_id \in Int /\ x \in Nat /\ m.client \in Int
      BY <3>1 DEF Messages
    <3> HIDE DEF x
    <3> QED BY <3>1, <3>2
  <2>4. p \in Seq(Messages)
    BY <1>1
  <2>5. u \in Gateways /\ u.next_exp = x + 1
    <3> HIDE DEF g, id, Z
    <3> DEFINE y == x + 1
    <3>1. y \in Nat
      BY <2>3
    <3> HIDE DEF y
    <3>2. /\ [g EXCEPT !.next_exp = y, !.client_id = id]
               \in [client_id : Int, next_exp : Nat, inbound : Z]
          /\ [g EXCEPT !.next_exp = y, !.client_id = id].next_exp = y
      BY <2>3, <3>1
    <3> QED BY <3>2 DEF Gateways, Z, y
  <2> HIDE DEF u, id
  <2>6. Counted(u, p)
    <3>1. CASE x = 1
      <4>1. p = <<>> /\ Len(<<>>) = 0 /\ u.next_exp = 2
        BY <1>1, <2>1, <2>5, <3>1 DEF Counted
      <4> HIDE DEF p
      <4>2. Len(p) = 0 /\ u.next_exp >= 2 /\ u.next_exp - 2 = 0 /\ 1 .. 0 = {}
        BY <4>1
      <4> QED BY <4>2 DEF Counted
    <3>2. CASE x # 1
      <4>1. /\ x >= 2 /\ Len(s.passed) = x - 2 /\ p = Append(s.passed, m)
            /\ \A k \in 1 .. Len(s.passed) : s.passed[k].seq = k + 1
        BY <1>1, <2>1, <3>2 DEF Counted
      <4> DEFINE l == Len(s.passed)
      <4>2. /\ l \in Nat /\ Len(p) = l + 1 /\ p[l + 1] = m
            /\ \A k \in 1 .. l : p[k] = s.passed[k]
        BY <1>1, <4>1
      <4> HIDE DEF l, p, x
      <4>3. l = x - 2
        BY <4>1 DEF l
      <4>4. ASSUME NEW k \in 1 .. l + 1 PROVE p[k].seq = k + 1
        <5>1. CASE k = l + 1
          BY <2>1, <2>3, <4>2, <4>3, <5>1
        <5>2. CASE k # l + 1
          <6>1. k \in 1 .. l
            BY <4>2, <5>2
          <6> QED BY <4>1, <4>2, <6>1 DEF l
        <5> QED BY <5>1, <5>2
      <4>5. u.next_exp >= 2 /\ Len(p) = u.next_exp - 2
        BY <2>3, <2>5, <4>1, <4>2, <4>3
      <4>6. \A k \in 1 .. Len(p) : p[k].seq = k + 1
        BY <4>2, <4>4
      <4> QED BY <4>5, <4>6 DEF Counted
    <3> QED BY <3>1, <3>2
  <2> HIDE DEF p
  <2> QED BY <2>2, <2>4, <2>5, <2>6 DEF LoopStates
<1> QED BY <1>2, <1>3

\* So does every row, whatever it deserialises to.
LEMMA ReadAny ==
    ASSUME NEW states \in SUBSET LoopStates, NEW row \in Buffered
    PROVE  ReadRow(states, row) \in SUBSET LoopStates
<1>1. ASSUME NEW s \in states, NEW m \in Readings(s, row)
      PROVE  ReadResponse(s, m) \in LoopStates
  <2>1. s \in LoopStates
    OBVIOUS
  <2>2. m \in Messages
    <3>1. CASE Whole(row)
      <4>1. m = row[1].msg /\ row[1] \in Received
        BY <3>1 DEF Readings, Buffered
      <4> QED BY <4>1 DEF Received
    <3>2. CASE ~Whole(row)
      <4> DEFINE k == s.gateway.next_exp
                 z == [type |-> "damaged", n |-> 0]
      <4>1. k \in Nat /\ z \in Bodies
        BY <2>1 DEF LoopStates, Gateways, Bodies
      <4>2. m \in [seq : {0, k}, client : Clients \cup {INVALID}, body : {z}]
        BY <3>2 DEF Readings
      <4>3. Clients \cup {INVALID} \subseteq Int
        BY ResponsesAssumption DEF Clients, INVALID
      <4> HIDE DEF k, z
      <4> QED BY <4>1, <4>2, <4>3 DEF Messages
    <3> QED BY <3>1, <3>2
  <2> QED BY <2>1, <2>2, ReadCounts
<1> QED BY <1>1 DEF ReadRow

-----------------------------------------------------------------------------
\* A read.

\* The buffer of the loop.
Buffer(c, n) == Filled(gateways[c].inbound, SubSeq(to_client[c], 1, n))

\* The cells of a read, its rows, and what is left of them.
LEMMA BufferTyped ==
    ASSUME Typed, NEW c \in Clients, NEW n \in 1 .. Len(to_client[c]), NEW q \in Nat,
           Len(gateways[c].inbound) = q % Parts
    PROVE  /\ SubSeq(to_client[c], 1, n) \in Seq(Received)
           /\ Len(SubSeq(to_client[c], 1, n)) = n
           /\ Rows(Buffer(c, n)) \in Seq(Buffered)
           /\ Shifted(Buffer(c, n)) \in Seq(Received)
           /\ Len(Shifted(Buffer(c, n))) = (q + n) % Parts
<1> DEFINE r == to_client[c]
           left == gateways[c].inbound
           chunk == SubSeq(r, 1, n)
           cells == Buffer(c, n)
<1>0. Parts \in Nat \ {0} /\ r \in Seq(Received) /\ left \in Seq(Received)
  <2>1. gateways[c] \in Gateways /\ r \in Seq(Received)
    BY DEF Typed
  <2> QED BY <2>1, StreamAssumption DEF Gateways
<1>c. cells = Filled(left, chunk)
  BY DEF Buffer
<1>l. Len(left) = q % Parts /\ n \in 1 .. Len(r)
  OBVIOUS
<1> HIDE DEF r, left, cells
<1>1. chunk \in Seq(Received) /\ Len(chunk) = n
  BY <1>0, <1>l
<1> HIDE DEF chunk
<1>2. chunk # <<>> /\ chunk[1] \in Received /\ Len(chunk) \in Nat /\ Len(left) \in Nat
      /\ n \in Nat
  BY <1>0, <1>1, <1>l
<1>3. [chunk[1] EXCEPT !.part = 0] \in Received
  BY <1>2 DEF Received
<1>4. B!Filled(left, chunk) = cells /\ B!Shifted(cells) = Shifted(cells)
      /\ B!Rows(cells) = Rows(cells)
  BY <1>c, SameStreams
<1>5. /\ cells \in Seq(Received) /\ Shifted(cells) \in Seq(Received)
      /\ Len(cells) = Len(left) + n
  <2>1. B!Filled(left, chunk) \in Seq(Received) /\ B!Shifted(B!Filled(left, chunk)) \in Seq(Received)
    BY <1>0, <1>1, <1>2, <1>3, StreamAssumption, B!FilledTyped
  <2>2. Len(B!Filled(left, chunk)) = Len(left) + Len(chunk)
    BY <1>2, StreamAssumption, B!FilledIs
  <2> QED BY <1>1, <1>4, <2>1, <2>2
<1>6. Rows(cells) \in Seq(Buffered) /\ Len(Shifted(cells)) = Len(cells) % Parts
  <2>1. LET x == Len(cells) \div Parts
        IN  /\ x \in Nat
            /\ B!Rows(cells) \in Seq({row \in Seq(Received) : row[1] \in Received})
            /\ Len(B!Rows(cells)) = x
            /\ \A i \in 1 .. x :
                 /\ B!Rows(cells)[i] \in Seq(Received) /\ Len(B!Rows(cells)[i]) = Parts
                 /\ \A k \in 1 .. Parts :
                      B!Rows(cells)[i][k] = cells[(i - 1) * Parts + k]
            /\ Len(B!Shifted(cells)) = Len(cells) % Parts
    BY <1>5, StreamAssumption, B!RowsOf, ZenonT(60)
  <2>2. /\ B!Rows(cells) \in Seq({row \in Seq(Received) : row[1] \in Received})
        /\ Len(B!Shifted(cells)) = Len(cells) % Parts
    BY <2>1, Zenon
  <2> QED BY <1>4, <2>2 DEF Buffered
<1>7. Len(cells) % Parts = (q + n) % Parts
  <2>1. (q + n) % Parts = ((q % Parts) + n) % Parts
    BY <1>0, <1>2, DividedPlus
  <2> QED BY <1>5, <1>l, <2>1
<1> QED BY <1>1, <1>5, <1>6, <1>7 DEF cells, chunk, r

\* Where the loop may end.
LEMMA ReadLoop ==
    ASSUME Typed, NEW c \in Clients, NEW n \in 1 .. Len(to_client[c]), NEW q \in Nat,
           ReadSoFar(c, q)
    PROVE  FoldLeft(ReadRow, {Start(c)}, Rows(Buffer(c, n))) \subseteq LoopStates
<1> DEFINE T == SUBSET LoopStates
<1>1. Rows(Buffer(c, n)) \in Seq(Buffered)
  BY BufferTyped DEF ReadSoFar
<1>2. {Start(c)} \in T
  <2>1. gateways[c] \in Gateways /\ delivered[c] \in Seq(Messages)
    BY DEF Typed
  <2>2. Counted(gateways[c], delivered[c])
    BY DEF ReadSoFar
  <2> QED BY <2>1, <2>2 DEF Start, LoopStates
<1>3. \A states \in T : \A row \in Buffered : ReadRow(states, row) \in T
  BY ReadAny
<1> HIDE DEF T
<1>4. FoldLeft(ReadRow, {Start(c)}, Rows(Buffer(c, n))) \in T
  BY <1>1, <1>2, <1>3, ReadKeeps
<1> QED BY <1>4 DEF T

\* The cells that are read were sent.
LEMMA ReadSent ==
    ASSUME Typed, Running, NEW c \in Clients, NEW q \in Nat, ReadSoFar(c, q),
           NEW n \in 1 .. Len(to_client[c])
    PROVE  (q + n) \div Parts <= Len(sent[c]) /\ sent[c] # <<>>
<1> DEFINE l == Len(sent[c])
           e == (q + n) \div Parts
<1>0. Parts \in Nat \ {0} /\ l \in Nat /\ n \in Nat \ {0} /\ to_client[c] \in Seq(Received)
  <2>1. to_client[c] \in Seq(Received)
    BY DEF Typed
  <2> QED BY <2>1, SentIs, StreamAssumption
<1>1. q + n <= Parts * l
  <2> DEFINE w == Parts * l
             k == Len(to_client[c])
  <2>1. w \in Int /\ k \in Nat /\ q + k <= w /\ n \in 1 .. k
    BY <1>0 DEF ReadSoFar
  <2> HIDE DEF w, k
  <2>2. q + n <= w
    BY <2>1
  <2> QED BY <2>2 DEF w
<1>2. e \in Nat /\ (q + n) % Parts \in 0 .. Parts - 1 /\ q + n \in Nat
      /\ q + n = Parts * e + ((q + n) % Parts)
  <2>1. q + n \in Nat
    BY <1>0
  <2> QED BY <1>0, <2>1, Quotient
<1>3. sent[c] # <<>>
  <2>1. l = 0 => q + n <= 0
    BY <1>0, <1>1
  <2>2. l # 0
    BY <1>0, <2>1
  <2> QED BY <2>2
<1> HIDE DEF e, l
<1>4. Parts * e <= Parts * l
  <2> DEFINE x == Parts * e
             y == Parts * l
             z == (q + n) % Parts
  <2>1. x \in Int /\ y \in Int /\ z \in Nat /\ q + n = x + z /\ q + n <= y
    BY <1>0, <1>1, <1>2
  <2> HIDE DEF x, y, z
  <2>2. x <= y
    BY <1>2, <2>1
  <2> QED BY <2>2 DEF x, y
<1>5. e <= l
  BY <1>0, <1>2, <1>4
<1> QED BY <1>3, <1>5 DEF e, l

\* The loop over messages that came in one read each.
LEMMA ReadAll ==
    ASSUME Typed, Sound, Running, NEW c \in Clients, NEW q \in Nat, ReadSoFar(c, q),
           c \notin cut, gateways[c].inbound = <<>>, NEW n \in 1 .. Len(to_client[c])
    PROVE  \A s \in FoldLeft(ReadRow, {Start(c)}, Rows(Buffer(c, n))) :
             Between(c, s, (q + n) \div Parts)
<1> DEFINE chunk == SubSeq(to_client[c], 1, n)
           cells == Buffer(c, n)
           rows == Rows(cells)
           base == {Start(c)}
           d == q \div Parts
           e == (q + n) \div Parts
           l == Len(sent[c])
           msgs == Sent(c)
<1>0. Parts \in Nat \ {0} /\ n \in Nat \ {0} /\ l \in Nat /\ e <= l
  BY StreamAssumption, SentIs, ReadSent
<1>1. /\ gateways[c] \in Gateways /\ delivered[c] \in Seq(Messages)
      /\ Len(gateways[c].inbound) = q % Parts
  BY DEF Typed, ReadSoFar
<1>2. /\ chunk \in Seq(Received) /\ Len(chunk) = n
      /\ rows \in Seq(Buffered)
  BY <1>1, BufferTyped
<1>3. B!Follow(chunk, msgs, q)
  <2>1. to_client[c] \in Seq(Received)
    BY DEF Typed
  <2>2. n \in 0 .. Len(to_client[c])
    BY <2>1
  <2>3. B!Follow(to_client[c], msgs, q)
    BY DEF ReadSoFar
  <2> QED BY <2>1, <2>2, <2>3, StreamAssumption, B!TakeFollows
<1>4. cells = Filled(<<>>, chunk) /\ q % Parts = 0
  BY <1>1 DEF Buffer
<1> HIDE DEF chunk
<1>5. /\ d \in Nat /\ e \in Nat /\ d <= e
      /\ Len(rows) = e - d
      /\ \A i \in 1 .. e - d : Whole(rows[i]) /\ rows[i][1].msg = msgs[d + i]
  <2>1. Len(chunk) \in Nat \ {0}
    BY <1>0, <1>2
  <2>2. /\ B!Filled(<<>>, chunk) = cells
        /\ B!Rows(cells) = Rows(cells) /\ B!Shifted(cells) = Shifted(cells)
        /\ \A row : B!Whole(row) = Whole(row)
    BY <1>4, SameStreams
  <2> HIDE DEF cells, msgs, rows
  <2>3. LET f == B!Filled(<<>>, chunk)
        IN  /\ q \div Parts \in Nat /\ Len(B!Rows(f)) \in Nat
            /\ \E S : B!Rows(f) \in Seq(S)
            /\ (q + Len(chunk)) \div Parts = (q \div Parts) + Len(B!Rows(f))
            /\ \A i \in 1 .. Len(B!Rows(f)) :
                 /\ B!Whole(B!Rows(f)[i])
                 /\ B!Rows(f)[i][1].msg = msgs[(q \div Parts) + i]
            /\ Len(B!Shifted(f)) = (q + Len(chunk)) % Parts
    BY <1>3, <1>4, <2>1, StreamAssumption, B!ReadWhole, ZenonT(60)
  <2> DEFINE x == Len(rows)
  <2>4. /\ d \in Nat /\ x \in Nat /\ e = d + x
        /\ \A i \in 1 .. x : Whole(rows[i]) /\ rows[i][1].msg = msgs[d + i]
    BY <1>2, <2>2, <2>3 DEF rows
  <2> HIDE DEF d, e, x
  <2>5. e - d = x /\ e \in Nat /\ d <= e
    BY <2>4
  <2> QED BY <2>4, <2>5 DEF x
<1> HIDE DEF cells, e, rows, l
<1>6. PICK h : /\ h[0] = base
               /\ \A i \in 1 .. e - d : h[i] = ReadRow(h[i - 1], rows[i])
               /\ FoldLeft(ReadRow, base, rows) = h[e - d]
  <2> HIDE DEF base, d
  <2>1. \E h : /\ h[0] = base
               /\ \A i \in 1 .. Len(rows) : h[i] = ReadRow(h[i - 1], rows[i])
               /\ FoldLeft(ReadRow, base, rows) = h[Len(rows)]
    BY <1>2, ReadSteps
  <2> QED BY <1>5, <2>1
<1> DEFINE Good(i) == \A s \in h[i] : Between(c, s, d + i)
<1>7. Good(0)
  <2>1. d + 0 = d
    BY <1>5
  <2>2. Between(c, Start(c), d)
    BY <1>1 DEF Between, ReadSoFar, Start
  <2> QED BY <1>6, <2>1, <2>2
<1> HIDE DEF d
<1>8. ASSUME NEW i \in 1 .. e - d, Good(i - 1) PROVE Good(i)
  <2> DEFINE k == d + i
  <2>1. k \in 1 .. l /\ k - 1 = d + (i - 1)
    BY <1>0, <1>5
  <2>2. h[i] = ReadRow(h[i - 1], rows[i]) /\ Whole(rows[i]) /\ rows[i][1].msg = msgs[k]
    BY <1>5, <1>6
  <2> HIDE DEF k
  <2>3. ASSUME NEW s \in h[i - 1], NEW m \in Readings(s, rows[i])
        PROVE  Between(c, ReadResponse(s, m), k)
    <3>1. m = msgs[k]
      BY <2>2 DEF Readings
    <3>2. Between(c, s, k - 1)
      BY <1>8, <2>1 DEF k
    <3> QED BY <2>1, <3>1, <3>2, ReadOne DEF l
  <2>4. \A s \in h[i] : Between(c, s, k)
    BY <2>2, <2>3 DEF ReadRow
  <2> QED BY <2>4 DEF k
<1> HIDE DEF Good
<1>9. Good(e - d)
  <2> DEFINE T == {i \in 0 .. e - d : ~Good(i)}
  <2> SUFFICES T = {}
    BY <1>5
  <2> SUFFICES ASSUME T # {} PROVE FALSE
    OBVIOUS
  <2>1. PICK i \in T : \A j \in T : i <= j
    <3>1. T \subseteq Nat
      BY <1>5
    <3> HIDE DEF T
    <3> QED BY <3>1, LeastElement
  <2>2. i # 0
    BY <1>7, <2>1
  <2>3. i \in 1 .. e - d /\ i - 1 \in 0 .. e - d /\ ~(i <= i - 1)
    BY <1>5, <2>1, <2>2
  <2>4. Good(i - 1)
    BY <2>1, <2>3
  <2>5. Good(i)
    BY <1>8, <2>3, <2>4
  <2> QED BY <2>1, <2>5
<1>10. \A s \in h[e - d] : Between(c, s, e)
  <2>1. d + (e - d) = e
    BY <1>5
  <2> QED BY <1>9, <2>1 DEF Good
<1> QED BY <1>6, <1>10 DEF cells, e, rows

-----------------------------------------------------------------------------
\* The invariant holds at first.
LEMMA InitInv == Init => IInv
<1> SUFFICES ASSUME Init PROVE IInv
  OBVIOUS
<1> USE DEF Init
<1>0. MaxNumClients \in Nat \ {0} /\ MaxBufferedResponse \in Nat \ {0} /\ Parts \in Nat \ {0}
  BY ResponsesAssumption, StreamAssumption
<1>1. Typed
  <2>1. Blank \in Messages
    BY DEF Blank, Messages, Bodies
  <2>2. \A c \in Clients : outbound[c] \in [Slots -> Messages]
    BY <2>1
  <2>3. gateways \in [Clients -> Gateways]
    BY DEF Gateways, INVALID
  <2> QED BY <1>0, <2>2, <2>3 DEF Typed, Queues
<1>2. Placed
  BY <1>0 DEF Placed, PlacedAt, Busy, Unwritten, Slots
<1>3. Sound /\ Signalled /\ Connected /\ SocketMissing /\ NoneStranded
  BY <1>0 DEF Sound, Signalled, Connected, SocketMissing, NoneStranded, Clients, Queues, Running
<1>4. Streamed
  <2> SUFFICES ASSUME NEW c \in Clients PROVE ReadSoFar(c, 0)
    BY DEF Streamed
  <2>1. to_client[c] = <<>> /\ sent[c] = <<>> /\ delivered[c] = <<>>
        /\ gateways[c].next_exp = 1 /\ gateways[c].client_id = INVALID
        /\ gateways[c].inbound = <<>>
    OBVIOUS
  <2>2. Len(<<>>) = 0 /\ Parts * 0 = 0 /\ 0 \div Parts = 0 /\ 0 % Parts = 0
    BY <1>0
  <2>3. B!Follow(<<>>, Sent(c), 0)
    BY <2>2 DEF B!Follow
  <2> QED BY <2>1, <2>2, <2>3 DEF ReadSoFar, Passed, Counted
<1> QED BY <1>1, <1>2, <1>3, <1>4 DEF IInv

\* A response that is put into a queue.
LEMMA PushTyped ==
    ASSUME Typed, NEW q \in Queues, NEW c \in Nat,
           NEW type \in {"accepted", "invalid", "reply"}, Push(q, c, type)
    PROVE  /\ responses' \in [Queues -> Seq(Responses)] /\ made' \in [Queues -> Nat]
           /\ \A p \in Queues : \A i \in 1 .. Len(responses'[p]) :
                \/ i \in 1 .. Len(responses[p]) /\ responses'[p][i] = responses[p][i]
                \/ responses'[p][i].client = c /\ responses'[p][i].body.type = type
<1> DEFINE r == [client |-> c, body |-> [type |-> type, n |-> made[q] + 1]]
<1>1. r \in Responses /\ r.client = c /\ r.body.type = type
  <2> DEFINE n == made[q] + 1
  <2>0. made \in [Queues -> Nat]
    BY DEF Typed
  <2>1. n \in Nat
    BY <2>0
  <2> HIDE DEF n
  <2>2. [type |-> type, n |-> n] \in Bodies
    BY <2>1 DEF Bodies
  <2>3. r = [client |-> c, body |-> [type |-> type, n |-> n]]
    BY DEF n
  <2> HIDE DEF r
  <2> QED BY <2>2, <2>3 DEF Responses
<1>2. responses' = [responses EXCEPT ![q] = Append(@, r)] /\ made' = [made EXCEPT ![q] = @ + 1]
  BY DEF Push
<1> HIDE DEF r
<1>3. responses \in [Queues -> Seq(Responses)] /\ made \in [Queues -> Nat]
  BY DEF Typed
<1>4. responses' \in [Queues -> Seq(Responses)] /\ made' \in [Queues -> Nat]
  BY <1>1, <1>2, <1>3
<1>5. ASSUME NEW p \in Queues, NEW i \in 1 .. Len(responses'[p])
      PROVE  \/ i \in 1 .. Len(responses[p]) /\ responses'[p][i] = responses[p][i]
             \/ responses'[p][i] = r
  <2>1. CASE p = q
    <3>1. responses'[p] = Append(responses[p], r) /\ responses[p] \in Seq(Responses)
      BY <1>2, <1>3, <2>1
    <3> QED BY <1>1, <3>1
  <2>2. CASE p # q
    BY <1>2, <1>3, <2>2
  <2> QED BY <2>1, <2>2
<1> QED BY <1>1, <1>4, <1>5

\* A handler and a response that is being processed have their client.
LEMMA InHand ==
    ASSUME Typed
    PROVE  /\ loop.at = "write" => loop.conn \in Clients
           /\ worker.at # "poll" => worker.at \in {"serialise", "notify"} /\ worker.response \in Responses
           /\ worker.queue \in Queues
<1>1. /\ loop \in [at : {"idle", "accept"}] \cup [at : {"write"}, conn : Clients]
      /\ worker \in [at : {"poll"}, queue : Queues] \cup
                    [at : {"serialise", "notify"}, queue : Queues, response : Responses]
  BY DEF Typed
<1>2. CASE loop \in [at : {"write"}, conn : Clients]
  BY <1>1, <1>2
<1>3. CASE loop \in [at : {"idle", "accept"}]
  BY <1>1, <1>3
<1> QED BY <1>1, <1>2, <1>3

\* What uv_write is given: the next response, whole, or damaged when its slot is
\* still being written.
LEMMA WriteFacts ==
    ASSUME IInv, WriteToSocket
    PROVE  \E c \in Clients, m \in Messages, early \in BOOLEAN :
             /\ Running /\ loop.at = "write" /\ loop.conn = c
             /\ loop' = [at |-> "write", conn |-> c]
             /\ write_queue[c] # <<>>
             /\ write_queue' = [write_queue EXCEPT ![c] = Tail(@)]
             /\ sent' = [sent EXCEPT ![c] = Append(@, [msg |-> m, early |-> early])]
             /\ to_client' = IF conns[c] = "open"
                             THEN [to_client EXCEPT ![c] = @ \o Cells(m)] ELSE to_client
             /\ IF early THEN Len(sent[c]) + 1 >= 2 /\ m \in Damaged(c, Len(sent[c]) + 1)
                ELSE m = Intact(c, Len(sent[c]) + 1)
<1> DEFINE c == loop.conn
           slot == Head(write_queue[c])
           k == Len(sent[c]) + 1
           early == BeingWritten(c, slot)
<1>0. Typed /\ Placed /\ Signalled
  BY DEF IInv
<1>1. c \in Clients /\ c \in Nat /\ write_queue[c] # <<>>
  BY <1>0, InHand DEF WriteToSocket, Clients
<1>2. PICK m \in SlotReads(c, slot) :
        /\ sent' = [sent EXCEPT ![c] = Append(@, [msg |-> m, early |-> early])]
        /\ to_client' = IF conns[c] = "open"
                        THEN [to_client EXCEPT ![c] = @ \o Cells(m)] ELSE to_client
  BY DEF WriteToSocket
<1>3. /\ write_queue[c] \in Seq(Slots) /\ Len(sent[c]) \in Nat /\ numbered[c] \in Seq(Responses)
      /\ next_send[c] \in Nat /\ next_outgoing_seq[c] \in Nat
      /\ outbound[c] \in [Slots -> Messages] /\ early \in BOOLEAN
  <2>1. /\ write_queue \in [Clients -> Seq(Slots)] /\ numbered \in [Clients -> Seq(Responses)]
        /\ next_send \in [Clients -> 0 .. MaxBufferedResponse]
        /\ next_outgoing_seq \in [Clients -> Nat]
        /\ outbound \in [Clients -> [Slots -> Messages]]
    BY <1>0 DEF Typed
  <2>2. next_send[c] \in 0 .. MaxBufferedResponse
    BY <1>1, <2>1
  <2>3. next_send[c] \in Nat
    BY <2>2, ResponsesAssumption
  <2>4. early \in BOOLEAN
    BY DEF BeingWritten
  <2>5. Len(sent[c]) \in Nat
    BY <1>0, <1>1, SentIs
  <2> HIDE DEF c, slot, early
  <2> QED BY <1>1, <2>1, <2>3, <2>4, <2>5
<1>4. /\ Len(write_queue[c]) \in Nat \ {0} /\ slot = write_queue[c][1] /\ slot \in Slots
  BY <1>1, <1>3
<1>5. /\ slot = k - 1 /\ k \in Nat \ {0} /\ Len(numbered[c]) >= k
  <2>1. /\ Len(numbered[c]) = Len(sent[c]) + Len(write_queue[c])
        /\ \A j \in 1 .. Len(write_queue[c]) : write_queue[c][j] = Len(sent[c]) + j - 1
    BY <1>0, <1>1 DEF Placed, PlacedAt
  <2>2. write_queue[c][1] = Len(sent[c]) + 1 - 1
    BY <1>4, <2>1
  <2> DEFINE l == Len(sent[c])
             w == Len(write_queue[c])
  <2> HIDE DEF l, w
  <2>3. l \in Nat /\ w \in Nat \ {0} /\ Len(numbered[c]) = l + w /\ slot = l + 1 - 1
    BY <1>3, <1>4, <2>1, <2>2 DEF l, w
  <2>4. slot = (l + 1) - 1 /\ l + 1 \in Nat \ {0} /\ l + w >= l + 1
    BY <2>3
  <2> QED BY <2>3, <2>4 DEF l
<1>6. CASE early
  <2>1. /\ Unwritten(c) /\ Busy(c) /\ next_send[c] = slot
    BY <1>6 DEF BeingWritten, Unwritten, Busy
  <2>2. next_outgoing_seq[c] = k /\ outbound[c][slot] = Blank
    <3>1. /\ next_send[c] = Len(numbered[c]) - 1
          /\ next_outgoing_seq[c] = Len(numbered[c]) + 0
          /\ outbound[c][slot] = IF slot < next_send[c] THEN Intact(c, slot + 1) ELSE Blank
      BY <1>0, <1>1, <1>4, <2>1 DEF Placed, PlacedAt
    <3> HIDE DEF slot, k
    <3> QED BY <1>3, <1>5, <2>1, <3>1
  <2>3. k >= 2
    BY <1>0, <1>1, <2>2 DEF Signalled, WriteToSocket
  <2>4. SlotReads(c, slot) = {Blank, [Blank EXCEPT !.seq = k],
                              [[Blank EXCEPT !.seq = k] EXCEPT !.client = c]}
    BY <1>6, <2>2 DEF SlotReads
  <2>5. m \in Damaged(c, k)
    <3>1. [Blank EXCEPT !.seq = k] = [seq |-> k, client |-> 0, body |-> Blank.body]
      BY DEF Blank
    <3>2. [[Blank EXCEPT !.seq = k] EXCEPT !.client = c]
            = [seq |-> k, client |-> c, body |-> Blank.body]
      <4> DEFINE x == [seq |-> k, client |-> 0, body |-> Blank.body]
                 y == [x EXCEPT !.client = c]
      <4>1. x \in Messages /\ x.seq = k /\ x.body = Blank.body
        BY <1>5 DEF Messages, Blank, Bodies
      <4> HIDE DEF x, c, k
      <4>2. y \in Messages /\ y.seq = x.seq /\ y.client = c /\ y.body = x.body
        BY <1>1, <4>1 DEF Messages
      <4> HIDE DEF y
      <4>3. y = [seq |-> k, client |-> c, body |-> Blank.body]
        BY <4>1, <4>2 DEF Messages
      <4> QED BY <3>1, <4>3 DEF x, y
    <3> QED BY <1>2, <2>4, <3>1, <3>2 DEF Damaged
  <2>6. m \in Messages
    <3>1. Blank.body \in Bodies /\ Blank \in Messages
      BY DEF Blank, Bodies, Messages
    <3> QED BY <1>1, <1>5, <2>5, <3>1 DEF Damaged, Messages
  <2> QED BY <1>1, <1>2, <1>3, <1>6, <2>3, <2>5, <2>6 DEF WriteToSocket, AfterWrite
<1>7. CASE ~early
  <2>1. m = outbound[c][slot]
    BY <1>2, <1>7 DEF SlotReads
  <2>2. slot < next_send[c]
    <3>1. /\ next_send[c] = Len(numbered[c]) - (IF Unwritten(c) THEN 1 ELSE 0)
          /\ Unwritten(c) => next_send[c] # slot
      BY <1>0, <1>1, <1>7 DEF Placed, PlacedAt, BeingWritten, Unwritten
    <3> DEFINE l == Len(numbered[c])
               x == next_send[c]
    <3>2. l \in Nat /\ x \in Nat /\ l >= k
      BY <1>3, <1>5
    <3> HIDE DEF slot, k, l, x
    <3>3. CASE Unwritten(c)
      <4>1. x = l - 1 /\ x # slot
        BY <3>1, <3>3 DEF x, l
      <4>2. slot < x
        BY <1>5, <3>2, <4>1
      <4> QED BY <4>2 DEF x
    <3>4. CASE ~Unwritten(c)
      <4>1. x = l - 0
        BY <3>1, <3>4 DEF x, l
      <4>2. slot < x
        BY <1>5, <3>2, <4>1
      <4> QED BY <4>2 DEF x
    <3> QED BY <3>3, <3>4
  <2>3. m = Intact(c, slot + 1) /\ slot + 1 = k
    <3>1. outbound[c][slot] = IF slot < next_send[c] THEN Intact(c, slot + 1) ELSE Blank
      BY <1>0, <1>1, <1>4 DEF Placed, PlacedAt
    <3> HIDE DEF slot, k
    <3> QED BY <1>5, <2>1, <2>2, <3>1
  <2>4. m \in Messages
    BY <1>3, <1>4, <2>1
  <2> QED BY <1>1, <1>2, <1>3, <1>7, <2>3, <2>4 DEF WriteToSocket, AfterWrite
<1> QED BY <1>6, <1>7

\* What PushIndex does: it fails and changes nothing else, or takes the next slot.
LEMMA PushFacts ==
    ASSUME IInv, PushIndex
    PROVE  \/ /\ fault' \in {"no socket", "overrun"}
              /\ UNCHANGED <<worker, next_send, write_queue, numbered>>
           \/ \E c \in Clients, r \in Responses :
                /\ Running /\ worker.at = "poll" /\ responses[worker.queue] # <<>>
                /\ r = Head(responses[worker.queue]) /\ r.client = c
                /\ conns[c] # "none" /\ next_send[c] \in Slots
                /\ UNCHANGED <<next_send, fault>>
                /\ write_queue' = [write_queue EXCEPT ![c] = Append(@, next_send[c])]
                /\ numbered' = [numbered EXCEPT ![c] = Append(@, r)]
                /\ worker' = [at |-> "serialise", queue |-> worker.queue, response |-> r]
<1> DEFINE r == Head(responses[worker.queue])
           c == r.client
<1>1. Typed
  BY DEF IInv
<1>2. r \in Responses
  <2>1. responses \in [Queues -> Seq(Responses)] /\ worker.queue \in Queues
    BY <1>1, InHand DEF Typed
  <2> DEFINE s == responses[worker.queue]
  <2>2. s \in Seq(Responses) /\ s # <<>>
    BY <2>1 DEF PushIndex
  <2> HIDE DEF s
  <2>3. Head(s) \in Responses
    BY <2>2
  <2> QED BY <2>3 DEF s
<1>3. CASE c \in Clients
  <2>1. NextSlot(c) = next_send[c] /\ next_send \in [Clients -> 0 .. MaxBufferedResponse]
    <3>1. next_send \in [Clients -> 0 .. MaxBufferedResponse] /\ MaxBufferedResponse \in Nat
      BY <1>1, ResponsesAssumption DEF Typed
    <3>2. next_send[c] \in 0 .. MaxBufferedResponse
      BY <1>3, <3>1
    <3> DEFINE x == next_send[c]
    <3>3. ~(x > MaxBufferedResponse)
      BY <3>1, <3>2
    <3> QED BY <3>1, <3>3 DEF NextSlot
  <2>2. [next_send EXCEPT ![c] = next_send[c]] = next_send
    BY <1>3, <2>1
  <2>3. \/ /\ fault' \in {"no socket", "overrun"}
           /\ UNCHANGED <<worker, next_send, write_queue, numbered>>
        \/ /\ conns[c] # "none" /\ NextSlot(c) \in Slots
           /\ next_send' = [next_send EXCEPT ![c] = NextSlot(c)]
           /\ write_queue' = [write_queue EXCEPT ![c] = Append(@, NextSlot(c))]
           /\ numbered' = [numbered EXCEPT ![c] = Append(@, r)]
           /\ worker' = [at |-> "serialise", queue |-> worker.queue, response |-> r]
           /\ UNCHANGED fault
    BY DEF PushIndex, Fail
  <2>4. Running /\ worker.at = "poll" /\ responses[worker.queue] # <<>>
    BY DEF PushIndex, Polling
  <2>5. r = Head(responses[worker.queue]) /\ r.client = c
    OBVIOUS
  <2> HIDE DEF r, c
  <2>6. CASE fault' \in {"no socket", "overrun"}
             /\ UNCHANGED <<worker, next_send, write_queue, numbered>>
    BY <2>6
  <2>7. CASE /\ conns[c] # "none" /\ NextSlot(c) \in Slots
             /\ next_send' = [next_send EXCEPT ![c] = NextSlot(c)]
             /\ write_queue' = [write_queue EXCEPT ![c] = Append(@, NextSlot(c))]
             /\ numbered' = [numbered EXCEPT ![c] = Append(@, r)]
             /\ worker' = [at |-> "serialise", queue |-> worker.queue, response |-> r]
             /\ UNCHANGED fault
    <3>1. /\ conns[c] # "none" /\ next_send[c] \in Slots
          /\ UNCHANGED <<next_send, fault>>
          /\ write_queue' = [write_queue EXCEPT ![c] = Append(@, next_send[c])]
          /\ numbered' = [numbered EXCEPT ![c] = Append(@, r)]
          /\ worker' = [at |-> "serialise", queue |-> worker.queue, response |-> r]
      BY <2>1, <2>2, <2>7
    <3> QED BY <1>2, <1>3, <2>4, <2>5, <3>1
  <2> QED BY <2>3, <2>6, <2>7
<1>4. CASE c \notin Clients
  BY <1>4 DEF PushIndex, Fail
<1> QED BY <1>3, <1>4

\* What a read does: it passes on what may have come of the rows, and a message that
\* was cut is remembered.
LEMMA ReadFacts ==
    ASSUME IInv, NEW c \in Clients, NEW n \in 1 .. Len(to_client[c]), GatewayRead(c, n)
    PROVE  /\ Running /\ UNCHANGED fault
           /\ gateways' \in [Clients -> Gateways] /\ delivered' \in [Clients -> Seq(Messages)]
           /\ \A d \in Clients \ {c} : gateways'[d] = gateways[d] /\ delivered'[d] = delivered[d]
           /\ cut \subseteq cut' /\ cut' \subseteq cut \cup {c}
           /\ \A q \in Nat : ReadSoFar(c, q) =>
                /\ (q + n) \div Parts <= Len(sent[c]) /\ sent[c] # <<>>
                /\ Len(gateways'[c].inbound) = (q + n) % Parts
                /\ Counted(gateways'[c], delivered'[c])
                /\ c \notin cut' =>
                     Passed(c, Sent(c), gateways'[c], delivered'[c], (q + n) \div Parts)
<1> DEFINE ends == FoldLeft(ReadRow, {Start(c)}, Rows(Buffer(c, n)))
           i == Shifted(Buffer(c, n))
<1>1. /\ Typed /\ Sound /\ Running /\ \E q \in Nat : ReadSoFar(c, q)
      /\ gateways \in [Clients -> Gateways] /\ delivered \in [Clients -> Seq(Messages)]
  BY DEF IInv, GatewayRead, Streamed, Typed
<1>2. PICK s \in ends :
        /\ gateways' = [gateways EXCEPT ![c] = [s.gateway EXCEPT !.inbound = i]]
        /\ delivered' = [delivered EXCEPT ![c] = s.passed]
  BY DEF GatewayRead, Buffer
<1>3. cut' = (IF gateways[c].inbound = <<>> THEN cut ELSE cut \cup {c}) /\ UNCHANGED fault
  BY DEF GatewayRead
<1>4. s \in LoopStates
  BY <1>1, ReadLoop
<1>5. ASSUME NEW q \in Nat, ReadSoFar(c, q)
      PROVE  Len(i) = (q + n) % Parts /\ i \in Seq(Received)
  BY <1>1, <1>5, BufferTyped DEF ReadSoFar
<1>6. ASSUME NEW q \in Nat, ReadSoFar(c, q), c \notin cut'
      PROVE  Between(c, s, (q + n) \div Parts)
  <2>1. c \notin cut /\ gateways[c].inbound = <<>>
    BY <1>3, <1>6
  <2> QED BY <1>1, <1>6, <2>1, ReadAll
<1> HIDE DEF ends, i
<1>7. i \in Seq(Received)
  BY <1>1, <1>5
<1>8. s.gateway \in Gateways /\ s.passed \in Seq(Messages) /\ Counted(s.gateway, s.passed)
  BY <1>4 DEF LoopStates
<1> DEFINE g == [s.gateway EXCEPT !.inbound = i]
<1>9. /\ g \in Gateways /\ g.inbound = i /\ g.next_exp = s.gateway.next_exp
      /\ g.client_id = s.gateway.client_id
  <2> DEFINE Z == Seq(Received)
             y == s.gateway
  <2>1. y \in [client_id : Int, next_exp : Nat, inbound : Z] /\ i \in Z
    BY <1>7, <1>8 DEF Gateways
  <2> HIDE DEF Z, y
  <2>2. /\ [y EXCEPT !.inbound = i] \in [client_id : Int, next_exp : Nat, inbound : Z]
        /\ [y EXCEPT !.inbound = i].inbound = i
        /\ [y EXCEPT !.inbound = i].next_exp = y.next_exp
        /\ [y EXCEPT !.inbound = i].client_id = y.client_id
    BY <2>1
  <2> QED BY <2>2 DEF Gateways, Z, y
<1>10. gateways'[c] = g /\ delivered'[c] = s.passed
  BY <1>1, <1>2
<1> HIDE DEF g
<1>11. /\ gateways' \in [Clients -> Gateways] /\ delivered' \in [Clients -> Seq(Messages)]
       /\ \A d \in Clients \ {c} : gateways'[d] = gateways[d] /\ delivered'[d] = delivered[d]
  BY <1>1, <1>2, <1>8, <1>9 DEF g
<1>12. ASSUME NEW q \in Nat, ReadSoFar(c, q)
       PROVE  /\ (q + n) \div Parts <= Len(sent[c]) /\ sent[c] # <<>>
              /\ Len(g.inbound) = (q + n) % Parts
              /\ Counted(g, s.passed)
              /\ c \notin cut' => Passed(c, Sent(c), g, s.passed, (q + n) \div Parts)
  <2>1. (q + n) \div Parts <= Len(sent[c]) /\ sent[c] # <<>>
    BY <1>1, <1>12, ReadSent
  <2>2. Len(g.inbound) = (q + n) % Parts
    BY <1>5, <1>9, <1>12
  <2>3. Counted(g, s.passed)
    BY <1>8, <1>9 DEF Counted
  <2>4. c \notin cut' => Passed(c, Sent(c), g, s.passed, (q + n) \div Parts)
    BY <1>6, <1>9, <1>12 DEF Between, Passed
  <2> QED BY <2>1, <2>2, <2>3, <2>4
<1>13. cut \subseteq cut' /\ cut' \subseteq cut \cup {c}
  BY <1>3
<1> QED BY <1>1, <1>3, <1>10, <1>11, <1>12, <1>13

\* Between two responses the response thread only changes the queue it looks at.
LEMMA SwitchPolls ==
    ASSUME Typed, SwitchQueue
    PROVE  /\ worker.at = "poll" /\ worker'.at = "poll"
           /\ worker' \in [at : {"poll"}, queue : Queues]
<1>1. worker \in [at : {"poll"}, queue : Queues] /\ worker.at = "poll"
  <2>1. worker.at = "poll"
    BY DEF SwitchQueue, Polling
  <2>2. \/ worker \in [at : {"poll"}, queue : Queues]
        \/ worker \in [at : {"serialise", "notify"}, queue : Queues, response : Responses]
    BY DEF Typed
  <2> QED BY <2>1, <2>2
<1> DEFINE p == CHOOSE q \in Queues : q # worker.queue
<1>2. p \in Queues
  <2>1. \E q \in Queues : q # worker.queue
    BY DEF Queues
  <2> QED BY <2>1
<1> HIDE DEF p
<1>3. worker' \in [at : {"poll"}, queue : Queues]
  <2>1. worker' = [worker EXCEPT !.queue = p]
    BY DEF SwitchQueue, p
  <2> QED BY <1>1, <1>2, <2>1
<1> QED BY <1>1, <1>3

\* The types after a step of the loop that changes only connections and what is
\* pushed.
LEMMA TypedFrame ==
    ASSUME Typed, conns' \in [Clients -> {"none", "open", "closed"}],
           responses' \in [Queues -> Seq(Responses)], made' \in [Queues -> Nat],
           UNCHANGED <<loop, next_client_id, workerVars, gatewayVars, write_queue,
                       async, to_client, sent, fault>>
    PROVE  Typed'
<1>1. UNCHANGED <<loop, next_client_id, worker, next_outgoing_seq, next_send, outbound,
                  numbered, gateways, delivered, cut, write_queue, async, to_client, sent,
                  fault>>
  BY DEF workerVars, gatewayVars
<1> QED BY <1>1 DEF Typed

\* Every step keeps the types.
LEMMA TypedStep ==
    ASSUME IInv, Next
    PROVE  Typed'
<1>0. /\ MaxNumClients \in Nat \ {0} /\ MaxBufferedResponse \in Nat \ {0}
      /\ Typed /\ Placed
  BY ResponsesAssumption DEF IInv
<1>1. CASE Accept
  <2>1. next_client_id \in Nat /\ "server" \in Queues
    <3>1. next_client_id \in 0 .. MaxNumClients
      BY <1>0 DEF Typed
    <3> QED BY <1>0, <3>1 DEF Queues
  <2>2. responses' \in [Queues -> Seq(Responses)] /\ made' \in [Queues -> Nat]
    BY <1>0, <1>1, <2>1, PushTyped DEF Accept
  <2> QED BY <1>0, <1>1, <2>2 DEF Typed, Accept, workerVars, gatewayVars
<1>2. CASE Store
  <2>1. conns' \in [Clients -> {"none", "open", "closed"}] /\ next_client_id' \in 0 .. MaxNumClients
    <3>1. /\ conns \in [Clients -> {"none", "open", "closed"}]
          /\ next_client_id \in 0 .. MaxNumClients
      BY <1>0 DEF Typed
    <3>2. \/ /\ next_client_id \in Clients
             /\ conns' = [conns EXCEPT ![next_client_id] = "open"]
             /\ next_client_id' = next_client_id + 1
          \/ UNCHANGED <<conns, next_client_id>>
      BY <1>2 DEF Store
    <3> QED BY <1>0, <3>1, <3>2 DEF Clients
  <2> QED BY <1>0, <1>2, <2>1 DEF Typed, Store, Fail, workerVars, gatewayVars
<1>3. CASE \E c \in Clients : Reject(c)
  <2> PICK c \in Clients : Reject(c)
    BY <1>3
  <2>1. c \in Nat /\ "server" \in Queues
    BY <1>0 DEF Clients, Queues
  <2>2. responses' \in [Queues -> Seq(Responses)] /\ made' \in [Queues -> Nat]
    BY <1>0, <2>1, PushTyped DEF Reject
  <2>3. UNCHANGED <<loop, next_client_id, workerVars, gatewayVars, write_queue,
                    async, to_client, sent, fault>>
    BY DEF Reject
  <2>4. conns' \in [Clients -> {"none", "open", "closed"}]
    BY <1>0 DEF Typed, Reject
  <2> QED BY <1>0, <2>2, <2>3, <2>4, TypedFrame
<1>4. CASE \E c \in Clients : OnClose(c)
  <2>1. /\ UNCHANGED <<loop, next_client_id, workerVars, gatewayVars, write_queue,
                       async, to_client, sent, fault>>
        /\ UNCHANGED <<responses, made>>
    BY <1>4 DEF OnClose
  <2>2. conns' \in [Clients -> {"none", "open", "closed"}]
    <3>1. conns \in [Clients -> {"none", "open", "closed"}]
      BY <1>0 DEF Typed
    <3> QED BY <1>4, <3>1 DEF OnClose, AfterClose
  <2>3. responses' \in [Queues -> Seq(Responses)] /\ made' \in [Queues -> Nat]
    BY <1>0, <2>1 DEF Typed
  <2> QED BY <1>0, <2>1, <2>2, <2>3, TypedFrame
<1>5. CASE \E c \in Clients : WriteMessage(c)
  <2> PICK c \in Clients : WriteMessage(c)
    BY <1>5
  <2>1. loop' = [at |-> "write", conn |-> c] /\ async' = [async EXCEPT ![c] = FALSE]
    BY DEF WriteMessage
  <2>2. loop' \in [at : {"write"}, conn : Clients]
    BY <2>1
  <2>3. async' \in [Clients -> BOOLEAN]
    BY <1>0, <2>1 DEF Typed
  <2> QED BY <1>0, <2>2, <2>3 DEF Typed, WriteMessage, workerVars, gatewayVars
<1>6. CASE WriteToSocket
  <2> PICK c \in Clients, m \in Messages, early \in BOOLEAN :
        /\ loop' = [at |-> "write", conn |-> c]
        /\ write_queue[c] # <<>>
        /\ write_queue' = [write_queue EXCEPT ![c] = Tail(@)]
        /\ sent' = [sent EXCEPT ![c] = Append(@, [msg |-> m, early |-> early])]
        /\ to_client' = IF conns[c] = "open"
                        THEN [to_client EXCEPT ![c] = @ \o Cells(m)] ELSE to_client
    BY <1>6, WriteFacts
  <2>1. loop' \in [at : {"write"}, conn : Clients]
    OBVIOUS
  <2>2. write_queue' \in [Clients -> Seq(Slots)]
    <3>1. write_queue \in [Clients -> Seq(Slots)]
      BY <1>0 DEF Typed
    <3>2. Tail(write_queue[c]) \in Seq(Slots)
      BY <3>1
    <3> QED BY <3>1, <3>2
  <2>3. sent' \in [Clients -> Seq([msg : Messages, early : BOOLEAN])]
    <3> DEFINE e == [msg |-> m, early |-> early]
               R == [msg : Messages, early : BOOLEAN]
    <3>1. e \in R /\ sent \in [Clients -> Seq(R)]
      BY <1>0 DEF Typed
    <3> HIDE DEF e, R
    <3>2. [sent EXCEPT ![c] = Append(@, e)] \in [Clients -> Seq(R)]
      BY <3>1
    <3> QED BY <3>2 DEF e, R
  <2>4. to_client' \in [Clients -> Seq(Received)]
    <3>1. to_client \in [Clients -> Seq(Received)]
      BY <1>0 DEF Typed
    <3>2. Cells(m) \in Seq(Received)
      <4>1. Cells(m) \in [1 .. Parts -> Received]
        BY StreamAssumption DEF Cells, Received
      <4> QED BY <4>1, StreamAssumption
    <3>3. to_client[c] \o Cells(m) \in Seq(Received)
      BY <3>1, <3>2
    <3> QED BY <3>1, <3>3
  <2> QED BY <1>0, <1>6, <2>1, <2>2, <2>3, <2>4
          DEF Typed, WriteToSocket, workerVars, gatewayVars
<1>7. CASE EndWrite
  BY <1>0, <1>7 DEF Typed, EndWrite, workerVars, gatewayVars
<1>8. CASE SwitchQueue
  <2>1. worker' \in [at : {"poll"}, queue : Queues]
    BY <1>0, <1>8, SwitchPolls
  <2> QED BY <1>0, <1>8, <2>1 DEF Typed, SwitchQueue, gatewayVars
<1>9. CASE PushIndex
  <2>1. CASE fault' \in {"no socket", "overrun"}
             /\ UNCHANGED <<worker, next_send, write_queue, numbered>>
    BY <1>0, <1>9, <2>1 DEF Typed, PushIndex, gatewayVars
  <2>2. CASE \E c \in Clients, r \in Responses :
               /\ next_send[c] \in Slots /\ UNCHANGED <<next_send, fault>>
               /\ write_queue' = [write_queue EXCEPT ![c] = Append(@, next_send[c])]
               /\ numbered' = [numbered EXCEPT ![c] = Append(@, r)]
               /\ worker' = [at |-> "serialise", queue |-> worker.queue, response |-> r]
    <3> PICK c \in Clients, r \in Responses :
               /\ next_send[c] \in Slots /\ UNCHANGED <<next_send, fault>>
               /\ write_queue' = [write_queue EXCEPT ![c] = Append(@, next_send[c])]
               /\ numbered' = [numbered EXCEPT ![c] = Append(@, r)]
               /\ worker' = [at |-> "serialise", queue |-> worker.queue, response |-> r]
      BY <2>2
    <3>1. write_queue' \in [Clients -> Seq(Slots)] /\ numbered' \in [Clients -> Seq(Responses)]
      <4>1. write_queue \in [Clients -> Seq(Slots)] /\ numbered \in [Clients -> Seq(Responses)]
        BY <1>0 DEF Typed
      <4> QED BY <4>1
    <3>2. worker' \in [at : {"serialise", "notify"}, queue : Queues, response : Responses]
      BY <1>0, InHand
    <3> QED BY <1>0, <1>9, <3>1, <3>2 DEF Typed, PushIndex, gatewayVars
  <2> QED BY <1>9, <2>1, <2>2, PushFacts
<1>10. CASE Serialise
  <2> DEFINE c == worker.response.client
             x == [seq |-> next_outgoing_seq[c], client |-> c, body |-> worker.response.body]
  <2>1. /\ worker.at = "serialise" /\ worker.response \in Responses
        /\ c \in Clients /\ c \in Nat /\ worker.queue \in Queues
    BY <1>0, <1>10, InHand DEF Serialise, IInv, Connected, Clients
  <2>2. next_send[c] \in Slots
    BY <1>0, <2>1 DEF Placed, PlacedAt, Unwritten
  <2>3. x \in Messages
    <3>1. next_outgoing_seq \in [Clients -> Nat]
      BY <1>0 DEF Typed
    <3>2. next_outgoing_seq[c] \in Nat /\ worker.response.body \in Bodies
      BY <2>1, <3>1 DEF Responses
    <3> QED BY <2>1, <3>2 DEF Messages
  <2>4. outbound' = [outbound EXCEPT ![c][next_send[c]] = x]
        /\ next_send' = [next_send EXCEPT ![c] = @ + 1]
        /\ worker' = [worker EXCEPT !.at = "notify"]
    BY <1>10 DEF Serialise
  <2> HIDE DEF c, x
  <2>5. outbound' \in [Clients -> [Slots -> Messages]]
    <3>1. outbound \in [Clients -> [Slots -> Messages]]
      BY <1>0 DEF Typed
    <3> QED BY <2>1, <2>2, <2>3, <2>4, <3>1
  <2>6. next_send' \in [Clients -> 0 .. MaxBufferedResponse]
    <3>1. next_send \in [Clients -> 0 .. MaxBufferedResponse]
      BY <1>0 DEF Typed
    <3>2. next_send[c] + 1 \in 0 .. MaxBufferedResponse
      BY <1>0, <2>2 DEF Slots
    <3> QED BY <2>1, <2>4, <3>1, <3>2
  <2>7. worker' \in [at : {"serialise", "notify"}, queue : Queues, response : Responses]
    <3>1. worker \in [at : {"serialise", "notify"}, queue : Queues, response : Responses]
      BY <1>0, <2>1 DEF Typed
    <3> QED BY <2>4, <3>1
  <2> QED BY <1>0, <1>10, <2>5, <2>6, <2>7 DEF Typed, Serialise, gatewayVars
<1>11. CASE Notify
  <2> DEFINE c == worker.response.client
             p == worker.queue
  <2>1. c \in Clients /\ p \in Queues
    BY <1>0, <1>11, InHand DEF Notify, IInv, Connected
  <2>2. /\ async' = [async EXCEPT ![c] = TRUE]
        /\ next_outgoing_seq' = [next_outgoing_seq EXCEPT ![c] = @ + 1]
        /\ responses' = [responses EXCEPT ![p] = Tail(@)]
        /\ worker' = [at |-> "poll", queue |-> p]
    BY <1>11 DEF Notify, NextNumber
  <2> HIDE DEF c, p
  <2>3. async' \in [Clients -> BOOLEAN]
    BY <1>0, <2>2 DEF Typed
  <2>4. next_outgoing_seq' \in [Clients -> Nat]
    <3>1. next_outgoing_seq \in [Clients -> Nat]
      BY <1>0 DEF Typed
    <3> QED BY <2>1, <2>2, <3>1
  <2>5. responses' \in [Queues -> Seq(Responses)]
    <3>1. responses \in [Queues -> Seq(Responses)]
      BY <1>0 DEF Typed
    <3>2. responses[p] # <<>>
      BY <1>11, <2>1 DEF IInv, Connected, Notify, p
    <3>3. Tail(responses[p]) \in Seq(Responses)
      BY <2>1, <3>1, <3>2
    <3> QED BY <2>2, <3>1, <3>3
  <2>6. worker' \in [at : {"poll"}, queue : Queues]
    BY <2>1, <2>2
  <2> QED BY <1>0, <1>11, <2>3, <2>4, <2>5, <2>6 DEF Typed, Notify, gatewayVars
<1>12. CASE \E c \in Clients : EngineResponds(c)
  <2> PICK c \in Clients : EngineResponds(c)
    BY <1>12
  <2>1. c \in Nat /\ "engine" \in Queues
    BY <1>0 DEF Clients, Queues
  <2>2. responses' \in [Queues -> Seq(Responses)] /\ made' \in [Queues -> Nat]
    BY <1>0, <2>1, PushTyped DEF EngineResponds
  <2> QED BY <1>0, <2>2 DEF Typed, EngineResponds, workerVars, gatewayVars
<1>13. CASE \E c \in Clients : \E n \in 1 .. Len(to_client[c]) : GatewayRead(c, n)
  <2> PICK c \in Clients : \E n \in 1 .. Len(to_client[c]) : GatewayRead(c, n)
    BY <1>13
  <2> PICK n \in 1 .. Len(to_client[c]) : GatewayRead(c, n)
    OBVIOUS
  <2>1. to_client' \in [Clients -> Seq(Received)]
    <3>1. to_client \in [Clients -> Seq(Received)]
      BY <1>0 DEF Typed
    <3>2. to_client' = [to_client EXCEPT ![c] = SubSeq(@, n + 1, Len(@))]
      BY DEF GatewayRead
    <3>3. SubSeq(to_client[c], n + 1, Len(to_client[c])) \in Seq(Received)
      BY <3>1, PartsAround
    <3> QED BY <3>1, <3>2, <3>3
  <2>2. /\ gateways' \in [Clients -> Gateways] /\ delivered' \in [Clients -> Seq(Messages)]
        /\ cut' \subseteq cut \cup {c} /\ UNCHANGED fault
    BY ReadFacts
  <2>3. cut' \subseteq Clients
    BY <1>0, <2>2 DEF Typed
  <2> QED BY <1>0, <2>1, <2>2, <2>3 DEF Typed, GatewayRead, workerVars
<1> QED BY <1>1, <1>2, <1>3, <1>4, <1>5, <1>6, <1>7, <1>8, <1>9, <1>10, <1>11, <1>12, <1>13
        DEF Next, LoopThread, ResponseThread

-----------------------------------------------------------------------------
\* A run of slots without its first one.
LEMMA RunTail ==
    ASSUME NEW S, NEW w \in Seq(S), w # <<>>, NEW a \in Nat,
           \A j \in 1 .. Len(w) : w[j] = a + j - 1
    PROVE  /\ Len(Tail(w)) = Len(w) - 1 /\ Len(w) \in Nat \ {0}
           /\ \A j \in 1 .. Len(Tail(w)) : Tail(w)[j] = (a + 1) + j - 1
<1> DEFINE n == Len(w)
<1>1. n \in Nat \ {0} /\ Len(Tail(w)) = n - 1 /\ \A j \in 1 .. n - 1 : Tail(w)[j] = w[j + 1]
  <2>1. Len(Tail(w)) = n - 1 /\ n \in Nat \ {0}
    OBVIOUS
  <2> QED BY <2>1, HeadTailProperties
<1> HIDE DEF n
<1>2. \A j \in 1 .. n : w[j] = a + j - 1
  BY DEF n
<1>3. ASSUME NEW j \in 1 .. n - 1 PROVE Tail(w)[j] = (a + 1) + j - 1
  <2>1. j + 1 \in 1 .. n
    BY <1>1
  <2>2. w[j + 1] = a + (j + 1) - 1
    BY <1>2, <2>1
  <2> QED BY <1>1, <2>2
<1> QED BY <1>1, <1>3 DEF n

\* The slots of a client that a step does not touch.
LEMMA PlacedFrame ==
    ASSUME NEW c \in Clients, PlacedAt(c), numbered'[c] = numbered[c], sent'[c] = sent[c],
           write_queue'[c] = write_queue[c], next_send'[c] = next_send[c],
           next_outgoing_seq'[c] = next_outgoing_seq[c], outbound'[c] = outbound[c],
           Unwritten(c)' = Unwritten(c), Busy(c)' = Busy(c),
           Busy(c) => worker'.response = worker.response
    PROVE  PlacedAt(c)'
BY DEF PlacedAt, Intact

\* The steps of the response thread and uv_write keep the responses in their slots.
LEMMA PlacedStep ==
    ASSUME IInv, Next
    PROVE  Placed'
<1>0. Typed /\ Connected /\ \A c \in Clients : PlacedAt(c)
  BY DEF IInv, Placed
<1>t. /\ numbered \in [Clients -> Seq(Responses)] /\ write_queue \in [Clients -> Seq(Slots)]
      /\ next_send \in [Clients -> 0 .. MaxBufferedResponse]
      /\ next_outgoing_seq \in [Clients -> Nat]
      /\ outbound \in [Clients -> [Slots -> Messages]]
      /\ sent \in [Clients -> Seq([msg : Messages, early : BOOLEAN])]
      /\ MaxBufferedResponse \in Nat
  BY <1>0, ResponsesAssumption DEF Typed
<1>1. CASE /\ UNCHANGED <<numbered, sent, write_queue, next_send, next_outgoing_seq, outbound>>
           /\ worker' = worker \/ (worker.at = "poll" /\ worker'.at = "poll")
  <2> SUFFICES ASSUME NEW c \in Clients PROVE PlacedAt(c)'
    BY DEF Placed
  <2>1. /\ Unwritten(c)' = Unwritten(c) /\ Busy(c)' = Busy(c)
        /\ Busy(c) => worker'.response = worker.response
    BY <1>1 DEF Unwritten, Busy
  <2> QED BY <1>0, <1>1, <2>1, PlacedFrame
<1>2. CASE WriteToSocket
  <2> PICK c \in Clients, m \in Messages, early \in BOOLEAN :
        /\ write_queue[c] # <<>>
        /\ write_queue' = [write_queue EXCEPT ![c] = Tail(@)]
        /\ sent' = [sent EXCEPT ![c] = Append(@, [msg |-> m, early |-> early])]
    BY <1>2, WriteFacts
  <2>1. UNCHANGED <<worker, numbered, next_send, next_outgoing_seq, outbound>>
    BY <1>2 DEF WriteToSocket, workerVars
  <2>2. \A d \in Clients : Unwritten(d)' = Unwritten(d) /\ Busy(d)' = Busy(d)
    BY <2>1 DEF Unwritten, Busy
  <2>3. ASSUME NEW d \in Clients, d # c PROVE PlacedAt(d)'
    <3>1. write_queue'[d] = write_queue[d] /\ sent'[d] = sent[d]
      BY <1>t, <2>3
    <3> QED BY <1>0, <2>1, <2>2, <3>1, PlacedFrame
  <2>4. PlacedAt(c)'
    <3> DEFINE e == [msg |-> m, early |-> early]
               w == write_queue[c]
               s == sent[c]
    <3>1. e \in [msg : Messages, early : BOOLEAN]
      OBVIOUS
    <3>2. w \in Seq(Slots) /\ w # <<>> /\ s \in Seq([msg : Messages, early : BOOLEAN])
          /\ write_queue'[c] = Tail(w) /\ sent'[c] = Append(s, e)
      BY <1>t
    <3> HIDE DEF e, w, s
    <3>3. /\ Len(numbered[c]) = Len(s) + Len(w)
          /\ \A j \in 1 .. Len(w) : w[j] = Len(s) + j - 1
      BY <1>0 DEF PlacedAt, s, w
    <3>4. Len(sent'[c]) = Len(s) + 1 /\ Len(s) \in Nat
      BY <3>1, <3>2
    <3>5. /\ Len(Tail(w)) = Len(w) - 1 /\ Len(w) \in Nat \ {0}
          /\ \A j \in 1 .. Len(Tail(w)) : Tail(w)[j] = (Len(s) + 1) + j - 1
      BY <3>2, <3>3, <3>4, RunTail
    <3>6. /\ Len(numbered[c]) = Len(sent'[c]) + Len(write_queue'[c])
          /\ \A j \in 1 .. Len(write_queue'[c]) : write_queue'[c][j] = Len(sent'[c]) + j - 1
      <4> DEFINE a == Len(s)
                 b == Len(w)
                 v == Tail(w)
      <4>1. /\ a \in Nat /\ b \in Nat \ {0} /\ Len(v) = b - 1
            /\ Len(numbered[c]) = a + b /\ Len(sent'[c]) = a + 1 /\ write_queue'[c] = v
            /\ \A j \in 1 .. Len(v) : v[j] = (a + 1) + j - 1
        BY <3>2, <3>3, <3>4, <3>5
      <4> HIDE DEF a, b, v
      <4>2. a + b = (a + 1) + (b - 1)
        BY <4>1
      <4> QED BY <4>1, <4>2
    <3> QED BY <1>0, <2>1, <2>2, <3>6 DEF PlacedAt, Intact
  <2> QED BY <2>3, <2>4 DEF Placed
<1>3. CASE PushIndex
  <2>0. UNCHANGED <<sent, next_outgoing_seq, outbound>>
    BY <1>3 DEF PushIndex
  <2>1. CASE UNCHANGED <<worker, next_send, write_queue, numbered>>
    BY <1>1, <2>0, <2>1
  <2>2. CASE \E c \in Clients, r \in Responses :
               /\ worker.at = "poll" /\ r.client = c
               /\ next_send[c] \in Slots /\ UNCHANGED next_send
               /\ write_queue' = [write_queue EXCEPT ![c] = Append(@, next_send[c])]
               /\ numbered' = [numbered EXCEPT ![c] = Append(@, r)]
               /\ worker' = [at |-> "serialise", queue |-> worker.queue, response |-> r]
    <3> PICK c \in Clients, r \in Responses :
               /\ worker.at = "poll" /\ r.client = c
               /\ next_send[c] \in Slots /\ UNCHANGED next_send
               /\ write_queue' = [write_queue EXCEPT ![c] = Append(@, next_send[c])]
               /\ numbered' = [numbered EXCEPT ![c] = Append(@, r)]
               /\ worker' = [at |-> "serialise", queue |-> worker.queue, response |-> r]
      BY <2>2
    <3>1. /\ \A d \in Clients : ~Unwritten(d) /\ ~Busy(d)
          /\ Unwritten(c)' /\ Busy(c)' /\ worker'.response = r
          /\ \A d \in Clients \ {c} : ~Unwritten(d)' /\ ~Busy(d)'
      BY DEF Unwritten, Busy
    <3>2. ASSUME NEW d \in Clients, d # c PROVE PlacedAt(d)'
      <4>1. write_queue'[d] = write_queue[d] /\ numbered'[d] = numbered[d]
        BY <1>t, <3>2
      <4>2. Unwritten(d)' = Unwritten(d) /\ Busy(d)' = Busy(d) /\ ~Busy(d)
        BY <3>1, <3>2 DEF Unwritten, Busy
      <4> QED BY <1>0, <2>0, <4>1, <4>2, PlacedFrame
    <3>3. PlacedAt(c)'
      <4> DEFINE w == write_queue[c]
                 a == numbered[c]
                 l == Len(a)
                 x == next_send[c]
                 z == Len(sent[c])
      <4>1. /\ w \in Seq(Slots) /\ a \in Seq(Responses) /\ z \in Nat
            /\ write_queue'[c] = Append(w, x) /\ numbered'[c] = Append(a, r)
        BY <1>t
      <4>2. /\ l = z + Len(w) /\ x = l - 0 /\ next_outgoing_seq[c] = l + 1
            /\ \A j \in 1 .. Len(w) : w[j] = z + j - 1
            /\ \A s \in Slots : outbound[c][s] = IF s < x THEN Intact(c, s + 1) ELSE Blank
        BY <1>0, <3>1 DEF PlacedAt
      <4>3. x \in Slots
        OBVIOUS
      <4> HIDE DEF w, a, x, z
      <4>4. /\ Len(w) \in Nat /\ l \in Nat /\ x = l
            /\ Len(write_queue'[c]) = Len(w) + 1 /\ Len(numbered'[c]) = l + 1
            /\ numbered'[c][l + 1] = r
            /\ \A k \in 1 .. l : numbered'[c][k] = a[k]
            /\ \A j \in 1 .. Len(w) : write_queue'[c][j] = w[j]
            /\ write_queue'[c][Len(w) + 1] = x
        <5>1. /\ Append(w, x) \in Seq(Slots) /\ Len(Append(w, x)) = Len(w) + 1
              /\ \A j \in 1 .. Len(w) : Append(w, x)[j] = w[j]
              /\ Append(w, x)[Len(w) + 1] = x
          BY <4>1, <4>3
        <5>2. /\ Len(Append(a, r)) = l + 1 /\ l \in Nat
              /\ \A k \in 1 .. l : Append(a, r)[k] = a[k]
              /\ Append(a, r)[l + 1] = r
          BY <4>1
        <5>3. Len(w) \in Nat /\ x = l
          BY <4>1, <4>2, <5>2
        <5> HIDE DEF l
        <5> QED BY <4>1, <5>1, <5>2, <5>3
      <4> HIDE DEF l
      <4>5. \A j \in 1 .. Len(write_queue'[c]) : write_queue'[c][j] = z + j - 1
        <5> DEFINE b == Len(w)
        <5>1. b \in Nat /\ x = z + b /\ Len(write_queue'[c]) = b + 1 /\ z \in Nat
          BY <4>1, <4>2, <4>4
        <5> HIDE DEF b
        <5> SUFFICES ASSUME NEW j \in 1 .. b + 1 PROVE write_queue'[c][j] = z + j - 1
          BY <5>1
        <5>2. CASE j = b + 1
          <6>1. write_queue'[c][j] = x
            BY <4>4, <5>2 DEF b
          <6> QED BY <5>1, <5>2, <6>1
        <5>3. CASE j # b + 1
          <6>1. j \in 1 .. b
            BY <5>1, <5>3
          <6> QED BY <4>2, <4>4, <6>1 DEF b
        <5> QED BY <5>2, <5>3
      <4>6. /\ l + 1 = z + (Len(w) + 1) /\ x = (l + 1) - 1 /\ l + 1 = (l + 1) + 0 /\ l + 1 > 0
        <5> DEFINE b == Len(w)
        <5>1. l \in Nat /\ z \in Nat /\ b \in Nat /\ l = z + b /\ x = l
          BY <4>1, <4>2, <4>4
        <5> HIDE DEF b, z, x
        <5>2. l + 1 = z + (b + 1) /\ x = (l + 1) - 1 /\ l + 1 = (l + 1) + 0 /\ l + 1 > 0
          BY <5>1
        <5> QED BY <5>2 DEF b
      <4>7. ASSUME NEW s \in Slots
            PROVE  outbound[c][s] = IF s < x THEN Intact(c, s + 1)' ELSE Blank
        <5>1. s < x => s + 1 \in 1 .. l
          BY <4>4 DEF Slots
        <5>2. s < x => Intact(c, s + 1)' = Intact(c, s + 1)
          BY <4>4, <5>1 DEF Intact, a
        <5> QED BY <4>2, <5>2
      <4>8. next_send'[c] = x /\ next_outgoing_seq'[c] = l + 1 /\ outbound'[c] = outbound[c]
            /\ Len(sent'[c]) = z
        BY <2>0, <4>2 DEF x, z
      <4>9. Len(numbered'[c]) = l + 1 /\ Len(write_queue'[c]) = Len(w) + 1
        BY <4>3, <4>4
      <4>10. /\ Len(numbered'[c]) = Len(sent'[c]) + Len(write_queue'[c])
             /\ \A j \in 1 .. Len(write_queue'[c]) : write_queue'[c][j] = Len(sent'[c]) + j - 1
        BY <4>5, <4>6, <4>8, <4>9
      <4>11. \A s \in Slots : outbound'[c][s] =
               IF s < next_send'[c] THEN Intact(c, s + 1)' ELSE Blank
        BY <4>7, <4>8
      <4> QED BY <3>1, <4>3, <4>4, <4>6, <4>8, <4>9, <4>10, <4>11 DEF PlacedAt
    <3> QED BY <3>2, <3>3 DEF Placed
  <2> QED BY <1>3, <2>1, <2>2, PushFacts
<1>4. CASE Serialise
  <2> PICK c \in Clients : c = worker.response.client
    BY <1>0, <1>4 DEF Serialise, Connected
  <2> PICK r \in Responses : r = worker.response
    BY <1>0, <1>4, InHand DEF Serialise
  <2> DEFINE x == next_send[c]
             l == Len(numbered[c])
  <2>0. UNCHANGED <<numbered, sent, write_queue, next_outgoing_seq>>
    BY <1>4 DEF Serialise
  <2>1. c \in Clients /\ Unwritten(c) /\ Busy(c) /\ worker.at = "serialise"
    BY <1>0, <1>4 DEF Serialise, Connected, Unwritten, Busy
  <2>2. /\ outbound' = [outbound EXCEPT ![c][x] =
              [seq |-> next_outgoing_seq[c], client |-> c, body |-> r.body]]
        /\ next_send' = [next_send EXCEPT ![c] = x + 1]
    BY <1>4 DEF Serialise
  <2>3. worker'.at = "notify" /\ worker'.response = worker.response
    <3>1. worker \in [at : {"serialise", "notify"}, queue : Queues, response : Responses]
      BY <1>0, <2>1 DEF Typed
    <3>2. worker' = [worker EXCEPT !.at = "notify"]
      BY <1>4 DEF Serialise
    <3> QED BY <3>1, <3>2
  <2>4. /\ \A d \in Clients : ~Unwritten(d)' /\ Busy(d)' = Busy(d)
        /\ \A d \in Clients \ {c} : ~Unwritten(d) /\ ~Busy(d)
    BY <2>1, <2>3 DEF Unwritten, Busy
  <2>5. /\ x = l - 1 /\ next_outgoing_seq[c] = l + 0 /\ r = numbered[c][l] /\ x \in Slots
        /\ l > 0 /\ \A s \in Slots : outbound[c][s] = IF s < x THEN Intact(c, s + 1) ELSE Blank
    BY <1>0, <2>1 DEF PlacedAt
  <2>6. l \in Nat /\ x \in Nat /\ x + 1 = l /\ next_outgoing_seq[c] = l
    <3>1. l \in Nat
      BY <1>t, <2>1
    <3> HIDE DEF l, x
    <3> QED BY <2>5, <3>1
  <2>7. ASSUME NEW d \in Clients, d # c PROVE PlacedAt(d)'
    <3>1. outbound'[d] = outbound[d] /\ next_send'[d] = next_send[d]
      BY <1>t, <2>2, <2>7
    <3>2. Unwritten(d)' = Unwritten(d) /\ Busy(d)' = Busy(d) /\ ~Busy(d)
      BY <2>4, <2>7 DEF Unwritten, Busy
    <3> QED BY <1>0, <2>0, <3>1, <3>2, PlacedFrame
  <2>8. PlacedAt(c)'
    <3>1. next_send'[c] = l
      BY <1>t, <2>1, <2>2, <2>6
    <3>2. /\ \A s \in Slots \ {x} : outbound'[c][s] = outbound[c][s]
          /\ outbound'[c][x] = [seq |-> l, client |-> c, body |-> r.body]
      BY <1>t, <2>1, <2>2, <2>5, <2>6
    <3>3. \A k : Intact(c, k)' = Intact(c, k)
      BY <2>0 DEF Intact
    <3>4. outbound'[c][x] = Intact(c, x + 1)
      BY <2>5, <2>6, <3>2 DEF Intact
    <3>5. ASSUME NEW s \in Slots
          PROVE  outbound'[c][s] = IF s < l THEN Intact(c, s + 1) ELSE Blank
      <4> HIDE DEF x, l
      <4>1. CASE s = x
        BY <2>6, <3>4, <4>1
      <4>2. CASE s # x
        <5>1. s \in Nat
          BY <1>t DEF Slots
        <5>2. (s < l) <=> (s < x)
          BY <2>6, <4>2, <5>1
        <5> QED BY <2>5, <3>2, <4>2, <5>2
      <4> QED BY <4>1, <4>2
    <3>6. ~Unwritten(c)' /\ Busy(c)' /\ Busy(c) /\ l - 0 = l
      <4>1. ~Unwritten(c)' /\ Busy(c)' /\ Busy(c)
        BY <2>1, <2>4
      <4> QED BY <2>6, <4>1
    <3>7. /\ numbered'[c] = numbered[c] /\ sent'[c] = sent[c] /\ write_queue'[c] = write_queue[c]
          /\ next_outgoing_seq'[c] = next_outgoing_seq[c]
      BY <2>0
    <3>8. /\ Len(numbered'[c]) = Len(sent'[c]) + Len(write_queue'[c])
          /\ \A j \in 1 .. Len(write_queue'[c]) : write_queue'[c][j] = Len(sent'[c]) + j - 1
      <4>1. /\ Len(numbered[c]) = Len(sent[c]) + Len(write_queue[c])
            /\ \A j \in 1 .. Len(write_queue[c]) : write_queue[c][j] = Len(sent[c]) + j - 1
        BY <1>0 DEF PlacedAt
      <4> QED BY <3>7, <4>1
    <3>9. /\ next_send'[c] = Len(numbered'[c]) - 0
          /\ next_outgoing_seq'[c] = Len(numbered'[c]) + 0
          /\ Len(numbered'[c]) > 0 /\ worker'.response = numbered'[c][Len(numbered'[c])]
      BY <2>3, <2>5, <3>1, <3>6, <3>7
    <3>10. \A s \in Slots : outbound'[c][s] = IF s < next_send'[c] THEN Intact(c, s + 1)' ELSE Blank
      BY <3>1, <3>3, <3>5
    <3> QED BY <3>6, <3>8, <3>9, <3>10 DEF PlacedAt
  <2> QED BY <2>7, <2>8 DEF Placed
<1>5. CASE Notify
  <2> PICK c \in Clients : c = worker.response.client
    BY <1>0, <1>5 DEF Notify, Connected
  <2> DEFINE l == Len(numbered[c])
  <2>0. UNCHANGED <<numbered, sent, write_queue, next_send, outbound>>
    BY <1>5 DEF Notify
  <2>1. c \in Clients /\ ~Unwritten(c) /\ Busy(c)
    BY <1>0, <1>5 DEF Notify, Connected, Unwritten, Busy
  <2>2. next_outgoing_seq' = [next_outgoing_seq EXCEPT ![c] = @ + 1] /\ worker'.at = "poll"
    BY <1>5 DEF Notify, NextNumber
  <2>3. /\ \A d \in Clients : ~Unwritten(d)' /\ ~Busy(d)'
        /\ \A d \in Clients \ {c} : ~Unwritten(d) /\ ~Busy(d)
    BY <1>5, <2>2 DEF Unwritten, Busy, Notify
  <2>4. ASSUME NEW d \in Clients, d # c PROVE PlacedAt(d)'
    <3>1. next_outgoing_seq'[d] = next_outgoing_seq[d]
      BY <1>t, <2>2, <2>4
    <3>2. Unwritten(d)' = Unwritten(d) /\ Busy(d)' = Busy(d) /\ ~Busy(d)
      BY <2>3, <2>4 DEF Unwritten, Busy
    <3> QED BY <1>0, <2>0, <3>1, <3>2, PlacedFrame
  <2>5. PlacedAt(c)'
    <3>1. next_outgoing_seq[c] = l + 0 /\ l \in Nat
      BY <1>0, <1>t, <2>1 DEF PlacedAt
    <3>2. next_outgoing_seq'[c] = l + 1
      BY <1>t, <2>1, <2>2, <3>1
    <3>3. \A k : Intact(c, k)' = Intact(c, k)
      BY <2>0 DEF Intact
    <3>4. /\ Len(numbered[c]) = Len(sent[c]) + Len(write_queue[c])
          /\ \A j \in 1 .. Len(write_queue[c]) : write_queue[c][j] = Len(sent[c]) + j - 1
          /\ next_send[c] = Len(numbered[c]) - 0
          /\ \A s \in Slots : outbound[c][s] =
                IF s < next_send[c] THEN Intact(c, s + 1) ELSE Blank
      BY <1>0, <2>1 DEF PlacedAt
    <3>5. ~Unwritten(c)' /\ ~Busy(c)'
      BY <2>1, <2>3
    <3>6. /\ numbered'[c] = numbered[c] /\ sent'[c] = sent[c] /\ write_queue'[c] = write_queue[c]
          /\ next_send'[c] = next_send[c] /\ outbound'[c] = outbound[c]
      BY <2>0
    <3>7. \A s \in Slots : outbound'[c][s] =
            IF s < next_send'[c] THEN Intact(c, s + 1)' ELSE Blank
      BY <3>3, <3>4, <3>6
    <3> QED BY <3>2, <3>4, <3>5, <3>6, <3>7 DEF PlacedAt
  <2> QED BY <2>4, <2>5 DEF Placed
<1>6. CASE SwitchQueue
  <2>1. worker.at = "poll" /\ worker'.at = "poll"
    BY <1>0, <1>6, SwitchPolls
  <2> QED BY <1>1, <1>6, <2>1 DEF SwitchQueue
<1> QED BY <1>1, <1>2, <1>3, <1>4, <1>5, <1>6
        DEF Next, LoopThread, ResponseThread, Accept, Store, Reject, OnClose, WriteMessage,
            EndWrite, EngineResponds, GatewayRead, workerVars

-----------------------------------------------------------------------------
\* What was sent stays as it was, and uv_write adds the next response.
LEMMA SoundStep ==
    ASSUME IInv, Next
    PROVE  Sound'
<1>0. Typed /\ Placed /\ Sound
  BY DEF IInv
<1>t. /\ numbered \in [Clients -> Seq(Responses)] /\ write_queue \in [Clients -> Seq(Slots)]
      /\ sent \in [Clients -> Seq([msg : Messages, early : BOOLEAN])]
  BY <1>0 DEF Typed
<1>1. CASE UNCHANGED <<numbered, sent>>
  BY <1>0, <1>1 DEF Sound, Intact
<1>2. CASE WriteToSocket
  <2> PICK c \in Clients, m \in Messages, early \in BOOLEAN :
        /\ sent' = [sent EXCEPT ![c] = Append(@, [msg |-> m, early |-> early])]
        /\ IF early THEN Len(sent[c]) + 1 >= 2 /\ m \in Damaged(c, Len(sent[c]) + 1)
           ELSE m = Intact(c, Len(sent[c]) + 1)
    BY <1>2, WriteFacts
  <2>1. UNCHANGED numbered
    BY <1>2 DEF WriteToSocket, workerVars
  <2> SUFFICES ASSUME NEW d \in Clients, NEW k \in 1 .. Len(sent'[d])
               PROVE  IF sent'[d][k].early THEN k >= 2 /\ sent'[d][k].msg \in Damaged(d, k)
                      ELSE sent'[d][k].msg = Intact(d, k)
    BY <2>1 DEF Sound, Intact
  <2>2. CASE d # c \/ k \in 1 .. Len(sent[d])
    <3>1. k \in 1 .. Len(sent[d]) /\ sent'[d][k] = sent[d][k]
      <4> DEFINE e == [msg |-> m, early |-> early]
                 R == [msg : Messages, early : BOOLEAN]
      <4>1. e \in R /\ sent \in [Clients -> Seq(R)] /\ sent' = [sent EXCEPT ![c] = Append(@, e)]
        BY <1>t
      <4> HIDE DEF e, R
      <4>2. CASE d # c
        BY <4>1, <4>2
      <4>3. CASE d = c /\ k \in 1 .. Len(sent[d])
        <5>1. sent'[d] = Append(sent[d], e) /\ sent[d] \in Seq(R)
          BY <4>1, <4>3
        <5> QED BY <4>1, <4>3, <5>1, AppendProperties
      <4> QED BY <2>2, <4>2, <4>3
    <3> QED BY <1>0, <3>1 DEF Sound
  <2>3. CASE d = c /\ k \notin 1 .. Len(sent[d])
    <3>1. k = Len(sent[c]) + 1 /\ sent'[c][k] = [msg |-> m, early |-> early]
      <4> DEFINE e == [msg |-> m, early |-> early]
                 R == [msg : Messages, early : BOOLEAN]
      <4>1. e \in R /\ sent \in [Clients -> Seq(R)] /\ sent' = [sent EXCEPT ![c] = Append(@, e)]
        BY <1>t
      <4> HIDE DEF e, R
      <4>2. sent'[c] = Append(sent[c], e) /\ sent[c] \in Seq(R)
        BY <4>1
      <4>3. Len(sent[c]) \in Nat /\ Len(sent'[c]) = Len(sent[c]) + 1
            /\ sent'[c][Len(sent[c]) + 1] = e
        BY <4>1, <4>2, AppendProperties
      <4>4. k = Len(sent[c]) + 1
        BY <2>3, <4>3
      <4> QED BY <4>3, <4>4 DEF e
    <3> QED BY <2>3, <3>1
  <2> QED BY <2>2, <2>3
<1>3. CASE PushIndex
  <2>0. UNCHANGED sent
    BY <1>3 DEF PushIndex
  <2>1. CASE UNCHANGED numbered
    BY <1>1, <2>0, <2>1
  <2>2. CASE \E c \in Clients, r \in Responses : numbered' = [numbered EXCEPT ![c] = Append(@, r)]
    <3> PICK c \in Clients, r \in Responses : numbered' = [numbered EXCEPT ![c] = Append(@, r)]
      BY <2>2
    <3>1. ASSUME NEW d \in Clients, NEW k \in 1 .. Len(sent[d])
          PROVE  Intact(d, k)' = Intact(d, k)
      <4>1. k \in 1 .. Len(numbered[d])
        <5> DEFINE a == Len(sent[d])
                   b == Len(write_queue[d])
        <5>1. Len(numbered[d]) = a + b /\ a \in Nat /\ b \in Nat /\ k \in 1 .. a
          BY <1>0, <1>t DEF Placed, PlacedAt
        <5> HIDE DEF a, b
        <5> QED BY <5>1
      <4>2. numbered'[d][k] = numbered[d][k]
        <5>1. CASE d = c
          BY <1>t, <4>1, <5>1, AppendProperties
        <5>2. CASE d # c
          BY <1>t, <5>2
        <5> QED BY <5>1, <5>2
      <4> QED BY <4>2 DEF Intact
    <3> QED BY <1>0, <2>0, <3>1 DEF Sound
  <2> QED BY <1>3, <2>1, <2>2, PushFacts
<1> QED BY <1>1, <1>2, <1>3
        DEF Next, LoopThread, ResponseThread, Accept, Store, Reject, OnClose, WriteMessage,
            EndWrite, EngineResponds, GatewayRead, SwitchQueue, Serialise, Notify, workerVars

\* A signal is set when the number has grown.
LEMMA SignalledStep ==
    ASSUME IInv, Next
    PROVE  Signalled'
<1>0. Typed /\ Placed /\ Signalled /\ Connected /\ next_outgoing_seq \in [Clients -> Nat]
      /\ async \in [Clients -> BOOLEAN] /\ numbered \in [Clients -> Seq(Responses)]
  BY DEF IInv, Typed
<1>1. CASE /\ UNCHANGED <<async, next_outgoing_seq>>
           /\ loop' = loop \/ loop' = [at |-> "idle"] \/ loop' = [at |-> "accept"]
  BY <1>0, <1>1 DEF Signalled
<1>2. CASE WriteToSocket
  BY <1>0, <1>2 DEF Signalled, WriteToSocket, AfterWrite, workerVars
<1>3. CASE \E c \in Clients : WriteMessage(c)
  <2> PICK c \in Clients : WriteMessage(c)
    BY <1>3
  <2>1. /\ async[c] /\ async' = [async EXCEPT ![c] = FALSE] /\ loop' = [at |-> "write", conn |-> c]
        /\ UNCHANGED next_outgoing_seq
    BY DEF WriteMessage, workerVars
  <2> QED BY <1>0, <2>1 DEF Signalled
<1>4. CASE Notify
  <2> PICK c \in Clients : c = worker.response.client
    BY <1>0, <1>4 DEF Notify, Connected
  <2>1. /\ async' = [async EXCEPT ![c] = TRUE] /\ UNCHANGED loop
        /\ next_outgoing_seq' = [next_outgoing_seq EXCEPT ![c] = @ + 1]
    BY <1>4 DEF Notify, NextNumber
  <2>2. next_outgoing_seq[c] \in Nat /\ next_outgoing_seq[c] >= 1
    <3>1. next_outgoing_seq[c] = Len(numbered[c]) + 0 /\ Len(numbered[c]) > 0
      BY <1>0, <1>4 DEF Placed, PlacedAt, Busy, Notify
    <3>2. Len(numbered[c]) \in Nat
      BY <1>0
    <3> QED BY <3>1, <3>2
  <2>3. ASSUME NEW d \in Clients PROVE next_outgoing_seq'[d] >= next_outgoing_seq[d]
    BY <1>0, <2>1
  <2>4. next_outgoing_seq'[c] >= 2
    BY <1>0, <2>1, <2>2
  <2>5. ASSUME NEW d \in Clients, d # c,
               async'[d] \/ (loop'.at = "write" /\ loop'.conn = d)
        PROVE  next_outgoing_seq'[d] >= 2
    <3>1. next_outgoing_seq'[d] = next_outgoing_seq[d] /\ async'[d] = async[d]
      BY <1>0, <2>1, <2>5
    <3> QED BY <1>0, <2>1, <2>5, <3>1 DEF Signalled
  <2> QED BY <2>4, <2>5 DEF Signalled
<1> QED BY <1>1, <1>2, <1>3, <1>4
        DEF Next, LoopThread, ResponseThread, Accept, Store, Reject, OnClose,
            EndWrite, EngineResponds, GatewayRead, SwitchQueue, PushIndex, Serialise, workerVars

\* A client that knows its id has got a response, and so has a connection.
LEMMA KnownConnected ==
    ASSUME IInv, Running, NEW c \in Clients, gateways[c].client_id # INVALID
    PROVE  c < next_client_id
<1>1. PICK q \in Nat : ReadSoFar(c, q)
  BY DEF IInv, Streamed
<1> DEFINE l == Len(sent[c])
<1>2. l # 0
  <2>1. sent[c] # <<>>
    BY <1>1 DEF ReadSoFar
  <2>2. sent[c] \in Seq([msg : Messages, early : BOOLEAN])
    BY DEF IInv, Typed
  <2> QED BY <2>1, <2>2, EmptySeq
<1>3. /\ Typed /\ Placed /\ Connected
      /\ numbered[c] \in Seq(Responses) /\ l \in Nat /\ Len(write_queue[c]) \in Nat
  <2>1. Typed /\ Placed /\ Connected
    BY DEF IInv
  <2>2. numbered \in [Clients -> Seq(Responses)] /\ write_queue \in [Clients -> Seq(Slots)]
    BY <2>1 DEF Typed
  <2> QED BY <2>1, <2>2, SentIs
<1>4. Len(numbered[c]) > 0
  <2> DEFINE b == Len(write_queue[c])
  <2>1. Len(numbered[c]) = l + b /\ b \in Nat
    BY <1>3 DEF Placed, PlacedAt
  <2> HIDE DEF b, l
  <2> QED BY <1>2, <1>3, <2>1
<1>5. numbered[c] # <<>>
  BY <1>3, <1>4
<1> QED BY <1>3, <1>5 DEF Connected

\* What may be in a queue.
Announced(r) ==
    \/ r.client < next_client_id
    \/ loop.at = "accept" /\ r.client = next_client_id
    \/ r.body.type = "invalid"

\* Connected, with that name in it.
LEMMA ConnectedIs ==
    Connected <=>
      /\ worker.at # "poll" => /\ worker.response.client \in Clients
                               /\ responses[worker.queue] # <<>>
      /\ Running =>
           /\ \A c \in Clients : /\ conns[c] # "none" <=> c < next_client_id
                                 /\ numbered[c] # <<>> => conns[c] # "none"
           /\ \A q \in Queues : \A i \in 1 .. Len(responses[q]) : Announced(responses[q][i])
BY DEF Connected, Announced

\* Every step keeps the connections that were announced and those that are stored in
\* agreement.
LEMMA ConnectedStep ==
    ASSUME IInv, Next
    PROVE  Connected'
<1>0. Typed /\ Connected
  BY DEF IInv
<1>t. /\ conns \in [Clients -> {"none", "open", "closed"}] /\ next_client_id \in Nat
      /\ responses \in [Queues -> Seq(Responses)] /\ numbered \in [Clients -> Seq(Responses)]
      /\ worker.queue \in Queues /\ MaxNumClients \in Nat /\ Clients \subseteq Nat
      /\ next_client_id <= MaxNumClients
  <2>1. next_client_id \in 0 .. MaxNumClients /\ MaxNumClients \in Nat
    BY <1>0, ResponsesAssumption DEF Typed
  <2>2. next_client_id \in Nat /\ next_client_id <= MaxNumClients
    BY <2>1
  <2>3. Clients \subseteq Nat
    BY <2>1 DEF Clients
  <2> QED BY <1>0, <2>1, <2>2, <2>3, InHand DEF Typed
<1>1. CASE /\ UNCHANGED <<conns, next_client_id, responses, numbered, worker>>
           /\ loop.at # "accept" \/ loop' = loop
           /\ Running' => Running
  BY <1>0, <1>1 DEF Connected
<1>2. CASE \E q \in Queues, c \in Nat, type \in {"accepted", "invalid", "reply"} :
             /\ Push(q, c, type) /\ Running
             /\ UNCHANGED <<conns, next_client_id, numbered, worker, fault>>
             /\ loop.at # "accept" \/ loop' = loop
             /\ c < next_client_id \/ type = "invalid" \/ (loop'.at = "accept" /\ c = next_client_id)
  <2> PICK q \in Queues, c \in Nat, type \in {"accepted", "invalid", "reply"} :
             /\ Push(q, c, type) /\ Running
             /\ UNCHANGED <<conns, next_client_id, numbered, worker, fault>>
             /\ loop.at # "accept" \/ loop' = loop
             /\ c < next_client_id \/ type = "invalid" \/ (loop'.at = "accept" /\ c = next_client_id)
    BY <1>2
  <2>1. \A p \in Queues : \A i \in 1 .. Len(responses'[p]) :
          \/ i \in 1 .. Len(responses[p]) /\ responses'[p][i] = responses[p][i]
          \/ responses'[p][i].client = c /\ responses'[p][i].body.type = type
    BY <1>0, PushTyped
  <2>2. ASSUME NEW p \in Queues, NEW i \in 1 .. Len(responses'[p])
        PROVE  Announced(responses[p][i])'
    <3>1. CASE i \in 1 .. Len(responses[p]) /\ responses'[p][i] = responses[p][i]
      <4>1. Announced(responses[p][i])
        BY <1>0, <3>1, ConnectedIs
      <4> QED BY <3>1, <4>1 DEF Announced
    <3>2. CASE responses'[p][i].client = c /\ responses'[p][i].body.type = type
      BY <3>2 DEF Announced
    <3> QED BY <2>1, <3>1, <3>2
  <2>3. \A p \in Queues : responses[p] # <<>> => responses'[p] # <<>>
    <3> DEFINE r == [client |-> c, body |-> [type |-> type, n |-> made[q] + 1]]
    <3>1. responses' = [responses EXCEPT ![q] = Append(@, r)]
      BY DEF Push
    <3> HIDE DEF r
    <3>2. Append(responses[q], r) # <<>>
      <4> DEFINE S == Responses \cup {r}
      <4>1. responses[q] \in Seq(S) /\ r \in S
        <5>1. responses[q] \in Seq(Responses)
          BY <1>t
        <5> QED BY <5>1
      <4> HIDE DEF S
      <4> QED BY <4>1, AppendProperties
    <3> QED BY <1>t, <3>1, <3>2
  <2>4. worker'.at # "poll" => /\ worker'.response.client \in Clients
                              /\ responses'[worker'.queue] # <<>>
    BY <1>0, <1>t, <2>3, ConnectedIs
  <2>5. \A d \in Clients : /\ conns'[d] # "none" <=> d < next_client_id'
                           /\ numbered'[d] # <<>> => conns'[d] # "none"
    BY <1>0, ConnectedIs
  <2> QED BY <2>2, <2>4, <2>5 DEF Connected, Announced
<1>3. CASE Accept
  <2>1. "server" \in Queues /\ Push("server", next_client_id, "accepted")
        /\ Running /\ loop.at = "idle" /\ loop' = [at |-> "accept"]
        /\ UNCHANGED <<conns, next_client_id, numbered, worker, fault>>
    BY <1>3 DEF Accept, LoopIdle, Queues, workerVars
  <2> QED BY <1>2, <1>t, <2>1
<1>4. CASE \E c \in Clients : Reject(c)
  <2> PICK c \in Clients : Reject(c)
    BY <1>4
  <2>1. "server" \in Queues /\ Push("server", c, "invalid")
        /\ Running /\ UNCHANGED <<loop, conns, next_client_id, numbered, worker, fault>>
    BY DEF Reject, LoopIdle, Queues, workerVars
  <2> QED BY <1>2, <1>t, <2>1
<1>5. CASE \E c \in Clients : EngineResponds(c)
  <2> PICK c \in Clients : EngineResponds(c)
    BY <1>5
  <2>1. "engine" \in Queues /\ Push("engine", c, "reply") /\ gateways[c].client_id = c
        /\ Running /\ UNCHANGED <<loop, conns, next_client_id, numbered, worker, fault>>
    BY DEF EngineResponds, Queues, workerVars
  <2>2. c < next_client_id
    <3>1. gateways[c].client_id # INVALID
      BY <1>t, <2>1 DEF INVALID
    <3> QED BY <2>1, <3>1, KnownConnected
  <2> QED BY <1>2, <1>t, <2>1, <2>2
<1>6. CASE Store
  <2>1. /\ Running /\ loop.at = "accept" /\ UNCHANGED <<responses, numbered, worker>>
        /\ \/ /\ next_client_id \in Clients
              /\ conns' = [conns EXCEPT ![next_client_id] = "open"]
              /\ next_client_id' = next_client_id + 1
           \/ ~Running'
    BY <1>6 DEF Store, Fail, Running, workerVars
  <2>2. CASE ~Running'
    BY <1>0, <2>1, <2>2 DEF Connected
  <2>3. CASE /\ next_client_id \in Clients
             /\ conns' = [conns EXCEPT ![next_client_id] = "open"]
             /\ next_client_id' = next_client_id + 1
    <3>1. ASSUME NEW c \in Clients
          PROVE  /\ conns'[c] # "none" <=> c < next_client_id'
                 /\ numbered'[c] # <<>> => conns'[c] # "none"
      <4>1. /\ conns[c] # "none" <=> c < next_client_id
            /\ numbered[c] # <<>> => conns[c] # "none"
        BY <1>0, <2>1, ConnectedIs
      <4>2. CASE c = next_client_id
        <5>1. conns'[c] = "open" /\ c < next_client_id'
          BY <1>t, <2>3, <4>2
        <5> QED BY <5>1
      <4>3. CASE c # next_client_id
        <5>1. conns'[c] = conns[c]
          BY <1>t, <2>3, <4>3
        <5>2. c \in Nat /\ (c < next_client_id' <=> c < next_client_id)
          BY <1>t, <2>3, <4>3
        <5> QED BY <2>1, <4>1, <5>1, <5>2
      <4> QED BY <4>2, <4>3
    <3>2. ASSUME NEW p \in Queues, NEW i \in 1 .. Len(responses'[p])
          PROVE  \/ responses'[p][i].client < next_client_id'
                 \/ responses'[p][i].body.type = "invalid"
      <4> DEFINE r == responses[p][i]
      <4>1. r \in Responses /\ Announced(r)
        BY <1>0, <1>t, <2>1, ConnectedIs, ElementOfSeq
      <4> HIDE DEF r
      <4>2. r.client \in Nat
        BY <4>1 DEF Responses
      <4>3. r.client < next_client_id + 1 \/ r.body.type = "invalid"
        BY <1>t, <4>1, <4>2 DEF Announced
      <4> QED BY <2>1, <2>3, <4>3 DEF r
    <3> QED BY <1>0, <2>1, <3>1, <3>2 DEF Connected
  <2> QED BY <2>1, <2>2, <2>3
<1>7. CASE \E c \in Clients : OnClose(c)
  <2> PICK c \in Clients : OnClose(c)
    BY <1>7
  <2>1. /\ conns[c] = "open" /\ conns' = [conns EXCEPT ![c] = "closed"] /\ Running
        /\ UNCHANGED <<loop, next_client_id, responses, numbered, worker, fault>>
    BY DEF OnClose, AfterClose, LoopIdle, workerVars
  <2>2. \A d \in Clients : conns'[d] # "none" <=> conns[d] # "none"
    BY <1>t, <2>1
  <2> QED BY <1>0, <2>1, <2>2 DEF Connected
<1>8. CASE PushIndex
  <2>0. UNCHANGED <<loop, conns, next_client_id, responses>> /\ Running
    BY <1>8 DEF PushIndex, Polling
  <2>1. CASE fault' \in {"no socket", "overrun"}
             /\ UNCHANGED <<worker, next_send, write_queue, numbered>>
    BY <1>1, <2>0, <2>1 DEF Running
  <2>2. CASE \E c \in Clients, r \in Responses :
               /\ responses[worker.queue] # <<>> /\ r.client = c /\ conns[c] # "none"
               /\ numbered' = [numbered EXCEPT ![c] = Append(@, r)] /\ UNCHANGED fault
               /\ worker' = [at |-> "serialise", queue |-> worker.queue, response |-> r]
    <3> PICK c \in Clients, r \in Responses :
               /\ responses[worker.queue] # <<>> /\ r.client = c /\ conns[c] # "none"
               /\ numbered' = [numbered EXCEPT ![c] = Append(@, r)] /\ UNCHANGED fault
               /\ worker' = [at |-> "serialise", queue |-> worker.queue, response |-> r]
      BY <2>2
    <3>1. \A d \in Clients : numbered'[d] # <<>> => conns[d] # "none"
      <4>1. \A d \in Clients \ {c} : numbered'[d] = numbered[d]
        BY <1>t
      <4> QED BY <1>0, <2>0, <4>1, ConnectedIs
    <3>2. worker'.response.client \in Clients /\ responses'[worker'.queue] # <<>>
      BY <2>0
    <3> QED BY <1>0, <2>0, <3>1, <3>2 DEF Connected
  <2> QED BY <1>8, <2>1, <2>2, PushFacts
<1>9. CASE Serialise
  <2>1. worker'.response = worker.response /\ worker'.queue = worker.queue /\ worker.at # "poll"
    <3>1. worker \in [at : {"serialise", "notify"}, queue : Queues, response : Responses]
      BY <1>0, <1>9 DEF Typed, Serialise
    <3>2. worker' = [worker EXCEPT !.at = "notify"]
      BY <1>9 DEF Serialise
    <3> QED BY <1>9, <3>1, <3>2 DEF Serialise
  <2>2. UNCHANGED <<loop, conns, next_client_id, responses, numbered, fault>>
    BY <1>9 DEF Serialise
  <2> QED BY <1>0, <2>1, <2>2 DEF Connected, Running
<1>10. CASE Notify
  <2> DEFINE p == worker.queue
  <2>1. /\ responses' = [responses EXCEPT ![p] = Tail(@)] /\ worker'.at = "poll"
        /\ UNCHANGED <<loop, conns, next_client_id, numbered, fault>> /\ Running
        /\ responses[p] # <<>>
    BY <1>0, <1>10 DEF Notify, Connected
  <2>2. ASSUME NEW d \in Queues, NEW i \in 1 .. Len(responses'[d])
        PROVE  Announced(responses'[d][i])
    <3>1. CASE d = p
      <4> DEFINE s == responses[d]
      <4>1. s \in Seq(Responses) /\ s # <<>> /\ responses'[d] = Tail(s)
        BY <1>t, <2>1, <3>1
      <4> HIDE DEF s
      <4>2. Len(s) \in Nat /\ Len(Tail(s)) = Len(s) - 1 /\ Tail(s)[i] = s[i + 1]
        BY <4>1, HeadTailProperties
      <4>3. i + 1 \in 1 .. Len(s)
        BY <4>1, <4>2
      <4> QED BY <1>0, <2>1, <4>1, <4>2, <4>3, ConnectedIs DEF s
    <3>2. CASE d # p
      BY <1>0, <1>t, <2>1, <3>2, ConnectedIs
    <3> QED BY <3>1, <3>2
  <2> QED BY <1>0, <2>1, <2>2 DEF Connected, Announced
<1>11. CASE SwitchQueue
  <2>1. worker'.at = "poll" /\ UNCHANGED <<loop, conns, next_client_id, responses, numbered, fault>>
    BY <1>0, <1>11, SwitchPolls DEF SwitchQueue
  <2> QED BY <1>0, <2>1 DEF Connected, Running
<1>12. CASE \E c \in Clients : WriteMessage(c)
  BY <1>1, <1>12 DEF WriteMessage, LoopIdle, Running, workerVars
<1>13. CASE WriteToSocket \/ EndWrite
  BY <1>1, <1>13 DEF WriteToSocket, EndWrite, Running, workerVars
<1>14. CASE \E c \in Clients : \E n \in 1 .. Len(to_client[c]) : GatewayRead(c, n)
  BY <1>1, <1>14 DEF GatewayRead, Running, workerVars
<1> QED BY <1>3, <1>4, <1>5, <1>6, <1>7, <1>8, <1>9, <1>10, <1>11, <1>12, <1>13, <1>14
        DEF Next, LoopThread, ResponseThread

\* The response thread finds no connection only in PushIndex.
LEMMA SocketMissingStep ==
    ASSUME IInv, Next
    PROVE  SocketMissing'
<1>1. Running /\ (PushIndex \/ fault' # "no socket")
  <2>1. Running
    BY DEF Next, LoopThread, ResponseThread, Accept, Store, Reject, OnClose, WriteMessage,
           WriteToSocket, EndWrite, EngineResponds, GatewayRead, SwitchQueue, PushIndex,
           Serialise, Notify, LoopIdle, Polling
  <2>2. CASE UNCHANGED fault
    BY <2>1, <2>2 DEF Running
  <2>3. CASE Store
    BY <2>1, <2>3 DEF Store, Fail, Running
  <2>4. CASE \E c \in Clients : \E n \in 1 .. Len(to_client[c]) : GatewayRead(c, n)
    <3> PICK c \in Clients : \E n \in 1 .. Len(to_client[c]) : GatewayRead(c, n)
      BY <2>4
    <3> PICK n \in 1 .. Len(to_client[c]) : GatewayRead(c, n)
      OBVIOUS
    <3> QED BY <2>1, ReadFacts DEF Running
  <2> QED BY <2>1, <2>2, <2>3, <2>4
          DEF Next, LoopThread, ResponseThread, Accept, Reject, OnClose, WriteMessage,
              WriteToSocket, EndWrite, EngineResponds, SwitchQueue, Serialise, Notify
<1>2. CASE PushIndex /\ fault' = "no socket"
  <2> DEFINE r == Head(responses[worker.queue])
  <2>0. Typed /\ Connected
    BY DEF IInv
  <2>1. /\ ~(r.client \in Clients /\ conns[r.client] # "none")
        /\ UNCHANGED <<worker, loop, next_client_id, responses>>
        /\ responses[worker.queue] # <<>>
    BY <1>1, <1>2 DEF PushIndex, Fail, Running
  <2>2. r \in Responses /\ Announced(r)
    <3> DEFINE s == responses[worker.queue]
    <3>1. worker.queue \in Queues /\ s \in Seq(Responses) /\ s # <<>>
      BY <2>0, <2>1, InHand DEF Typed
    <3>2. \A i \in 1 .. Len(s) : Announced(s[i])
      BY <1>1, <2>0, <3>1, ConnectedIs
    <3> HIDE DEF s
    <3>3. Head(s) \in Responses /\ Head(s) = s[1] /\ 1 \in 1 .. Len(s)
      BY <3>1
    <3> QED BY <3>2, <3>3 DEF s
  <2>3. r.client >= next_client_id
    <3> HIDE DEF r
    <3>1. next_client_id \in 0 .. MaxNumClients /\ MaxNumClients \in Nat /\ r.client \in Nat
      BY <2>0, <2>2, ResponsesAssumption DEF Typed, Responses
    <3>2. CASE r.client \in Clients
      <4>1. ~(r.client < next_client_id)
        BY <1>1, <2>0, <2>1, <3>2, ConnectedIs DEF r
      <4> QED BY <3>1, <4>1
    <3>3. CASE r.client \notin Clients
      BY <3>1, <3>3 DEF Clients
    <3> QED BY <3>2, <3>3
  <2>4. next_client_id \in Nat /\ r.client \in Nat
    <3>1. next_client_id \in 0 .. MaxNumClients /\ MaxNumClients \in Nat
      BY <2>0, ResponsesAssumption DEF Typed
    <3> HIDE DEF r
    <3> QED BY <2>2, <3>1 DEF Responses
  <2> HIDE DEF r
  <2>5. \/ loop.at = "accept" /\ r.client = next_client_id
        \/ r.body.type = "invalid" /\ r.client >= next_client_id
    BY <2>2, <2>3, <2>4 DEF Announced
  <2> QED BY <2>1, <2>5 DEF SocketMissing, r
<1> QED BY <1>1, <1>2 DEF SocketMissing

\* No wake-up is lost: every step that takes away a reason gives another one.
LEMMA StrandedStep ==
    ASSUME IInv, Next
    PROVE  NoneStranded'
<1>0. Typed /\ NoneStranded /\ Connected /\ async \in [Clients -> BOOLEAN]
      /\ write_queue \in [Clients -> Seq(Slots)]
  BY DEF IInv, Typed
<1>1. Running
  BY DEF Next, LoopThread, ResponseThread, Accept, Store, Reject, OnClose, WriteMessage,
         WriteToSocket, EndWrite, EngineResponds, GatewayRead, SwitchQueue, PushIndex,
         Serialise, Notify, LoopIdle, Polling
<1>2. CASE UNCHANGED <<write_queue, async, worker>> /\ (loop.at # "write" \/ loop' = loop)
  BY <1>0, <1>1, <1>2 DEF NoneStranded
<1>3. CASE \E c \in Clients : WriteMessage(c)
  <2> PICK c \in Clients : WriteMessage(c)
    BY <1>3
  <2>1. /\ async' = [async EXCEPT ![c] = FALSE] /\ loop.at = "idle"
        /\ loop' = [at |-> "write", conn |-> c] /\ UNCHANGED <<write_queue, worker>>
    BY DEF WriteMessage, LoopIdle, workerVars
  <2>2. \A d \in Clients \ {c} : async'[d] = async[d]
    BY <1>0, <2>1
  <2> QED BY <1>0, <1>1, <2>1, <2>2 DEF NoneStranded
<1>4. CASE WriteToSocket
  <2> PICK c \in Clients :
        /\ loop' = [at |-> "write", conn |-> c] /\ loop.conn = c
        /\ write_queue' = [write_queue EXCEPT ![c] = Tail(@)]
    BY <1>4, WriteFacts
  <2>1. UNCHANGED <<async, worker>>
    BY <1>4 DEF WriteToSocket, workerVars
  <2>2. \A d \in Clients \ {c} : write_queue'[d] = write_queue[d]
    BY <1>0
  <2> QED BY <1>0, <1>1, <2>1, <2>2 DEF NoneStranded
<1>5. CASE EndWrite
  BY <1>0, <1>1, <1>5 DEF NoneStranded, EndWrite, workerVars
<1>6. CASE SwitchQueue
  <2>1. worker.at = "poll" /\ UNCHANGED <<write_queue, async, loop>>
    BY <1>0, <1>6, SwitchPolls DEF SwitchQueue
  <2> QED BY <1>0, <1>1, <2>1 DEF NoneStranded
<1>7. CASE PushIndex
  <2>0. UNCHANGED <<loop, async>>
    BY <1>7 DEF PushIndex
  <2>1. CASE UNCHANGED <<worker, write_queue>>
    BY <1>2, <2>0, <2>1
  <2>2. CASE \E c \in Clients, r \in Responses :
               /\ worker.at = "poll" /\ r.client = c
               /\ write_queue' = [write_queue EXCEPT ![c] = Append(@, next_send[c])]
               /\ worker' = [at |-> "serialise", queue |-> worker.queue, response |-> r]
    <3> PICK c \in Clients, r \in Responses :
               /\ worker.at = "poll" /\ r.client = c
               /\ write_queue' = [write_queue EXCEPT ![c] = Append(@, next_send[c])]
               /\ worker' = [at |-> "serialise", queue |-> worker.queue, response |-> r]
      BY <2>2
    <3>1. \A d \in Clients \ {c} : write_queue'[d] = write_queue[d]
      BY <1>0
    <3> QED BY <1>0, <1>1, <2>0, <3>1 DEF NoneStranded
  <2> QED BY <1>7, <2>1, <2>2, PushFacts
<1>8. CASE Serialise
  <2>1. worker'.at = "notify" /\ worker'.response = worker.response
    <3>1. worker \in [at : {"serialise", "notify"}, queue : Queues, response : Responses]
      BY <1>0, <1>8 DEF Typed, Serialise
    <3>2. worker' = [worker EXCEPT !.at = "notify"]
      BY <1>8 DEF Serialise
    <3> QED BY <3>1, <3>2
  <2>2. UNCHANGED <<write_queue, async, loop>>
    BY <1>8 DEF Serialise
  <2> QED BY <1>0, <1>1, <2>1, <2>2 DEF NoneStranded
<1>9. CASE Notify
  <2> PICK c \in Clients : c = worker.response.client
    BY <1>0, <1>9 DEF Notify, Connected
  <2>1. async' = [async EXCEPT ![c] = TRUE] /\ UNCHANGED <<write_queue, loop>>
    BY <1>9 DEF Notify
  <2>2. async'[c] /\ \A d \in Clients \ {c} : async'[d] = async[d]
    BY <1>0, <2>1
  <2> QED BY <1>0, <1>1, <2>1, <2>2 DEF NoneStranded
<1> QED BY <1>2, <1>3, <1>4, <1>5, <1>6, <1>7, <1>8, <1>9
        DEF Next, LoopThread, ResponseThread, Accept, Store, Reject, OnClose,
            EngineResponds, GatewayRead, LoopIdle, workerVars
-----------------------------------------------------------------------------
\* What a gateway has passed on stays right while more is sent.
LEMMA PassedExtended ==
    ASSUME NEW c, NEW msgs, NEW next, NEW g, NEW passed, NEW n \in Nat, NEW l \in Nat, n <= l,
           g.next_exp \in Nat, \A i \in 1 .. l : next[i] = msgs[i],
           Passed(c, msgs, g, passed, n)
    PROVE  Passed(c, next, g, passed, n)
<1>1. CASE g.next_exp = 1 /\ g.client_id = INVALID /\ passed = <<>>
  BY <1>1 DEF Passed
<1>2. CASE /\ g.next_exp \in 2 .. n + 1 /\ g.client_id = c
           /\ Len(passed) = g.next_exp - 2
           /\ \A k \in 1 .. Len(passed) :
                passed[k] = msgs[k + 1] /\ passed[k].seq = k + 1 /\ passed[k].client = c
  <2>1. ASSUME NEW k \in 1 .. Len(passed) PROVE next[k + 1] = msgs[k + 1]
    <3>1. k + 1 \in 1 .. l
      BY <1>2
    <3> QED BY <3>1
  <2> QED BY <1>2, <2>1 DEF Passed
<1> QED BY <1>1, <1>2 DEF Passed

\* What was sent to a client does not change with other clients.
LEMMA SentKept ==
    ASSUME NEW c, sent'[c] = sent[c]
    PROVE  Sent(c)' = Sent(c)
BY DEF Sent

\* The streams: uv_write adds the cells of a message at the end, a read takes some
\* from the front, and nothing is added once the connection is closed.
LEMMA StreamedStep ==
    ASSUME IInv, Next
    PROVE  Streamed'
<1>0. Typed /\ Placed /\ Connected /\ Streamed
  BY DEF IInv
<1>t. /\ sent \in [Clients -> Seq([msg : Messages, early : BOOLEAN])]
      /\ to_client \in [Clients -> Seq(Received)] /\ gateways \in [Clients -> Gateways]
      /\ conns \in [Clients -> {"none", "open", "closed"}]
      /\ delivered \in [Clients -> Seq(Messages)]
  BY <1>0 DEF Typed
<1>1. Running
  BY DEF Next, LoopThread, ResponseThread, Accept, Store, Reject, OnClose, WriteMessage,
         WriteToSocket, EndWrite, EngineResponds, GatewayRead, SwitchQueue, PushIndex,
         Serialise, Notify, LoopIdle, Polling
<1>2. CASE /\ UNCHANGED <<to_client, sent, gateways, delivered, cut>>
           /\ \A c \in Clients : conns'[c] # "closed" => conns[c] # "closed"
  <2> SUFFICES ASSUME NEW c \in Clients PROVE \E q \in Nat : ReadSoFar(c, q)'
    BY DEF Streamed
  <2> PICK q \in Nat : ReadSoFar(c, q)
    BY <1>0 DEF Streamed
  <2>1. Sent(c)' = Sent(c)
    BY <1>2 DEF Sent
  <2>2. ReadSoFar(c, q)'
    BY <1>1, <1>2, <2>1 DEF ReadSoFar
  <2> QED BY <2>2
<1>3. CASE WriteToSocket
  <2> PICK c \in Clients, m \in Messages, early \in BOOLEAN :
        /\ write_queue[c] # <<>>
        /\ sent' = [sent EXCEPT ![c] = Append(@, [msg |-> m, early |-> early])]
        /\ to_client' = IF conns[c] = "open"
                        THEN [to_client EXCEPT ![c] = @ \o Cells(m)] ELSE to_client
    BY <1>3, WriteFacts
  <2>1. UNCHANGED <<conns, gateways, delivered, cut, fault>>
    BY <1>3 DEF WriteToSocket, gatewayVars
  <2> SUFFICES ASSUME NEW d \in Clients PROVE \E q \in Nat : ReadSoFar(d, q)'
    BY DEF Streamed
  <2> PICK q \in Nat : ReadSoFar(d, q)
    BY <1>0 DEF Streamed
  <2>2. CASE d # c
    <3>1. sent'[d] = sent[d] /\ to_client'[d] = to_client[d]
      BY <1>t, <2>2
    <3>2. Sent(d)' = Sent(d)
      BY <3>1, SentKept
    <3>3. ReadSoFar(d, q)'
      BY <1>1, <2>1, <3>1, <3>2 DEF ReadSoFar, Running
    <3> QED BY <3>3
  <2>3. CASE d = c
    <3> DEFINE l == Len(sent[c])
               old == Sent(c)
               new == [k \in 1 .. Len(sent'[c]) |-> sent'[c][k].msg]
    <3>1. /\ l \in Nat /\ Len(sent'[c]) = l + 1
          /\ \A i \in 1 .. l : new[i] = old[i]
          /\ new[l + 1] = m
      <4> DEFINE e == [msg |-> m, early |-> early]
                 R == [msg : Messages, early : BOOLEAN]
      <4>1. /\ e \in R /\ sent \in [Clients -> Seq(R)] /\ e.msg = m
            /\ sent' = [sent EXCEPT ![c] = Append(@, e)]
        BY <1>t
      <4> HIDE DEF e, R
      <4>2. sent'[c] = Append(sent[c], e) /\ sent[c] \in Seq(R)
        BY <4>1
      <4>3. /\ Len(sent[c]) \in Nat /\ Len(sent'[c]) = Len(sent[c]) + 1
            /\ sent'[c][Len(sent[c]) + 1] = e
            /\ \A i \in 1 .. Len(sent[c]) : sent'[c][i] = sent[c][i]
        BY <4>1, <4>2, AppendProperties
      <4>4. \A i \in 1 .. l + 1 : new[i] = sent'[c][i].msg
        BY <4>3
      <4>5. \A i \in 1 .. l : old[i] = sent[c][i].msg
        BY DEF Sent
      <4> QED BY <4>1, <4>3, <4>4, <4>5
    <3>2. Sent(c)' = new
      BY DEF Sent
    <3> HIDE DEF new, old
    <3>3. conns[c] \in {"open", "closed"}
      <4>1. numbered[c] # <<>>
        <5> DEFINE w == Len(write_queue[c])
        <5>1. /\ write_queue[c] \in Seq(Slots) /\ numbered[c] \in Seq(Responses)
          BY <1>0 DEF Typed
        <5>2. w \in Nat \ {0} /\ Len(numbered[c]) = l + w
          BY <1>0, <5>1, EmptySeq DEF Placed, PlacedAt
        <5> HIDE DEF w, l
        <5> QED BY <3>1, <5>1, <5>2
      <4> QED BY <1>0, <1>1, <1>t, <4>1 DEF Connected
    <3>4. Parts \in Nat \ {0}
      BY StreamAssumption
    <3>5. /\ B!Follow(to_client[c], old, q) /\ to_client[c] \in Seq(Received)
          /\ conns[c] # "closed" => q + Len(to_client[c]) = Parts * l
          /\ q + Len(to_client[c]) <= Parts * l
          /\ q \div Parts <= l /\ q \div Parts \in Nat
          /\ Len(gateways[c].inbound) = q % Parts
          /\ Counted(gateways[c], delivered[c])
          /\ c \notin cut => Passed(c, old, gateways[c], delivered[c], q \div Parts)
      BY <1>1, <1>t, <2>3, <3>4, Quotient DEF ReadSoFar, old
    <3>6. c \notin cut => Passed(c, new, gateways[c], delivered[c], q \div Parts)
      <4>1. gateways[c].next_exp \in Nat
        BY <1>t DEF Gateways
      <4> QED BY <3>1, <3>5, <4>1, PassedExtended
    <3>7. /\ B!Follow(to_client'[c], new, q)
          /\ conns[c] # "closed" => q + Len(to_client'[c]) = Parts * (l + 1)
          /\ q + Len(to_client'[c]) <= Parts * (l + 1)
      <4>1. CASE conns[c] = "open"
        <5>1. to_client'[c] = to_client[c] \o B!Cells(m)
          BY <1>t, <4>1, SameStreams
        <5>2. /\ q + Len(to_client[c] \o B!Cells(m)) = Parts * (l + 1)
              /\ B!Follow(to_client[c] \o B!Cells(m), new, q)
          <6>1. conns[c] # "closed"
            BY <4>1
          <6>2. q + Len(to_client[c]) = Parts * l
            BY <3>5, <6>1
          <6> DEFINE cells == to_client[c]
                     more == cells \o B!Cells(m)
          <6>3. /\ B!Grown(new, old, l, m) /\ B!Follow(cells, old, q)
                /\ l \in Nat /\ cells \in Seq(Received) /\ q \in Nat
                /\ q + Len(cells) = Parts * l
            BY <3>1, <3>5, <6>2 DEF B!Grown
          <6> HIDE DEF l, cells
          <6>4. /\ q + Len(more) = Parts * (l + 1)
                /\ B!Follow(more, new, q)
            BY <6>3, StreamAssumption, B!SendFollows
          <6> QED BY <6>4 DEF cells
        <5>3. Parts * (l + 1) \in Nat
          <6> HIDE DEF l
          <6> QED BY <3>1, <3>4
        <5> DEFINE y == Parts * (l + 1)
                   z == q + Len(to_client'[c])
        <5>4. z = y /\ y \in Nat /\ B!Follow(to_client'[c], new, q)
          BY <5>1, <5>2, <5>3
        <5>5. z <= y
          <6> HIDE DEF y, z
          <6> QED BY <5>4
        <5> QED BY <5>4, <5>5
      <4>2. CASE conns[c] = "closed"
        <5>1. to_client'[c] = to_client[c] /\ Len(to_client[c]) \in Nat
          BY <1>t, <4>2
        <5>2. B!Follow(to_client[c], new, q)
          <6> HIDE DEF l
          <6> QED BY <3>1, <3>5, <5>1, StreamAssumption, B!ExtendFollows
        <5>3. Parts * l <= Parts * (l + 1) /\ Parts * l \in Nat /\ Parts * (l + 1) \in Nat
          <6> HIDE DEF l
          <6> QED BY <3>1, <3>4
        <5>4. q + Len(to_client[c]) <= Parts * (l + 1)
          <6> DEFINE a == Len(to_client[c])
                     x == Parts * l
                     y == Parts * (l + 1)
          <6>1. a \in Nat /\ x \in Nat /\ y \in Nat /\ x <= y /\ q + a <= x
            BY <3>5, <5>1, <5>3
          <6> HIDE DEF a, x, y
          <6>2. q + a <= y
            BY <6>1
          <6> QED BY <6>2 DEF a, y
        <5> QED BY <4>2, <5>1, <5>2, <5>4
      <4> QED BY <3>3, <4>1, <4>2
    <3>8. q \div Parts <= l + 1
      <4> HIDE DEF l
      <4> QED BY <3>1, <3>5
    <3>9. sent'[c] # <<>>
      <4> HIDE DEF l
      <4> QED BY <3>1
    <3>10. ReadSoFar(c, q)'
      <4> HIDE DEF l
      <4> QED BY <1>1, <2>1, <3>1, <3>2, <3>5, <3>6, <3>7, <3>8, <3>9 DEF ReadSoFar, Running
    <3> QED BY <2>3, <3>10
  <2> QED BY <2>2, <2>3
<1>4. CASE \E c \in Clients : \E n \in 1 .. Len(to_client[c]) : GatewayRead(c, n)
  <2> PICK c \in Clients : \E n \in 1 .. Len(to_client[c]) : GatewayRead(c, n)
    BY <1>4
  <2> PICK n \in 1 .. Len(to_client[c]) : GatewayRead(c, n)
    OBVIOUS
  <2>1. /\ UNCHANGED <<conns, sent>>
        /\ to_client' = [to_client EXCEPT ![c] = SubSeq(@, n + 1, Len(@))]
    BY DEF GatewayRead
  <2>2. \A d \in Clients : Sent(d)' = Sent(d)
    BY <2>1 DEF Sent
  <2> SUFFICES ASSUME NEW d \in Clients PROVE \E q \in Nat : ReadSoFar(d, q)'
    BY DEF Streamed
  <2> PICK q \in Nat : ReadSoFar(d, q)
    BY <1>0 DEF Streamed
  <2>3. /\ UNCHANGED fault /\ cut \subseteq cut'
        /\ d # c => gateways'[d] = gateways[d] /\ delivered'[d] = delivered[d]
        /\ d = c =>
             /\ (q + n) \div Parts <= Len(sent[c]) /\ sent[c] # <<>>
             /\ Len(gateways'[c].inbound) = (q + n) % Parts
             /\ Counted(gateways'[c], delivered'[c])
             /\ c \notin cut' =>
                  Passed(c, Sent(c), gateways'[c], delivered'[c], (q + n) \div Parts)
    BY ReadFacts
  <2>4. CASE d # c
    <3>1. to_client'[d] = to_client[d]
      BY <1>t, <2>1, <2>4
    <3>2. d \notin cut' => d \notin cut
      BY <2>3
    <3>3. ReadSoFar(d, q)'
      BY <1>1, <2>1, <2>2, <2>3, <2>4, <3>1, <3>2 DEF ReadSoFar, Running
    <3> QED BY <3>3
  <2>5. CASE d = c
    <3>1. /\ to_client'[c] = SubSeq(to_client[c], n + 1, Len(to_client[c]))
          /\ to_client[c] \in Seq(Received) /\ Len(to_client[c]) \in Nat
          /\ n \in 0 .. Len(to_client[c]) /\ n \in Nat /\ q + n \in Nat
      BY <1>t, <2>1
    <3>2. /\ B!Follow(to_client[c], Sent(c), q)
          /\ conns[c] # "closed" => q + Len(to_client[c]) = Parts * Len(sent[c])
          /\ q + Len(to_client[c]) <= Parts * Len(sent[c])
      BY <1>1, <2>5 DEF ReadSoFar
    <3>3. /\ Len(to_client'[c]) = Len(to_client[c]) - n
          /\ B!Follow(to_client'[c], Sent(c), q + n)
      BY <3>1, <3>2, StreamAssumption, B!TakeFollows
    <3>4. (q + n) + Len(to_client'[c]) = q + Len(to_client[c])
      <4> DEFINE a == Len(to_client[c])
                 b == Len(to_client'[c])
      <4>1. a \in Nat /\ n \in Nat /\ b = a - n
        BY <3>1, <3>3
      <4> HIDE DEF a, b
      <4>2. (q + n) + b = q + a
        BY <4>1
      <4> QED BY <4>2 DEF a, b
    <3>5. ReadSoFar(c, q + n)'
      BY <1>1, <2>1, <2>2, <2>3, <2>5, <3>2, <3>3, <3>4 DEF ReadSoFar, Running
    <3> QED BY <2>5, <3>1, <3>5
  <2> QED BY <2>4, <2>5
<1>5. CASE \E c \in Clients : OnClose(c)
  <2> PICK c \in Clients : OnClose(c)
    BY <1>5
  <2>1. /\ conns' = [conns EXCEPT ![c] = "closed"]
        /\ UNCHANGED <<to_client, sent, gateways, delivered, cut>>
    BY DEF OnClose, AfterClose, gatewayVars
  <2>2. \A d \in Clients : conns'[d] # "closed" => conns[d] # "closed"
    BY <1>t, <2>1
  <2> QED BY <1>2, <2>1, <2>2
<1>6. CASE Store
  <2>1. /\ UNCHANGED <<to_client, sent, gateways, delivered, cut>>
        /\ \/ UNCHANGED conns
           \/ /\ next_client_id \in Clients
              /\ conns' = [conns EXCEPT ![next_client_id] = "open"]
    BY <1>6 DEF Store, gatewayVars
  <2>2. next_client_id \in Clients => conns[next_client_id] = "none"
    <3>1. next_client_id \in 0 .. MaxNumClients /\ MaxNumClients \in Nat
      BY <1>0, ResponsesAssumption DEF Typed
    <3>2. ~(next_client_id < next_client_id)
      BY <3>1
    <3> QED BY <1>0, <1>1, <3>2 DEF Connected
  <2>3. \A d \in Clients : conns'[d] # "closed" => conns[d] # "closed"
    BY <1>t, <2>1, <2>2
  <2> QED BY <1>2, <2>1, <2>3
<1> QED BY <1>2, <1>3, <1>4, <1>5, <1>6
        DEF Next, LoopThread, ResponseThread, Accept, Reject, WriteMessage, EndWrite,
            EngineResponds, SwitchQueue, PushIndex, Serialise, Notify, gatewayVars

-----------------------------------------------------------------------------
\* Every step keeps the inductive invariant.
LEMMA InvStep ==
    ASSUME IInv, [Next]_vars
    PROVE  IInv'
<1>1. CASE Next
  BY <1>1, TypedStep, PlacedStep, SoundStep, SignalledStep, ConnectedStep, StreamedStep,
     SocketMissingStep, StrandedStep DEF IInv
<1>2. CASE UNCHANGED vars
  <2>1. Typed' /\ Placed' /\ Sound' /\ Signalled' /\ Connected'
    <3>1. Typed'
      BY <1>2 DEF IInv, Typed, vars, workerVars, gatewayVars
    <3>2. Placed'
      BY <1>2 DEF IInv, Placed, PlacedAt, vars, workerVars, Busy, Unwritten, Intact
    <3>3. Sound'
      BY <1>2 DEF IInv, Sound, Intact, vars, workerVars
    <3>4. Signalled' /\ Connected'
      BY <1>2 DEF IInv, Signalled, Connected, vars, workerVars, Running
    <3> QED BY <3>1, <3>2, <3>3, <3>4
  <2>2. Streamed'
    <3>1. /\ UNCHANGED <<to_client, sent, gateways, delivered, cut, conns, fault>>
          /\ Streamed
      BY <1>2 DEF IInv, vars, workerVars, gatewayVars
    <3> QED BY <3>1 DEF Streamed, ReadSoFar, Sent, Running
  <2>3. SocketMissing' /\ NoneStranded'
    BY <1>2 DEF IInv, SocketMissing, NoneStranded, Running, vars, workerVars
  <2> QED BY <2>1, <2>2, <2>3 DEF IInv
<1> QED BY <1>1, <1>2

\* The inductive invariant holds in every state the server, the response thread and
\* the gateways can reach.
THEOREM ResponsesInvariance == Spec => []IInv
<1>1. Init => IInv
  BY InitInv
<1>2. IInv /\ [Next]_vars => IInv'
  BY InvStep
<1> QED BY <1>1, <1>2, PTL DEF Spec

\* Every slot of an outbound buffer that append_to_outbound_buffer writes, or that
\* waits to be sent, lies within the buffer, and an inbound buffer is shifted down to
\* less than a message.
THEOREM ResponsesTypeCorrect == Spec => []TypeOK
<1>1. IInv => TypeOK
  <2> SUFFICES ASSUME IInv PROVE TypeOK
    OBVIOUS
  <2>1. Typed /\ Streamed
    BY DEF IInv
  <2>2. /\ loop.at \in {"idle", "accept", "write"}
        /\ worker.at \in {"poll", "serialise", "notify"} /\ worker.queue \in Queues
    <3>1. /\ loop \in [at : {"idle", "accept"}] \cup [at : {"write"}, conn : Clients]
          /\ worker \in [at : {"poll"}, queue : Queues] \cup
                        [at : {"serialise", "notify"}, queue : Queues, response : Responses]
      BY <2>1 DEF Typed
    <3> QED BY <3>1
  <2>3. ASSUME NEW c \in Clients
        PROVE  /\ next_send[c] \in 0 .. MaxBufferedResponse
               /\ DOMAIN outbound[c] = Slots /\ Range(write_queue[c]) \subseteq Slots
               /\ Len(gateways[c].inbound) < Parts
    <3>1. /\ next_send[c] \in 0 .. MaxBufferedResponse
          /\ outbound[c] \in [Slots -> Messages] /\ write_queue[c] \in Seq(Slots)
      BY <2>1 DEF Typed
    <3>2. Range(write_queue[c]) \subseteq Slots
      BY <3>1, ElementOfSeq DEF Range
    <3> PICK q \in Nat : ReadSoFar(c, q)
      BY <2>1 DEF Streamed
    <3>3. Parts \in Nat \ {0} /\ q % Parts \in 0 .. Parts - 1
      BY StreamAssumption, Quotient
    <3>4. Len(gateways[c].inbound) < Parts
      BY <3>3 DEF ReadSoFar
    <3> QED BY <3>1, <3>2, <3>4
  <2> QED BY <2>1, <2>2, <2>3 DEF TypeOK, Typed
<1> QED BY <1>1, ResponsesInvariance, PTL

\* No wake-up of write_message is lost, although uv_async_send may stand for several
\* responses.
THEOREM NoResponseStranded == Spec => []NoneStranded
<1>1. IInv => NoneStranded
  BY DEF IInv
<1> QED BY <1>1, ResponsesInvariance, PTL

\* The null pointer in process_responses_helper has only the two causes that
\* SocketMissing names.
THEOREM SocketMissingCauses == Spec => []SocketMissing
<1>1. IInv => SocketMissing
  BY DEF IInv
<1> QED BY <1>1, ResponsesInvariance, PTL

\* Unless it was read early, the k-th message given to uv_write for a client is its
\* k-th response with the number k.
THEOREM WireIsSound == Spec => []WireSound
<1>1. IInv => WireSound
  <2> SUFFICES ASSUME IInv, NEW c \in Clients, NEW k \in DOMAIN sent[c], ~sent[c][k].early
               PROVE  sent[c][k].msg = [seq |-> k, client |-> c, body |-> numbered[c][k].body]
    BY DEF WireSound
  <2>1. sent[c] \in Seq([msg : Messages, early : BOOLEAN]) /\ Sound
    BY DEF IInv, Typed
  <2>2. k \in 1 .. Len(sent[c])
    BY <2>1
  <2> QED BY <2>1, <2>2 DEF Sound, Intact
<1> QED BY <1>1, ResponsesInvariance, PTL

\* order_gateway passes on the responses for its client with their numbers in a row,
\* and as long as every message came in one read they are those that were taken for it,
\* in order, each whole unless its slot was read early.
THEOREM ResponsesDeliveredInOrder == Spec => []DeliveredInOrder
<1>1. IInv => DeliveredInOrder
  <2> SUFFICES ASSUME IInv, NEW c \in Clients, NEW k \in DOMAIN delivered[c]
               PROVE  /\ delivered[c][k].seq = k + 1
                      /\ c \notin cut =>
                           /\ delivered[c][k].client = c
                           /\ \/ delivered[c][k].body = numbered[c][k + 1].body
                              \/ sent[c][k + 1].early
    BY DEF DeliveredInOrder
  <2>1. Typed /\ Sound /\ Streamed
    BY DEF IInv
  <2>2. delivered[c] \in Seq(Messages) /\ gateways[c] \in Gateways
    BY <2>1 DEF Typed
  <2>3. k \in 1 .. Len(delivered[c]) /\ Len(delivered[c]) \in Nat /\ delivered[c] # <<>>
    BY <2>2
  <2> PICK q \in Nat : ReadSoFar(c, q)
    BY <2>1 DEF Streamed
  <2> DEFINE n == q \div Parts
             l == Len(sent[c])
             e == gateways[c].next_exp
  <2>4. delivered[c][k].seq = k + 1
    BY <2>3 DEF ReadSoFar, Counted
  <2>5. ASSUME c \notin cut
        PROVE  /\ delivered[c][k].client = c
               /\ \/ delivered[c][k].body = numbered[c][k + 1].body
                  \/ sent[c][k + 1].early
    <3>1. Passed(c, Sent(c), gateways[c], delivered[c], n) /\ n <= l
      BY <2>5 DEF ReadSoFar
    <3>2. l \in Nat /\ n \in Nat /\ e \in Nat
      BY <2>1, <2>2, SentIs, StreamAssumption, Quotient DEF Gateways
    <3>3. /\ e \in 2 .. n + 1 /\ Len(delivered[c]) = e - 2
          /\ delivered[c][k] = Sent(c)[k + 1] /\ delivered[c][k].client = c
      BY <2>3, <3>1 DEF Passed
    <3> HIDE DEF n, l, e
    <3>4. k + 1 \in 1 .. l
      BY <2>3, <3>1, <3>2, <3>3
    <3>5. delivered[c][k] = sent[c][k + 1].msg
      BY <2>1, <3>3, <3>4, SentIs DEF l
    <3>6. sent[c][k + 1].early \/ sent[c][k + 1].msg = Intact(c, k + 1)
      BY <2>1, <3>4 DEF Sound, l
    <3> QED BY <3>3, <3>5, <3>6 DEF Intact
  <2> QED BY <2>4, <2>5
<1> QED BY <1>1, ResponsesInvariance, PTL
==============================================================================
