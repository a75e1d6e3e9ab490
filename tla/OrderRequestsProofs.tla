-------------------------- MODULE OrderRequestsProofs -------------------------
(***************************************************************************)
(* Proofs about OrderRequests, for any number of clients and requests, any *)
(* size of a message and of the sequencer, any cut of the streams into     *)
(* reads, and anything a cut message may deserialise to.                   *)
(*                                                                         *)
(* The argument: of every client the engine has the numbers 1 to n and the *)
(* sequencer those from n + 1 to the next expected one; what is pending    *)
(* stands in the order of its arrival and of the loop's clock, behind all  *)
(* that was published.  Of a client that counts right and whose messages   *)
(* came in one read each, the server expects the number behind the last    *)
(* message it has read, whatever it has read from others.                  *)
(***************************************************************************)
EXTENDS OrderRequests, SequenceLemmas, FiniteSetTheorems

\* One iteration of read_data's loop over the rows it has read.
B == INSTANCE StreamLemmas WITH op <- ReadRow

Messages == [seq : Nat, client : Clients]
Received == [msg : Messages, part : Nat]
Buffered == {row \in Seq(Received) : row[1] \in Received}    \* rows of a buffer
Deserialised == [seq : Nat, client : Clients \cup {NoClient}]
Rejections == [from : Clients, to : Clients]
Faults == {"none", "too many clients", "too many pending requests", "no such client"}
Published == [req : Pending, batch : Nat]

\* The types the proofs need, beyond TypeOK.
Typed ==
    /\ conns \in [Clients -> {"none", "open", "closed"}]
    /\ next_client_id \in 0 .. MaxNumClients
    /\ inbound \in [Clients -> Seq(Received)]
    /\ \A c \in Clients : Len(inbound[c]) < Parts
    /\ to_server \in [Clients -> Seq(Received)]
    /\ next_incoming_seq \in [Clients -> Nat \ {0}]
    /\ next_out \in [Clients -> Nat \ {0}]
    /\ pending \in Seq(Pending) /\ Len(pending) <= MaxPendingRequests
    /\ rejected \subseteq Rejections /\ cut \subseteq Clients /\ wrong \subseteq Clients
    /\ to_engine \in Seq(Published)
    /\ arrivals \in Nat /\ clock \in Nat /\ requests \in Nat /\ troubles \in Nat
    /\ fault \in Faults

\* Of client c the requests hold the numbers from a to b, each once.
Holds(reqs, c, a, b) ==
    /\ \A i \in DOMAIN reqs : reqs[i].client = c => reqs[i].from = c /\ reqs[i].seq \in a .. b
    /\ \A k \in a .. b : \E i \in DOMAIN reqs : reqs[i].client = c /\ reqs[i].seq = k
    /\ \A i, j \in DOMAIN reqs :
         reqs[i].client = c /\ reqs[j].client = c /\ reqs[i].seq = reqs[j].seq => i = j

Taken(engine) == [i \in DOMAIN engine |-> engine[i].req]

\* The engine has the first numbers of every client, the sequencer the next ones.
Numbered(engine, reqs, next) ==
    \A c \in Clients : \E n \in Nat :
      /\ n < next[c]
      /\ Holds(Taken(engine), c, 1, n) /\ Holds(reqs, c, n + 1, next[c] - 1)

\* Pending requests stand in the order in which they arrived, behind what was
\* published; the next one will stand behind them.
Lined(engine, reqs, count, now) ==
    /\ \A i \in DOMAIN reqs : reqs[i].arrival <= count /\ reqs[i].time <= now
    /\ \A i, j \in DOMAIN reqs :
         i < j => reqs[i].arrival < reqs[j].arrival /\ reqs[i].time <= reqs[j].time
    /\ \A k \in DOMAIN engine :
         /\ engine[k].req.arrival <= count
         /\ \A i \in DOMAIN reqs : engine[k].req.arrival < reqs[i].arrival

\* The messages of a client that counts right.
Right(c) == [k \in Nat |-> [seq |-> k, client |-> c]]

\* The server has read q cells of the stream of c, and expects the number behind the
\* messages that are complete in them.
ReadSoFar(c, q) ==
    /\ B!Follow(to_server[c], Right(c), q)
    /\ q + Len(to_server[c]) = Parts * (next_out[c] - 1)
    /\ Len(inbound[c]) = q % Parts
    /\ next_incoming_seq[c] = (q \div Parts) + 1

\* A client that counts right and whose messages came in one read each.
Clean(c) == c \in Clients \ (cut \cup wrong)

\* The server is in step with all of these, and has rejected none of them.
InStep ==
    \A c \in Clients : Clean(c) =>
      /\ \A r \in rejected : r.from # c
      /\ Running => \E q \in Nat : ReadSoFar(c, q)

\* The inductive invariant.
IInv ==
    /\ Typed
    /\ Numbered(to_engine, pending, next_incoming_seq)
    /\ Lined(to_engine, pending, arrivals, clock)
    /\ FirstComeFirstServed
    /\ InStep

-----------------------------------------------------------------------------
\* The loop of read_data.

\* The instance's definitions about streams are those of the model.
LEMMA SameStreams ==
    /\ \A left, chunk : B!Filled(left, chunk) = Filled(left, chunk)
    /\ \A cells : B!Rows(cells) = Rows(cells) /\ B!Shifted(cells) = Shifted(cells)
    /\ \A row : B!Whole(row) = Whole(row)
    /\ \A m : B!Cells(m) = Cells(m)
<1>1. \A cells : B!Rows(cells) = Rows(cells)
  BY DEF B!Rows, Rows
<1>2. \A m : B!Cells(m) = Cells(m)
  BY DEF B!Cells, Cells
<1>3. \A left, chunk : B!Filled(left, chunk) = Filled(left, chunk)
  BY DEF B!Filled, Filled
<1>4. \A cells : B!Shifted(cells) = Shifted(cells)
  BY DEF B!Shifted, Shifted
<1>5. \A row : B!Whole(row) = Whole(row)
  BY <1>2 DEF B!Whole, Whole
<1> QED BY <1>1, <1>2, <1>3, <1>4, <1>5

\* The loop runs through the states h[0], h[1], ...
LEMMA ReadSteps ==
    ASSUME NEW S, NEW seq \in Seq(S), NEW base
    PROVE  \E h : /\ h[0] = base
                  /\ \A i \in 1 .. Len(seq) : h[i] = ReadRow(h[i - 1], seq[i])
                  /\ FoldLeft(ReadRow, base, seq) = h[Len(seq)]
<1>1. B!FoldLeft(ReadRow, base, seq) = FoldLeft(ReadRow, base, seq)
  BY DEF B!FoldLeft, B!MapThenFoldSet, B!Max, FoldLeft, MapThenFoldSet, Max
<1>2. \E h : /\ h[0] = base
             /\ \A i \in 1 .. Len(seq) : h[i] = ReadRow(h[i - 1], seq[i])
             /\ B!FoldLeft(ReadRow, base, seq) = h[Len(seq)]
  BY StreamAssumption, B!FoldSteps, Zenon
<1> QED BY <1>1, <1>2

\* What holds before the loop and is kept by every iteration holds behind it.
LEMMA ReadKeeps ==
    ASSUME NEW S, NEW seq \in Seq(S), NEW T, NEW base \in T,
           \A s \in T : \A m \in S : ReadRow(s, m) \in T
    PROVE  FoldLeft(ReadRow, base, seq) \in T
<1>1. PICK h : /\ h[0] = base
               /\ \A i \in 1 .. Len(seq) : h[i] = ReadRow(h[i - 1], seq[i])
               /\ FoldLeft(ReadRow, base, seq) = h[Len(seq)]
  BY ReadSteps
<1> DEFINE n == Len(seq)
           bad == {i \in 0 .. n : h[i] \notin T}
<1>2. n \in Nat /\ \A i \in 1 .. n : seq[i] \in S
  OBVIOUS
<1> HIDE DEF n
<1>3. bad = {}
  <2> SUFFICES ASSUME bad # {} PROVE FALSE
    OBVIOUS
  <2>1. bad \subseteq Nat
    BY <1>2
  <2>2. PICK i \in bad : \A j \in bad : i <= j
    BY <2>1, LeastElement
  <2>3. i # 0
    BY <1>1
  <2>4. i \in 1 .. n /\ i - 1 \in 0 .. n /\ i - 1 \notin bad
    BY <1>2, <2>2, <2>3
  <2>5. h[i - 1] \in T
    BY <2>4
  <2>6. h[i] = ReadRow(h[i - 1], seq[i])
    BY <1>1, <2>4 DEF n
  <2>7. h[i] \in T
    BY <1>2, <2>4, <2>5, <2>6
  <2> QED BY <2>7
<1>4. n \in 0 .. n
  BY <1>2
<1> QED BY <1>1, <1>3, <1>4 DEF n

-----------------------------------------------------------------------------
\* A request joins the pending ones.

\* A request with the next number.
LEMMA HoldsNext ==
    ASSUME NEW reqs \in Seq(Pending), NEW e \in Pending, NEW c \in Clients,
           NEW a \in Nat, NEW b \in Int, a <= b + 1, Holds(reqs, c, a, b),
           e.client = c, e.from = c, e.seq = b + 1
    PROVE  Holds(Append(reqs, e), c, a, b + 1)
<1> DEFINE t == Append(reqs, e)
           l == Len(reqs)
<1>1. /\ l \in Nat /\ DOMAIN reqs = 1 .. l /\ DOMAIN t = 1 .. l + 1
      /\ t[l + 1] = e /\ \A i \in 1 .. l : t[i] = reqs[i] /\ reqs[i] \in Pending
  OBVIOUS
<1> HIDE DEF t, l
<1>2. \A i \in 1 .. l : reqs[i].client = c =>
         reqs[i].from = c /\ reqs[i].seq \in a .. b /\ reqs[i].seq # b + 1
  BY <1>1 DEF Holds
<1>3. \A i \in DOMAIN t : i = l + 1 \/ i \in 1 .. l
  BY <1>1
<1>4. \A i \in DOMAIN t : t[i].client = c => t[i].from = c /\ t[i].seq \in a .. b + 1
  BY <1>1, <1>2, <1>3
<1>5. ASSUME NEW k \in a .. b + 1
      PROVE  \E i \in DOMAIN t : t[i].client = c /\ t[i].seq = k
  <2>1. CASE k = b + 1
    BY <1>1, <2>1
  <2>2. CASE k # b + 1
    <3>1. k \in a .. b
      BY <2>2
    <3>2. PICK i \in 1 .. l : reqs[i].client = c /\ reqs[i].seq = k
      BY <1>1, <3>1 DEF Holds
    <3>3. i \in DOMAIN t /\ t[i] = reqs[i]
      BY <1>1
    <3> QED BY <3>2, <3>3
  <2> QED BY <2>1, <2>2
<1>6. ASSUME NEW i \in DOMAIN t, NEW j \in DOMAIN t, t[i].client = c, t[j].client = c,
             t[i].seq = t[j].seq
      PROVE  i = j
  <2>1. CASE i \in 1 .. l /\ j \in 1 .. l
    BY <1>1, <1>6, <2>1 DEF Holds
  <2>2. CASE i = l + 1 /\ j \in 1 .. l
    BY <1>1, <1>2, <1>6, <2>2
  <2>3. CASE i \in 1 .. l /\ j = l + 1
    BY <1>1, <1>2, <1>6, <2>3
  <2> QED BY <1>3, <2>1, <2>2, <2>3
<1> QED BY <1>4, <1>5, <1>6 DEF Holds, t

\* A request of another client.
LEMMA HoldsOther ==
    ASSUME NEW reqs \in Seq(Pending), NEW e \in Pending, NEW c \in Clients,
           NEW a \in Nat, NEW b \in Int, Holds(reqs, c, a, b), e.client # c
    PROVE  Holds(Append(reqs, e), c, a, b)
<1> DEFINE t == Append(reqs, e)
           l == Len(reqs)
<1>1. /\ l \in Nat /\ DOMAIN reqs = 1 .. l /\ DOMAIN t = 1 .. l + 1
      /\ t[l + 1] = e /\ \A i \in 1 .. l : t[i] = reqs[i]
  OBVIOUS
<1> HIDE DEF t, l
<1>2. \A i \in DOMAIN t : t[i].client = c => i \in 1 .. l
  BY <1>1
<1>3. \A i \in 1 .. l : i \in DOMAIN t
  BY <1>1
<1>4. /\ \A i \in 1 .. l : reqs[i].client = c => reqs[i].from = c /\ reqs[i].seq \in a .. b
      /\ \A k \in a .. b : \E i \in 1 .. l : reqs[i].client = c /\ reqs[i].seq = k
      /\ \A i, j \in 1 .. l :
           reqs[i].client = c /\ reqs[j].client = c /\ reqs[i].seq = reqs[j].seq => i = j
  BY <1>1 DEF Holds
<1>5. \A i \in DOMAIN t : t[i].client = c => t[i].from = c /\ t[i].seq \in a .. b
  BY <1>1, <1>2, <1>4
<1>6. ASSUME NEW k \in a .. b PROVE \E i \in DOMAIN t : t[i].client = c /\ t[i].seq = k
  <2>1. PICK i \in 1 .. l : reqs[i].client = c /\ reqs[i].seq = k
    BY <1>4
  <2> QED BY <1>1, <1>3, <2>1
<1>7. \A i, j \in DOMAIN t :
        t[i].client = c /\ t[j].client = c /\ t[i].seq = t[j].seq => i = j
  BY <1>1, <1>2, <1>4
<1> QED BY <1>5, <1>6, <1>7 DEF Holds, t

\* Of every client, the engine and the sequencer hold the numbers up to the next.
LEMMA NumberedNext ==
    ASSUME NEW engine, NEW reqs \in Seq(Pending), NEW next \in [Clients -> Nat \ {0}],
           Numbered(engine, reqs, next), NEW e \in Pending,
           e.from = e.client, e.seq = next[e.client]
    PROVE  Numbered(engine, Append(reqs, e), [next EXCEPT ![e.client] = @ + 1])
<1> DEFINE d == e.client
           new == [next EXCEPT ![d] = @ + 1]
<1>1. d \in Clients
  BY DEF Pending
<1>0. SUFFICES Numbered(engine, Append(reqs, e), new)
  OBVIOUS
<1> HIDE DEF d
<1>2. \A c \in Clients : new[c] = IF c = d THEN next[c] + 1 ELSE next[c]
  BY <1>1
<1> HIDE DEF new
<1> SUFFICES ASSUME NEW c \in Clients
             PROVE  \E n \in Nat : /\ n < new[c] /\ Holds(Taken(engine), c, 1, n)
                                   /\ Holds(Append(reqs, e), c, n + 1, new[c] - 1)
  BY DEF Numbered
<1>3. PICK n \in Nat : /\ n < next[c] /\ Holds(Taken(engine), c, 1, n)
                       /\ Holds(reqs, c, n + 1, next[c] - 1)
  BY DEF Numbered
<1>4. next[c] \in Nat \ {0} /\ n + 1 \in Nat /\ next[c] - 1 \in Int
      /\ (next[c] - 1) + 1 = next[c] /\ (next[c] + 1) - 1 = next[c] /\ n + 1 <= next[c]
      /\ n < next[c] + 1
  BY <1>3
<1>5. CASE c = d
  <2>1. e.client = c /\ e.from = c /\ e.seq = (next[c] - 1) + 1
    BY <1>4, <1>5 DEF d
  <2>2. Holds(Append(reqs, e), c, n + 1, (next[c] - 1) + 1)
    BY <1>3, <1>4, <2>1, HoldsNext
  <2> QED BY <1>2, <1>3, <1>4, <1>5, <2>2
<1>6. CASE c # d
  <2>1. Holds(Append(reqs, e), c, n + 1, next[c] - 1)
    BY <1>3, <1>4, <1>6, HoldsOther DEF d
  <2> QED BY <1>2, <1>3, <1>6, <2>1
<1> QED BY <1>5, <1>6

\* What has been published.
LEMMA EngineTyped ==
    ASSUME NEW engine \in Seq(Published), NEW k \in DOMAIN engine
    PROVE  /\ engine[k].req \in Pending /\ engine[k].batch \in Nat
           /\ engine[k].req.arrival \in Nat
<1> DEFINE x == engine[k]
<1>0. engine[k] \in Published
  OBVIOUS
<1>1. x \in [req : Pending, batch : Nat]
  BY <1>0 DEF Published
<1> HIDE DEF x
<1>2. x.req \in Pending /\ x.batch \in Nat
  BY <1>1
<1>3. x.req.arrival \in Nat
  BY <1>2 DEF Pending
<1> QED BY <1>2, <1>3 DEF x

\* It stands behind the others.
LEMMA LinedNext ==
    ASSUME NEW engine \in Seq(Published), NEW reqs \in Seq(Pending), NEW count \in Nat,
           NEW now \in Nat, Lined(engine, reqs, count, now), NEW e \in Pending,
           e.time = now, e.arrival = count + 1
    PROVE  Lined(engine, Append(reqs, e), count + 1, now)
<1> DEFINE t == Append(reqs, e)
           l == Len(reqs)
<1>1. /\ l \in Nat /\ DOMAIN reqs = 1 .. l /\ DOMAIN t = 1 .. l + 1
      /\ t[l + 1] = e /\ \A i \in 1 .. l : t[i] = reqs[i]
  OBVIOUS
<1>2. \A i \in 1 .. l : reqs[i].arrival \in Nat /\ reqs[i].time \in Nat
  <2>1. \A i \in 1 .. l : reqs[i] \in Pending
    OBVIOUS
  <2> HIDE DEF l
  <2> QED BY <2>1 DEF Pending
<1>3. \A k \in DOMAIN engine : engine[k].req.arrival \in Nat
  BY EngineTyped
<1> HIDE DEF t, l
<1>4. \A i \in 1 .. l : /\ reqs[i].arrival < count + 1 /\ reqs[i].arrival <= count + 1
                        /\ reqs[i].time <= now
  BY <1>1, <1>2 DEF Lined
<1>5. \A i \in DOMAIN t : i = l + 1 \/ i \in 1 .. l
  BY <1>1
<1>6. \A i \in DOMAIN t : t[i].arrival <= count + 1 /\ t[i].time <= now
  BY <1>1, <1>4, <1>5
<1>7. ASSUME NEW i \in DOMAIN t, NEW j \in DOMAIN t, i < j
      PROVE  t[i].arrival < t[j].arrival /\ t[i].time <= t[j].time
  <2>1. i \in 1 .. l
    BY <1>1, <1>7
  <2>2. CASE j = l + 1
    BY <1>1, <1>4, <2>1, <2>2
  <2>3. CASE j \in 1 .. l
    BY <1>1, <1>7, <2>1, <2>3 DEF Lined
  <2> QED BY <1>5, <2>2, <2>3
<1>8. ASSUME NEW k \in DOMAIN engine
      PROVE  /\ engine[k].req.arrival <= count + 1
             /\ \A i \in DOMAIN t : engine[k].req.arrival < t[i].arrival
  <2>1. engine[k].req.arrival <= count
    BY DEF Lined
  <2>2. engine[k].req.arrival <= count + 1 /\ engine[k].req.arrival < count + 1
    BY <1>3, <2>1
  <2>3. \A i \in 1 .. l : engine[k].req.arrival < reqs[i].arrival
    BY <1>1 DEF Lined
  <2> QED BY <1>1, <1>5, <2>2, <2>3
<1> QED BY <1>6, <1>7, <1>8 DEF Lined, t

\* The states of the loop in a read from connection c: as before for the others.
LoopRecords(c) ==
    [conn : {c}, now : {clock}, rejected : SUBSET Rejections, pending : Seq(Pending),
     next_in : [Clients -> Nat \ {0}], arrivals : Nat, fault : Faults]

Apart(c, s) ==
    /\ \A r \in s.rejected : r \in rejected \/ r.from = c
    /\ \A d \in Clients \ {c} : s.next_in[d] = next_incoming_seq[d]

LoopStates(c) ==
    {s \in LoopRecords(c) :
       /\ Len(s.pending) <= MaxPendingRequests
       /\ Numbered(to_engine, s.pending, s.next_in)
       /\ Lined(to_engine, s.pending, s.arrivals, s.now)
       /\ Apart(c, s)}

\* What an iteration makes of such a state when it takes the message.
LEMMA TakeOne ==
    ASSUME Typed, NEW c \in Clients, NEW s \in LoopStates(c), NEW m \in Deserialised,
           s.fault = "none", Valid(s, m), ~NoRoom(s)
    PROVE  LET t == ReadRequest(s, m)
           IN  /\ t \in LoopStates(c)
               /\ t.rejected = s.rejected /\ t.fault = s.fault
               /\ t.next_in = [s.next_in EXCEPT ![c] = s.next_in[c] + 1]
<1> DEFINE e == [time |-> clock, client |-> c, seq |-> m.seq, from |-> c,
                 arrival |-> s.arrivals + 1]
           next == [s.next_in EXCEPT ![c] = s.next_in[c] + 1]
           t == ReadRequest(s, m)
           reqs == Append(s.pending, e)
           S == Seq(Pending)
           R == SUBSET Rejections
           N == [Clients -> Nat \ {0}]
<1>1. /\ s \in [conn : {c}, now : {clock}, rejected : R, pending : S,
                next_in : N, arrivals : Nat, fault : Faults]
      /\ Len(s.pending) <= MaxPendingRequests
      /\ Numbered(to_engine, s.pending, s.next_in)
      /\ Lined(to_engine, s.pending, s.arrivals, s.now)
      /\ Apart(c, s)
  BY DEF LoopStates, LoopRecords
<1> HIDE DEF S, R, N
<1>2. /\ s.conn = c /\ s.now = clock /\ s.rejected \in R /\ s.pending \in S
      /\ s.next_in \in N /\ s.arrivals \in Nat /\ s.fault \in Faults
  BY <1>1
<1>3. m.client = c /\ m.seq = s.next_in[c] /\ m.seq \in Nat
  BY <1>2 DEF Valid, Deserialised
<1>4. e \in Pending
  <2> DEFINE d == s.arrivals + 1
             v == m.seq
  <2>0. clock \in Nat
    BY DEF Typed
  <2>1. d \in Nat /\ v \in Nat
    BY <1>2, <1>3
  <2> HIDE DEF d, v
  <2>2. [time |-> clock, client |-> c, seq |-> v, from |-> c, arrival |-> d] \in Pending
    BY <2>0, <2>1 DEF Pending
  <2> QED BY <2>2 DEF d, v
<1>5. e.client = c /\ e.from = c /\ e.seq = s.next_in[c] /\ e.time = clock
      /\ e.arrival = s.arrivals + 1
  BY <1>3
<1>6. t = [s EXCEPT !.next_in = next, !.arrivals = s.arrivals + 1, !.pending = reqs]
  <2>1. t = [s EXCEPT !.next_in[c] = @ + 1, !.arrivals = @ + 1, !.pending = Append(@, e)]
    BY <1>2, <1>3 DEF ReadRequest
  <2> HIDE DEF e, t
  <2> QED BY <1>1, <2>1
<1> HIDE DEF e, t
<1>7. next \in N /\ \A d \in Clients \ {c} : next[d] = s.next_in[d]
  BY <1>2 DEF N
<1>8. reqs \in S /\ Len(reqs) <= MaxPendingRequests
  <2>1. Len(s.pending) \in Nat /\ Len(s.pending) < MaxPendingRequests
    BY <1>2, RequestsAssumption DEF NoRoom, S
  <2>2. reqs \in S /\ Len(reqs) = Len(s.pending) + 1
    BY <1>2, <1>4 DEF S
  <2> HIDE DEF reqs
  <2> QED BY <2>1, <2>2, RequestsAssumption
<1>9. Numbered(to_engine, reqs, next)
  <2>1. Numbered(to_engine, reqs, [s.next_in EXCEPT ![e.client] = @ + 1])
    BY <1>1, <1>2, <1>4, <1>5, NumberedNext DEF S, N
  <2> QED BY <1>5, <2>1
<1>10. Lined(to_engine, reqs, s.arrivals + 1, clock)
  <2>1. to_engine \in Seq(Published) /\ clock \in Nat
    BY DEF Typed
  <2>2. s.pending \in Seq(Pending) /\ Lined(to_engine, s.pending, s.arrivals, clock)
    BY <1>1, <1>2 DEF S
  <2> QED BY <1>2, <1>4, <1>5, <2>1, <2>2, LinedNext, ZenonT(30)
<1> HIDE DEF next, reqs
<1>11. /\ t.conn = c /\ t.now = clock /\ t.rejected = s.rejected /\ t.pending = reqs
       /\ t.next_in = next /\ t.arrivals = s.arrivals + 1 /\ t.fault = s.fault
       /\ t \in [conn : {c}, now : {clock}, rejected : R, pending : S,
                 next_in : N, arrivals : Nat, fault : Faults]
  <2> DEFINE d == s.arrivals + 1
  <2>1. d \in Nat /\ t = [s EXCEPT !.next_in = next, !.arrivals = d, !.pending = reqs]
    BY <1>2, <1>6
  <2> HIDE DEF d
  <2>2. /\ t.conn = c /\ t.now = clock /\ t.rejected = s.rejected /\ t.pending = reqs
        /\ t.next_in = next /\ t.arrivals = d /\ t.fault = s.fault
    BY <1>1, <2>1
  <2>3. t \in [conn : {c}, now : {clock}, rejected : R, pending : S,
               next_in : N, arrivals : Nat, fault : Faults]
    BY <1>1, <1>7, <1>8, <2>1
  <2> QED BY <2>2, <2>3 DEF d
<1>12. Apart(c, t)
  BY <1>1, <1>7, <1>11 DEF Apart
<1>13. t \in LoopStates(c)
  BY <1>8, <1>9, <1>10, <1>11, <1>12 DEF LoopStates, LoopRecords, S, R, N
<1> QED BY <1>11, <1>13 DEF next, t

\* Every request leads from such a state to such a state.
LEMMA ReadOne ==
    ASSUME Typed, NEW c \in Clients, NEW s \in LoopStates(c), NEW m \in Deserialised
    PROVE  ReadRequest(s, m) \in LoopStates(c)
<1> DEFINE S == Seq(Pending)
           R == SUBSET Rejections
           N == [Clients -> Nat \ {0}]
           t == ReadRequest(s, m)
<1>1. /\ s \in [conn : {c}, now : {clock}, rejected : R, pending : S,
                next_in : N, arrivals : Nat, fault : Faults]
      /\ Len(s.pending) <= MaxPendingRequests
      /\ Numbered(to_engine, s.pending, s.next_in)
      /\ Lined(to_engine, s.pending, s.arrivals, s.now)
      /\ Apart(c, s)
  BY DEF LoopStates, LoopRecords
<1>2. CASE s.fault # "none"
  BY <1>2 DEF ReadRequest
<1>3. ASSUME s.fault = "none", m.client \in Clients, ~Valid(s, m) PROVE t \in LoopStates(c)
  <2> DEFINE x == [from |-> c, to |-> m.client]
             r == s.rejected \cup {x}
  <2>0. s.conn = c
    BY <1>1
  <2>1. t = [s EXCEPT !.rejected = r]
    BY <1>3, <2>0 DEF ReadRequest
  <2>2. x \in Rejections /\ x.from = c
    BY <1>3 DEF Rejections
  <2> HIDE DEF x
  <2>3. r \in R /\ \A y \in r : y \in s.rejected \/ y.from = c
    BY <1>1, <2>2
  <2> HIDE DEF r, t, S, R, N
  <2>4. /\ t \in [conn : {c}, now : {clock}, rejected : R, pending : S,
                  next_in : N, arrivals : Nat, fault : Faults]
        /\ t.pending = s.pending /\ t.next_in = s.next_in /\ t.arrivals = s.arrivals
        /\ t.now = s.now /\ t.rejected = r
    BY <1>1, <2>1, <2>3
  <2>5. Apart(c, t)
    BY <1>1, <2>3, <2>4 DEF Apart
  <2> QED BY <1>1, <2>4, <2>5 DEF LoopStates, LoopRecords, S, R, N
<1>4. ASSUME NEW f \in Faults, t = [s EXCEPT !.fault = f] PROVE t \in LoopStates(c)
  <2> HIDE DEF t, S, R, N
  <2>1. /\ t \in [conn : {c}, now : {clock}, rejected : R, pending : S,
                  next_in : N, arrivals : Nat, fault : Faults]
        /\ t.pending = s.pending /\ t.next_in = s.next_in /\ t.arrivals = s.arrivals
        /\ t.now = s.now /\ t.rejected = s.rejected
    BY <1>1, <1>4
  <2>2. Apart(c, t)
    BY <1>1, <2>1 DEF Apart
  <2> QED BY <1>1, <2>1, <2>2 DEF LoopStates, LoopRecords, S, R, N
<1>5. CASE s.fault = "none" /\ m.client \notin Clients
  <2>1. t = [s EXCEPT !.fault = "no such client"]
    BY <1>5 DEF ReadRequest
  <2>2. "no such client" \in Faults
    BY DEF Faults
  <2> HIDE DEF t
  <2>3. t \in LoopStates(c)
    BY <1>4, <2>1, <2>2
  <2> QED BY <2>3 DEF t
<1>6. CASE s.fault = "none" /\ m.client \in Clients /\ Valid(s, m) /\ NoRoom(s)
  <2>1. t = [s EXCEPT !.fault = "too many pending requests"]
    BY <1>6 DEF ReadRequest
  <2>2. "too many pending requests" \in Faults
    BY DEF Faults
  <2> HIDE DEF t
  <2>3. t \in LoopStates(c)
    BY <1>4, <2>1, <2>2
  <2> QED BY <2>3 DEF t
<1>7. CASE s.fault = "none" /\ m.client \in Clients /\ Valid(s, m) /\ ~NoRoom(s)
  BY <1>7, TakeOne
<1> QED BY <1>2, <1>3, <1>5, <1>6, <1>7

\* So does every row, whatever it deserialises to.
LEMMA ReadAny ==
    ASSUME Typed, NEW c \in Clients, NEW states \in SUBSET LoopStates(c),
           NEW row \in Buffered
    PROVE  ReadRow(states, row) \in SUBSET LoopStates(c)
<1>1. ASSUME NEW s \in states, NEW m \in Readings(s, row)
      PROVE  ReadRequest(s, m) \in LoopStates(c)
  <2>1. s \in LoopStates(c)
    OBVIOUS
  <2>2. m \in Deserialised
    <3>1. CASE Whole(row)
      <4>1. m = row[1].msg /\ row[1] \in Received
        BY <3>1 DEF Readings, Buffered
      <4>2. m \in Messages
        BY <4>1 DEF Received
      <4> QED BY <4>2 DEF Messages, Deserialised
    <3>2. CASE ~Whole(row)
      <4> DEFINE k == s.next_in[s.conn]
      <4>1. k \in Nat
        <5>1. s.conn = c /\ s.next_in \in [Clients -> Nat \ {0}]
          BY <2>1 DEF LoopStates, LoopRecords
        <5> QED BY <5>1
      <4>2. m \in [seq : {0, k}, client : Clients \cup {NoClient}]
        BY <3>2 DEF Readings
      <4> HIDE DEF k
      <4> QED BY <4>1, <4>2 DEF Deserialised
    <3> QED BY <3>1, <3>2
  <2> QED BY <2>1, <2>2, ReadOne
<1> QED BY <1>1 DEF ReadRow

-----------------------------------------------------------------------------
\* A read.

\* The cells of a read, its rows, and what is left of them.
LEMMA BufferTyped ==
    ASSUME Typed, NEW c \in Clients, NEW n \in 1 .. Len(to_server[c])
    PROVE  LET chunk == SubSeq(to_server[c], 1, n)
               cells == Filled(inbound[c], chunk)
           IN  /\ chunk \in Seq(Received) /\ Len(chunk) = n
               /\ Rows(cells) \in Seq(Buffered)
               /\ Shifted(cells) \in Seq(Received) /\ Len(Shifted(cells)) < Parts
               /\ SubSeq(to_server[c], n + 1, Len(to_server[c])) \in Seq(Received)
<1> DEFINE r == to_server[c]
           left == inbound[c]
           chunk == SubSeq(r, 1, n)
           cells == Filled(left, chunk)
<1>0. Parts \in Nat \ {0} /\ r \in Seq(Received) /\ left \in Seq(Received)
  BY StreamAssumption DEF Typed
<1> HIDE DEF r, left
<1>1. /\ chunk \in Seq(Received) /\ Len(chunk) = n
      /\ SubSeq(r, n + 1, Len(r)) \in Seq(Received)
  BY <1>0 DEF r
<1> HIDE DEF chunk
<1>2. chunk # <<>> /\ chunk[1] \in Received
  BY <1>0, <1>1
<1>3. [chunk[1] EXCEPT !.part = 0] \in Received
  BY <1>2 DEF Received
<1>4. B!Filled(left, chunk) = cells /\ B!Shifted(cells) = Shifted(cells)
      /\ B!Rows(cells) = Rows(cells)
  BY SameStreams
<1>5. cells \in Seq(Received) /\ Shifted(cells) \in Seq(Received)
  <2>1. B!Filled(left, chunk) \in Seq(Received) /\ B!Shifted(B!Filled(left, chunk)) \in Seq(Received)
    BY <1>0, <1>1, <1>2, <1>3, StreamAssumption, B!FilledTyped
  <2> QED BY <1>4, <2>1
<1> HIDE DEF cells
<1>6. Rows(cells) \in Seq(Buffered) /\ Len(Shifted(cells)) = Len(cells) % Parts
  <2>1. LET x == Len(cells) \div Parts
        IN  /\ x \in Nat
            /\ B!Rows(cells) \in Seq({row \in Seq(Received) : row[1] \in Received})
            /\ Len(B!Rows(cells)) = x
            /\ \A i \in 1 .. x :
                 /\ B!Rows(cells)[i] \in Seq(Received) /\ Len(B!Rows(cells)[i]) = Parts
                 /\ \A k \in 1 .. Parts :
                      B!Rows(cells)[i][k] = cells[(i - 1) * Parts + k]
            /\ Len(B!Shifted(cells)) = Len(cells) % Parts
    BY <1>5, StreamAssumption, B!RowsOf, ZenonT(60)
  <2>2. /\ B!Rows(cells) \in Seq({row \in Seq(Received) : row[1] \in Received})
        /\ Len(B!Shifted(cells)) = Len(cells) % Parts
    BY <2>1, Zenon
  <2> QED BY <1>4, <2>2 DEF Buffered
<1>7. Len(Shifted(cells)) < Parts
  <2>1. Len(cells) \in Nat
    BY <1>5
  <2>2. Len(cells) % Parts \in 0 .. Parts - 1
    BY <1>0, <2>1, Quotient
  <2> QED BY <1>0, <1>6, <2>2
<1> QED BY <1>1, <1>5, <1>6, <1>7 DEF cells, chunk, left, r

\* The buffer of the loop.
Buffer(c, n) == Filled(inbound[c], SubSeq(to_server[c], 1, n))

\* The loop starts in such a state.
LEMMA StartState ==
    ASSUME IInv, NEW c \in Clients
    PROVE  Start(c) \in LoopStates(c)
<1> DEFINE S == Seq(Pending)
           R == SUBSET Rejections
           N == [Clients -> Nat \ {0}]
           s == Start(c)
<1>1. /\ rejected \in R /\ pending \in S /\ next_incoming_seq \in N /\ arrivals \in Nat
      /\ Len(pending) <= MaxPendingRequests /\ fault \in Faults
  BY DEF IInv, Typed
<1> HIDE DEF S, R, N
<1>2. /\ s \in [conn : {c}, now : {clock}, rejected : R, pending : S,
                next_in : N, arrivals : Nat, fault : Faults]
      /\ s.pending = pending /\ s.next_in = next_incoming_seq /\ s.arrivals = arrivals
      /\ s.now = clock /\ s.rejected = rejected
  BY <1>1 DEF Start
<1>3. Numbered(to_engine, pending, next_incoming_seq) /\ Lined(to_engine, pending, arrivals, clock)
  BY DEF IInv
<1> HIDE DEF s
<1>4. Apart(c, s)
  BY <1>2 DEF Apart
<1>5. s \in LoopStates(c)
  BY <1>1, <1>2, <1>3, <1>4 DEF LoopStates, LoopRecords, S, R, N
<1> QED BY <1>5 DEF s

\* Where the loop may end.
LEMMA ReadLoop ==
    ASSUME IInv, NEW c \in Clients, NEW n \in 1 .. Len(to_server[c])
    PROVE  FoldLeft(ReadRow, {Start(c)}, Rows(Buffer(c, n))) \subseteq LoopStates(c)
<1> DEFINE T == SUBSET LoopStates(c)
<1>1. Rows(Buffer(c, n)) \in Seq(Buffered)
  BY BufferTyped DEF Buffer, IInv
<1>2. {Start(c)} \in T
  BY StartState
<1>3. \A states \in T : \A row \in Buffered : ReadRow(states, row) \in T
  BY ReadAny DEF IInv
<1> HIDE DEF T
<1>4. FoldLeft(ReadRow, {Start(c)}, Rows(Buffer(c, n))) \in T
  BY <1>1, <1>2, <1>3, ReadKeeps
<1> QED BY <1>4 DEF T

\* A state of the loop over what a client sent that counts right.
RightSoFar(c, s, k) ==
    /\ s.rejected = rejected
    /\ s.fault = "none" => s.next_in = [next_incoming_seq EXCEPT ![c] = k]

\* A message with the number that is expected is taken, unless there is no room.
LEMMA ReadRight ==
    ASSUME Typed, NEW c \in Clients, NEW s \in LoopStates(c), NEW k \in Nat \ {0},
           RightSoFar(c, s, k)
    PROVE  RightSoFar(c, ReadRequest(s, Right(c)[k]), k + 1)
<1> DEFINE m == Right(c)[k]
           t == ReadRequest(s, m)
<1>1. m = [seq |-> k, client |-> c]
  BY DEF Right
<1>2. m \in Deserialised /\ m.seq = k /\ m.client = c
  BY <1>1 DEF Deserialised
<1> DEFINE S == Seq(Pending)
           R == SUBSET Rejections
           N == [Clients -> Nat \ {0}]
<1>3. s \in [conn : {c}, now : {clock}, rejected : R, pending : S,
             next_in : N, arrivals : Nat, fault : Faults]
  BY DEF LoopStates, LoopRecords
<1>4. next_incoming_seq \in N
  BY DEF Typed
<1> HIDE DEF m
<1>5. CASE s.fault # "none"
  BY <1>5 DEF ReadRequest, RightSoFar
<1>6. ASSUME s.fault = "none" PROVE Valid(s, m) /\ s.next_in = [next_incoming_seq EXCEPT ![c] = k]
  <2>1. s.next_in = [next_incoming_seq EXCEPT ![c] = k]
    BY <1>6 DEF RightSoFar
  <2>2. s.next_in[c] = k /\ s.conn = c
    BY <1>3, <1>4, <2>1
  <2> QED BY <1>2, <2>1, <2>2 DEF Valid
<1>7. CASE s.fault = "none" /\ NoRoom(s)
  <2>1. t = [s EXCEPT !.fault = "too many pending requests"]
    BY <1>2, <1>6, <1>7 DEF ReadRequest
  <2> HIDE DEF t, S, R, N
  <2>2. t.fault # "none" /\ t.rejected = s.rejected
    BY <1>3, <2>1
  <2>3. RightSoFar(c, t, k + 1)
    BY <2>2 DEF RightSoFar
  <2> QED BY <2>3 DEF t, m
<1>8. CASE s.fault = "none" /\ ~NoRoom(s)
  <2>1. /\ t.rejected = s.rejected /\ t.fault = s.fault
        /\ t.next_in = [s.next_in EXCEPT ![c] = s.next_in[c] + 1]
    BY <1>2, <1>6, <1>8, TakeOne
  <2> HIDE DEF t
  <2>2. [s.next_in EXCEPT ![c] = s.next_in[c] + 1] = [next_incoming_seq EXCEPT ![c] = k + 1]
    BY <1>4, <1>6, <1>8
  <2>3. RightSoFar(c, t, k + 1)
    BY <2>1, <2>2 DEF RightSoFar
  <2> QED BY <2>3 DEF t, m
<1> QED BY <1>5, <1>7, <1>8

\* The loop over the messages of such a client, when an earlier read has left nothing:
\* none is rejected.
LEMMA ReadAll ==
    ASSUME IInv, NEW c \in Clients, NEW q \in Nat, ReadSoFar(c, q), inbound[c] = <<>>,
           NEW n \in 1 .. Len(to_server[c])
    PROVE  /\ \A s \in FoldLeft(ReadRow, {Start(c)}, Rows(Buffer(c, n))) :
                RightSoFar(c, s, ((q + n) \div Parts) + 1)
           /\ Len(Shifted(Buffer(c, n))) = (q + n) % Parts
<1> DEFINE chunk == SubSeq(to_server[c], 1, n)
           cells == Buffer(c, n)
           rows == Rows(cells)
           base == {Start(c)}
           d == q \div Parts
           e == (q + n) \div Parts
           msgs == Right(c)
<1>0. Parts \in Nat \ {0} /\ n \in Nat /\ Typed
  BY StreamAssumption DEF IInv
<1>1. /\ chunk \in Seq(Received) /\ Len(chunk) = n
      /\ rows \in Seq(Buffered)
  BY <1>0, BufferTyped DEF Buffer
<1>2. B!Follow(chunk, msgs, q)
  <2>1. to_server[c] \in Seq(Received)
    BY <1>0 DEF Typed
  <2>2. n \in 0 .. Len(to_server[c])
    BY <2>1
  <2>3. B!Follow(to_server[c], msgs, q)
    BY DEF ReadSoFar
  <2> QED BY <2>1, <2>2, <2>3, StreamAssumption, B!TakeFollows
<1>3. cells = Filled(<<>>, chunk)
  BY DEF Buffer
<1> HIDE DEF chunk
<1>4. q % Parts = 0
  BY DEF ReadSoFar
<1>5. /\ d \in Nat /\ e \in Nat /\ d <= e
      /\ Len(rows) = e - d
      /\ \A i \in 1 .. e - d : Whole(rows[i]) /\ rows[i][1].msg = msgs[d + i]
      /\ Len(Shifted(cells)) = (q + n) % Parts
  <2>1. Len(chunk) \in Nat \ {0}
    BY <1>0, <1>1
  <2>2. /\ B!Filled(<<>>, chunk) = cells
        /\ B!Rows(cells) = Rows(cells) /\ B!Shifted(cells) = Shifted(cells)
        /\ \A row : B!Whole(row) = Whole(row)
    BY <1>3, SameStreams
  <2> HIDE DEF cells, msgs, rows
  <2>3. LET f == B!Filled(<<>>, chunk)
        IN  /\ q \div Parts \in Nat /\ Len(B!Rows(f)) \in Nat
            /\ \E S : B!Rows(f) \in Seq(S)
            /\ (q + Len(chunk)) \div Parts = (q \div Parts) + Len(B!Rows(f))
            /\ \A i \in 1 .. Len(B!Rows(f)) :
                 /\ B!Whole(B!Rows(f)[i])
                 /\ B!Rows(f)[i][1].msg = msgs[(q \div Parts) + i]
            /\ Len(B!Shifted(f)) = (q + Len(chunk)) % Parts
    BY <1>2, <1>4, <2>1, StreamAssumption, B!ReadWhole, ZenonT(60)
  <2> DEFINE x == Len(rows)
  <2>4. /\ d \in Nat /\ x \in Nat /\ e = d + x
        /\ \A i \in 1 .. x : Whole(rows[i]) /\ rows[i][1].msg = msgs[d + i]
        /\ Len(Shifted(cells)) = (q + n) % Parts
    BY <1>1, <2>2, <2>3 DEF rows
  <2> HIDE DEF d, e, x
  <2>5. e - d = x /\ e \in Nat /\ d <= e
    BY <2>4
  <2> QED BY <2>4, <2>5 DEF x
<1> HIDE DEF cells, e, rows
<1>6. PICK h : /\ h[0] = base
               /\ \A i \in 1 .. e - d : h[i] = ReadRow(h[i - 1], rows[i])
               /\ FoldLeft(ReadRow, base, rows) = h[e - d]
  <2>1. Len(rows) = e - d /\ rows \in Seq(Buffered)
    BY <1>1, <1>5
  <2> HIDE DEF base
  <2>2. \E h : /\ h[0] = base
               /\ \A i \in 1 .. Len(rows) : h[i] = ReadRow(h[i - 1], rows[i])
               /\ FoldLeft(ReadRow, base, rows) = h[Len(rows)]
    BY <2>1, ReadSteps
  <2> QED BY <2>1, <2>2
<1> DEFINE Good(i) == \A s \in h[i] : s \in LoopStates(c) /\ RightSoFar(c, s, d + i + 1)
<1>7. Good(0)
  <2> DEFINE s == Start(c)
  <2>1. d + 0 + 1 = d + 1
    BY <1>5
  <2>2. next_incoming_seq[c] = d + 1 /\ next_incoming_seq \in [Clients -> Nat \ {0}]
    BY <1>0 DEF ReadSoFar, Typed
  <2>3. [next_incoming_seq EXCEPT ![c] = d + 1] = next_incoming_seq
    BY <2>2
  <2>4. s.rejected = rejected /\ s.next_in = next_incoming_seq
    BY DEF Start
  <2>5. RightSoFar(c, s, d + 1)
    BY <2>3, <2>4 DEF RightSoFar
  <2>6. s \in LoopStates(c)
    BY StartState
  <2> HIDE DEF s, d
  <2>7. \A x \in {s} : x \in LoopStates(c) /\ RightSoFar(c, x, d + 0 + 1)
    BY <2>1, <2>5, <2>6
  <2> QED BY <1>6, <2>7 DEF s
<1> HIDE DEF d
<1>8. ASSUME NEW i \in 1 .. e - d, Good(i - 1) PROVE Good(i)
  <2> DEFINE k == d + i
  <2>1. k \in Nat \ {0} /\ d + (i - 1) + 1 = k /\ d + i + 1 = k + 1
    BY <1>5
  <2>2. \A x \in h[i] : \E s \in h[i - 1] : x = ReadRequest(s, msgs[k])
    <3>1. h[i] = ReadRow(h[i - 1], rows[i])
      BY <1>6
    <3>2. Whole(rows[i]) /\ rows[i][1].msg = msgs[k]
      BY <1>5
    <3> HIDE DEF msgs, k
    <3>3. \A s : Readings(s, rows[i]) = {msgs[k]}
      BY <3>2 DEF Readings
    <3> SUFFICES ASSUME NEW x \in h[i]
                 PROVE  \E s \in h[i - 1] : x = ReadRequest(s, msgs[k])
      OBVIOUS
    <3>4. PICK s \in h[i - 1] : x \in {ReadRequest(s, m) : m \in Readings(s, rows[i])}
      BY <3>1 DEF ReadRow
    <3>5. PICK m \in Readings(s, rows[i]) : x = ReadRequest(s, m)
      BY <3>4
    <3>6. m = msgs[k]
      BY <3>3
    <3> QED BY <3>5, <3>6
  <2>3. ASSUME NEW s \in h[i - 1]
        PROVE  /\ ReadRequest(s, msgs[k]) \in LoopStates(c)
               /\ RightSoFar(c, ReadRequest(s, msgs[k]), k + 1)
    <3>1. s \in LoopStates(c) /\ RightSoFar(c, s, k)
      BY <1>8, <2>1
    <3>2. msgs[k] \in Deserialised
      BY <2>1 DEF Right, Deserialised
    <3> HIDE DEF k, msgs
    <3>3. ReadRequest(s, msgs[k]) \in LoopStates(c)
      BY <1>0, <3>1, <3>2, ReadOne
    <3>4. RightSoFar(c, ReadRequest(s, msgs[k]), k + 1)
      BY <1>0, <2>1, <3>1, ReadRight DEF msgs
    <3> QED BY <3>3, <3>4
  <2> HIDE DEF k, msgs
  <2>4. \A x \in h[i] : x \in LoopStates(c) /\ RightSoFar(c, x, k + 1)
    BY <2>2, <2>3
  <2> QED BY <2>1, <2>4
<1> HIDE DEF Good
<1>9. Good(e - d)
  <2> DEFINE T == {i \in 0 .. e - d : ~Good(i)}
  <2> SUFFICES T = {}
    BY <1>5
  <2> SUFFICES ASSUME T # {} PROVE FALSE
    OBVIOUS
  <2>1. PICK i \in T : \A j \in T : i <= j
    <3>1. T \subseteq Nat
      BY <1>5
    <3> HIDE DEF T
    <3> QED BY <3>1, LeastElement
  <2>2. i # 0
    BY <1>7, <2>1
  <2>3. i \in 1 .. e - d /\ i - 1 \in 0 .. e - d /\ ~(i <= i - 1)
    BY <1>5, <2>1, <2>2
  <2>4. Good(i - 1)
    BY <2>1, <2>3
  <2>5. Good(i)
    BY <1>8, <2>3, <2>4
  <2> QED BY <2>1, <2>5
<1>10. \A s \in h[e - d] : RightSoFar(c, s, e + 1)
  <2>1. d + (e - d) + 1 = e + 1
    BY <1>5
  <2> QED BY <1>9, <2>1 DEF Good
<1> QED BY <1>5, <1>6, <1>10 DEF cells, e, rows

-----------------------------------------------------------------------------
\* Sorting.

\* std::sort returns every pending request, once.
LEMMA SortedRequests ==
    ASSUME NEW reqs \in Seq(Pending), NEW q \in Sortings(reqs)
    PROVE  /\ q \in Seq(Pending)
           /\ \A i, j \in DOMAIN q : q[i] = q[j] => i = j
           /\ \A i \in DOMAIN q : \E k \in DOMAIN reqs : q[i] = reqs[k]
           /\ \A k \in DOMAIN reqs : \E i \in DOMAIN q : q[i] = reqs[k]
<1> DEFINE R == Range(reqs)
           n == Cardinality(R)
           D == 1 .. n
<1>1. q \in [D -> R] /\ \A i, j \in D : i # j => q[i] # q[j]
  BY DEF Sortings, SetToSeqs
<1>2. IsFiniteSet(R)
  <2>1. reqs \in Surjection(DOMAIN reqs, R)
    <3>1. reqs \in [DOMAIN reqs -> R]
      BY DEF Range
    <3> QED BY <3>1 DEF Surjection, Range
  <2>2. IsFiniteSet(DOMAIN reqs)
    <3>1. Len(reqs) \in Nat /\ DOMAIN reqs = 1 .. Len(reqs)
      OBVIOUS
    <3> QED BY <3>1, FS_Interval
  <2> QED BY <2>1, <2>2, FS_Surjection
<1>3. n \in Nat /\ IsFiniteSet(D) /\ Cardinality(D) = n
  <2>1. n \in Nat
    BY <1>2, FS_CardinalityType
  <2> HIDE DEF n
  <2> QED BY <2>1, FS_Interval
<1>4. R \subseteq Pending /\ \A x \in R : \E k \in DOMAIN reqs : x = reqs[k]
  BY DEF Range
<1>5. q \in Injection(D, R)
  BY <1>1 DEF Injection, IsInjective
<1> HIDE DEF R, n
<1>6. q \in Surjection(D, R)
  BY <1>2, <1>3, <1>5, FS_Injection DEF n
<1>7. q \in Seq(Pending) /\ DOMAIN q = D
  BY <1>1, <1>3, <1>4
<1>8. \A k \in DOMAIN reqs : reqs[k] \in R
  BY DEF R, Range
<1> QED BY <1>1, <1>4, <1>6, <1>7, <1>8 DEF Surjection

\* What the engine has when the batch q has been published.
Batch(q) == [i \in DOMAIN q |-> [req |-> q[i], batch |-> Len(q)]]

\* It has its old requests, then those of q.
LEMMA BatchPublished ==
    ASSUME NEW engine \in Seq(Published), NEW q \in Seq(Pending)
    PROVE  LET all == engine \o Batch(q)
               l == Len(engine)
           IN  /\ l \in Nat /\ Len(q) \in Nat
               /\ all \in Seq(Published) /\ DOMAIN all = 1 .. l + Len(q)
               /\ \A k \in 1 .. l : all[k] = engine[k]
               /\ \A i \in 1 .. Len(q) :
                    /\ l + i \in DOMAIN all
                    /\ all[l + i].req = q[i] /\ all[l + i].batch = Len(q)
               /\ \A k \in DOMAIN all : k \in 1 .. l \/ \E i \in 1 .. Len(q) : k = l + i
<1> DEFINE b == Batch(q)
           all == engine \o b
           l == Len(engine)
           m == Len(q)
<1>1. l \in Nat /\ m \in Nat /\ DOMAIN q = 1 .. m
  OBVIOUS
<1>2. b = [i \in 1 .. m |-> b[i]] /\ \A i \in 1 .. m : b[i] = [req |-> q[i], batch |-> m]
  BY <1>1 DEF Batch
<1>3. \A i \in 1 .. m : q[i] \in Pending
  OBVIOUS
<1> HIDE DEF b, l, m
<1>4. \A i \in 1 .. m : b[i] \in Published /\ b[i].req = q[i] /\ b[i].batch = m
  BY <1>1, <1>2, <1>3 DEF Published
<1>5. b \in Seq(Published) /\ Len(b) = m
  <2>1. b \in Seq({b[i] : i \in 1 .. m}) /\ Len(b) = m
    BY <1>1, <1>2, FunctionIsSeq
  <2>2. \A i \in 1 .. Len(b) : b[i] \in Published
    BY <1>4, <2>1
  <2> QED BY <2>1, <2>2
<1>6. /\ all \in Seq(Published) /\ Len(all) = l + m
      /\ \A k \in 1 .. l + m : all[k] = IF k <= l THEN engine[k] ELSE b[k - l]
  <2>1. /\ engine \o b \in Seq(Published) /\ Len(engine \o b) = Len(engine) + Len(b)
        /\ \A k \in 1 .. Len(engine) + Len(b) :
             (engine \o b)[k] = IF k <= Len(engine) THEN engine[k] ELSE b[k - Len(engine)]
    BY <1>5, ConcatProperties
  <2> QED BY <1>5, <2>1 DEF l
<1> HIDE DEF all
<1>7. DOMAIN all = 1 .. l + m
  BY <1>1, <1>6
<1>8. \A k \in 1 .. l : all[k] = engine[k]
  BY <1>1, <1>6
<1>9. ASSUME NEW i \in 1 .. m PROVE l + i \in DOMAIN all /\ all[l + i] = b[i]
  <2>1. l + i \in 1 .. l + m /\ ~(l + i <= l) /\ (l + i) - l = i
    BY <1>1
  <2> QED BY <1>6, <1>7, <2>1
<1>10. ASSUME NEW k \in DOMAIN all PROVE k \in 1 .. l \/ \E i \in 1 .. m : k = l + i
  <2>1. k \in 1 .. l \/ (k - l \in 1 .. m /\ k = l + (k - l))
    BY <1>1, <1>7
  <2> QED BY <2>1
<1> QED BY <1>1, <1>4, <1>6, <1>7, <1>8, <1>9, <1>10 DEF all, b, l, m

\* The numbers the engine has behind a batch.
LEMMA HoldsBatch ==
    ASSUME NEW engine \in Seq(Published), NEW reqs \in Seq(Pending), NEW q \in Sortings(reqs),
           NEW c \in Clients, NEW n \in Nat, NEW b \in Nat, n <= b,
           Holds(Taken(engine), c, 1, n), Holds(reqs, c, n + 1, b),
           NEW all, all = engine \o Batch(q)
    PROVE  Holds(Taken(all), c, 1, b)
<1> DEFINE l == Len(engine)
           m == Len(q)
           t == Taken(all)
           u == Taken(engine)
<1>1. /\ q \in Seq(Pending)
      /\ \A i, j \in DOMAIN q : q[i] = q[j] => i = j
      /\ \A i \in DOMAIN q : \E k \in DOMAIN reqs : q[i] = reqs[k]
      /\ \A k \in DOMAIN reqs : \E i \in DOMAIN q : q[i] = reqs[k]
  BY SortedRequests
<1>2. /\ l \in Nat /\ m \in Nat
      /\ all \in Seq(Published) /\ DOMAIN all = 1 .. l + m
      /\ \A k \in 1 .. l : all[k] = engine[k]
      /\ \A i \in 1 .. m : l + i \in DOMAIN all /\ all[l + i].req = q[i]
      /\ \A k \in DOMAIN all : k \in 1 .. l \/ \E i \in 1 .. m : k = l + i
  BY <1>1, BatchPublished
<1>3. DOMAIN q = 1 .. m /\ DOMAIN engine = 1 .. l
  BY <1>1
<1> HIDE DEF l, m
<1>4. /\ DOMAIN t = DOMAIN all /\ DOMAIN u = 1 .. l
      /\ \A k \in 1 .. l : k \in DOMAIN t /\ t[k] = u[k]
      /\ \A i \in 1 .. m : l + i \in DOMAIN t /\ t[l + i] = q[i]
      /\ \A k \in DOMAIN t : k \in 1 .. l \/ \E i \in 1 .. m : k = l + i
  <2>1. \A k \in 1 .. l : k \in DOMAIN all
    BY <1>2
  <2> QED BY <1>2, <1>3, <2>1 DEF Taken
<1> HIDE DEF t, u
<1>5. \A k \in 1 .. l : t[k].client = c => t[k].from = c /\ t[k].seq \in 1 .. n
  BY <1>4 DEF Holds, u
<1>6. \A i \in 1 .. m : q[i].client = c => q[i].from = c /\ q[i].seq \in n + 1 .. b
  <2>1. \A k \in DOMAIN reqs : reqs[k].client = c =>
          reqs[k].from = c /\ reqs[k].seq \in n + 1 .. b
    BY DEF Holds
  <2>2. ASSUME NEW i \in 1 .. m, q[i].client = c
        PROVE  q[i].from = c /\ q[i].seq \in n + 1 .. b
    <3>1. PICK k \in DOMAIN reqs : q[i] = reqs[k]
      BY <1>1, <1>3
    <3>2. reqs[k].client = c
      BY <2>2, <3>1
    <3>3. reqs[k].from = c /\ reqs[k].seq \in n + 1 .. b
      BY <2>1, <3>2
    <3> QED BY <3>1, <3>3
  <2> QED BY <2>2
<1>7. ASSUME NEW k \in DOMAIN t, t[k].client = c PROVE t[k].from = c /\ t[k].seq \in 1 .. b
  <2>1. CASE k \in 1 .. l
    BY <1>5, <1>7, <2>1
  <2>2. ASSUME NEW i \in 1 .. m, k = l + i PROVE t[k].from = c /\ t[k].seq \in 1 .. b
    <3>1. t[k] = q[i]
      BY <1>4, <2>2
    <3>2. q[i].from = c /\ q[i].seq \in n + 1 .. b
      BY <1>6, <1>7, <3>1
    <3> QED BY <3>1, <3>2
  <2> QED BY <1>4, <2>1, <2>2
<1>8. ASSUME NEW v \in 1 .. b PROVE \E k \in DOMAIN t : t[k].client = c /\ t[k].seq = v
  <2>1. CASE v <= n
    <3>1. v \in 1 .. n
      BY <2>1
    <3>2. PICK k \in 1 .. l : u[k].client = c /\ u[k].seq = v
      BY <1>4, <3>1 DEF Holds, u
    <3> QED BY <1>4, <3>2
  <2>2. CASE ~(v <= n)
    <3>1. v \in n + 1 .. b
      BY <2>2
    <3>2. PICK k \in DOMAIN reqs : reqs[k].client = c /\ reqs[k].seq = v
      BY <3>1 DEF Holds
    <3>3. PICK i \in 1 .. m : q[i] = reqs[k]
      BY <1>1, <1>3
    <3> QED BY <1>4, <3>2, <3>3
  <2> QED BY <2>1, <2>2
<1>9. ASSUME NEW j \in DOMAIN t, NEW k \in DOMAIN t, t[j].client = c, t[k].client = c,
             t[j].seq = t[k].seq
      PROVE  j = k
  <2>1. CASE j \in 1 .. l /\ k \in 1 .. l
    BY <1>4, <1>9, <2>1 DEF Holds, u
  <2>2. ASSUME NEW x \in 1 .. l, NEW i \in 1 .. m, t[x].client = c, t[l + i].client = c
        PROVE  t[x].seq # t[l + i].seq
    <3>1. t[x].seq \in 1 .. n /\ t[l + i].seq \in n + 1 .. b
      BY <1>4, <1>5, <1>6, <2>2
    <3> QED BY <3>1
  <2>3. ASSUME NEW i \in 1 .. m, NEW x \in 1 .. m, j = l + i, k = l + x PROVE j = k
    <3>1. t[j] = q[i] /\ t[k] = q[x]
      BY <1>4, <2>3
    <3>2. PICK y \in DOMAIN reqs : q[i] = reqs[y]
      BY <1>1, <1>3
    <3>3. PICK z \in DOMAIN reqs : q[x] = reqs[z]
      BY <1>1, <1>3
    <3>4. y = z
      BY <1>9, <3>1, <3>2, <3>3 DEF Holds
    <3>5. i = x
      BY <1>1, <1>3, <3>2, <3>3, <3>4
    <3> QED BY <2>3, <3>5
  <2> QED BY <1>4, <1>9, <2>1, <2>2, <2>3
<1> QED BY <1>7, <1>8, <1>9 DEF Holds, t

\* FirstComeFirstServed, of any published requests.
Served(engine) ==
    \A i, j \in DOMAIN engine :
      i < j => \/ engine[i].req.arrival < engine[j].req.arrival
               \/ /\ engine[i].req.time = engine[j].req.time
                  /\ engine[i].batch = engine[j].batch /\ engine[i].batch > StableUpTo

\* Publishing the pending requests keeps the order of arrival.
LEMMA OrderedBatch ==
    ASSUME NEW engine \in Seq(Published), NEW reqs \in Seq(Pending), NEW q \in Sortings(reqs),
           NEW count \in Nat, NEW now, Lined(engine, reqs, count, now),
           NEW all, all = engine \o Batch(q), Served(engine)
    PROVE  Lined(all, <<>>, count, now) /\ Served(all)
<1> DEFINE l == Len(engine)
           m == Len(q)
<1>1. /\ q \in Seq(Pending)
      /\ \A i \in DOMAIN q : \E k \in DOMAIN reqs : q[i] = reqs[k]
  BY SortedRequests
<1>2. /\ l \in Nat /\ m \in Nat
      /\ DOMAIN all = 1 .. l + m
      /\ \A k \in 1 .. l : all[k] = engine[k]
      /\ \A i \in 1 .. m : /\ l + i \in DOMAIN all
                           /\ all[l + i].req = q[i] /\ all[l + i].batch = m
      /\ \A k \in DOMAIN all : k \in 1 .. l \/ \E i \in 1 .. m : k = l + i
  BY <1>1, BatchPublished
<1>3. DOMAIN q = 1 .. m /\ DOMAIN engine = 1 .. l
  BY <1>1
<1>4. \A i, j \in DOMAIN q : i < j =>
        \/ q[i].time < q[j].time
        \/ /\ q[i].time = q[j].time
           /\ m > StableUpTo \/ q[i].arrival < q[j].arrival
  BY DEF Sortings
<1> HIDE DEF l, m
<1>5. \A i \in 1 .. m : q[i].arrival <= count
  BY <1>1, <1>3 DEF Lined
<1>6. Lined(all, <<>>, count, now)
  <2>1. ASSUME NEW k \in DOMAIN all PROVE all[k].req.arrival <= count
    <3>1. CASE k \in 1 .. l
      BY <1>2, <1>3, <3>1 DEF Lined
    <3>2. ASSUME NEW i \in 1 .. m, k = l + i PROVE all[k].req.arrival <= count
      BY <1>2, <1>5, <3>2
    <3> QED BY <1>2, <3>1, <3>2
  <2> QED BY <2>1 DEF Lined
<1>7. ASSUME NEW i \in 1 .. m, NEW j \in 1 .. m, i < j, ~(q[i].arrival < q[j].arrival)
      PROVE  q[i].time = q[j].time /\ m > StableUpTo
  <2>1. PICK x \in DOMAIN reqs : q[i] = reqs[x]
    BY <1>1, <1>3
  <2>2. PICK y \in DOMAIN reqs : q[j] = reqs[y]
    BY <1>1, <1>3
  <2>3. reqs[x].time \in Nat /\ reqs[y].time \in Nat /\ x \in Nat /\ y \in Nat
    <3>1. reqs[x] \in Pending /\ reqs[y] \in Pending /\ x \in Nat /\ y \in Nat
      OBVIOUS
    <3> QED BY <3>1 DEF Pending
  <2>4. ~(q[i].time < q[j].time)
    <3> SUFFICES ASSUME reqs[x].time < reqs[y].time PROVE FALSE
      BY <2>1, <2>2
    <3>1. ~(x < y)
      BY <1>7, <2>1, <2>2 DEF Lined
    <3>2. y < x \/ y = x
      BY <2>3, <3>1
    <3>3. reqs[y].time <= reqs[x].time
      BY <2>3, <3>2 DEF Lined
    <3> QED BY <2>3, <3>3
  <2> QED BY <1>3, <1>4, <1>7, <2>4
<1>8. ASSUME NEW j \in DOMAIN all, NEW k \in DOMAIN all, j < k,
             ~(all[j].req.arrival < all[k].req.arrival)
      PROVE  all[j].req.time = all[k].req.time /\ all[j].batch = all[k].batch
             /\ all[j].batch > StableUpTo
  <2>1. CASE j \in 1 .. l /\ k \in 1 .. l
    BY <1>2, <1>3, <1>8, <2>1 DEF Served
  <2>2. ASSUME NEW i \in 1 .. m, k = l + i PROVE ~(j \in 1 .. l)
    <3> SUFFICES ASSUME j \in 1 .. l PROVE FALSE
      OBVIOUS
    <3>1. PICK x \in DOMAIN reqs : q[i] = reqs[x]
      BY <1>1, <1>3
    <3>2. engine[j].req.arrival < reqs[x].arrival
      BY <1>3 DEF Lined
    <3> QED BY <1>2, <1>8, <2>2, <3>1, <3>2
  <2>3. ASSUME NEW i \in 1 .. m, j = l + i PROVE ~(k \in 1 .. l)
    BY <1>2, <1>8, <2>3
  <2>4. ASSUME NEW i \in 1 .. m, NEW x \in 1 .. m, j = l + i, k = l + x
        PROVE  all[j].req.time = all[k].req.time /\ all[j].batch = all[k].batch
               /\ all[j].batch > StableUpTo
    <3>1. i < x
      BY <1>2, <1>8, <2>4
    <3>2. all[j].req = q[i] /\ all[k].req = q[x] /\ all[j].batch = m /\ all[k].batch = m
      BY <1>2, <2>4
    <3> QED BY <1>7, <1>8, <3>1, <3>2
  <2> QED BY <1>2, <2>1, <2>2, <2>3, <2>4
<1>9. Served(all)
  <2> SUFFICES ASSUME NEW j \in DOMAIN all, NEW k \in DOMAIN all, j < k
               PROVE  \/ all[j].req.arrival < all[k].req.arrival
                      \/ /\ all[j].req.time = all[k].req.time
                         /\ all[j].batch = all[k].batch /\ all[j].batch > StableUpTo
    BY DEF Served
  <2> QED BY <1>8
<1> QED BY <1>6, <1>9

-----------------------------------------------------------------------------
\* The invariant.

\* The invariant holds at first: nothing has been sent.
LEMMA InitInv == Init => IInv
<1> SUFFICES ASSUME Init PROVE IInv
  OBVIOUS
<1>0. Parts \in Nat \ {0}
  BY StreamAssumption
<1>1. Typed
  <2>1. Clients \subseteq Nat /\ 0 \in 0 .. MaxNumClients
    BY RequestsAssumption DEF Clients
  <2>2. inbound \in [Clients -> Seq(Received)] /\ to_server \in [Clients -> Seq(Received)]
    BY DEF Init
  <2>3. \A c \in Clients : Len(inbound[c]) < Parts
    BY <1>0 DEF Init
  <2>4. pending \in Seq(Pending) /\ Len(pending) <= MaxPendingRequests
    BY RequestsAssumption DEF Init
  <2>5. /\ rejected \subseteq Rejections /\ to_engine \in Seq(Published)
        /\ cut \subseteq Clients /\ wrong \subseteq Clients /\ fault \in Faults
    BY DEF Init, Faults
  <2> QED BY <2>1, <2>2, <2>3, <2>4, <2>5 DEF Init, Typed
<1>2. Numbered(to_engine, pending, next_incoming_seq)
  <2> SUFFICES ASSUME NEW c \in Clients
               PROVE  /\ 0 < next_incoming_seq[c] /\ Holds(Taken(to_engine), c, 1, 0)
                      /\ Holds(pending, c, 0 + 1, next_incoming_seq[c] - 1)
    BY DEF Numbered
  <2>1. next_incoming_seq[c] = 1 /\ DOMAIN pending = {} /\ DOMAIN Taken(to_engine) = {}
    BY DEF Init, Taken
  <2>2. 1 .. 0 = {} /\ 0 + 1 .. 1 - 1 = {}
    OBVIOUS
  <2> QED BY <2>1, <2>2 DEF Holds
<1>3. Lined(to_engine, pending, arrivals, clock)
  <2>1. DOMAIN pending = {} /\ DOMAIN to_engine = {}
    BY DEF Init
  <2> QED BY <2>1 DEF Lined
<1>4. FirstComeFirstServed
  BY DEF Init, FirstComeFirstServed
<1>5. InStep
  <2> SUFFICES ASSUME NEW c \in Clients PROVE ReadSoFar(c, 0)
    BY DEF InStep, Init
  <2>1. /\ to_server[c] = <<>> /\ inbound[c] = <<>> /\ next_out[c] = 1
        /\ next_incoming_seq[c] = 1
    BY DEF Init
  <2>2. Len(<<>>) = 0 /\ 0 % Parts = 0 /\ 0 \div Parts = 0 /\ Parts * (1 - 1) = 0
    BY <1>0
  <2>3. B!Follow(<<>>, Right(c), 0)
    BY DEF B!Follow
  <2> QED BY <2>1, <2>2, <2>3 DEF ReadSoFar
<1> QED BY <1>1, <1>2, <1>3, <1>4, <1>5 DEF IInv

\* A step that only changes other things leaves the server in step.
LEMMA InStepKept ==
    ASSUME InStep, Running' => Running,
           UNCHANGED <<inbound, next_incoming_seq, rejected, to_server, next_out, cut, wrong>>
    PROVE  InStep'
<1> SUFFICES ASSUME NEW c \in Clients, Clean(c)'
             PROVE  /\ \A r \in rejected : r.from # c
                    /\ Running' => \E q \in Nat : ReadSoFar(c, q)'
  BY DEF InStep
<1>1. Clean(c)
  BY DEF Clean
<1>2. ASSUME Running' PROVE \E q \in Nat : ReadSoFar(c, q)'
  <2>1. PICK q \in Nat : ReadSoFar(c, q)
    BY <1>1, <1>2 DEF InStep
  <2> QED BY <2>1 DEF ReadSoFar
<1> QED BY <1>1, <1>2 DEF InStep

\* A new connection.
LEMMA ConnectInv ==
    ASSUME IInv, Connect
    PROVE  IInv'
<1>1. /\ UNCHANGED <<inbound, next_incoming_seq, pending, clock, rejected, to_engine,
                     arrivals, cut, to_server, next_out, wrong, requests, troubles>>
      /\ \/ /\ next_client_id \in Clients
            /\ conns' = [conns EXCEPT ![next_client_id] = "open"]
            /\ next_client_id' = next_client_id + 1 /\ UNCHANGED fault
         \/ fault' = "too many clients" /\ UNCHANGED <<conns, next_client_id>>
      /\ Running
  BY DEF Connect, Fail
<1>2. Typed'
  <2>1. conns' \in [Clients -> {"none", "open", "closed"}] /\ next_client_id' \in 0 .. MaxNumClients
    <3>1. /\ conns \in [Clients -> {"none", "open", "closed"}]
          /\ next_client_id \in 0 .. MaxNumClients
      BY DEF IInv, Typed
    <3>2. CASE /\ next_client_id \in Clients
               /\ conns' = [conns EXCEPT ![next_client_id] = "open"]
               /\ next_client_id' = next_client_id + 1
      <4>1. conns' \in [Clients -> {"none", "open", "closed"}]
        BY <3>1, <3>2
      <4>2. next_client_id + 1 \in 0 .. MaxNumClients
        BY <3>1, <3>2, RequestsAssumption DEF Clients
      <4> QED BY <3>2, <4>1, <4>2
    <3>3. CASE UNCHANGED <<conns, next_client_id>>
      BY <3>1, <3>3
    <3> QED BY <1>1, <3>2, <3>3
  <2>2. fault' \in Faults
    BY <1>1 DEF IInv, Typed, Faults
  <2>3. Typed
    BY DEF IInv
  <2> QED BY <1>1, <2>1, <2>2, <2>3 DEF Typed
<1>3. InStep' /\ FirstComeFirstServed'
  <2>1. InStep /\ FirstComeFirstServed
    BY DEF IInv
  <2>2. InStep'
    BY <1>1, <2>1, InStepKept
  <2> QED BY <1>1, <2>1, <2>2 DEF FirstComeFirstServed
<1>4. UNCHANGED <<next_incoming_seq, pending, clock, to_engine, arrivals>>
  BY <1>1
<1>5. Numbered(to_engine, pending, next_incoming_seq)' /\ Lined(to_engine, pending, arrivals, clock)'
  BY <1>4 DEF IInv
<1> QED BY <1>2, <1>3, <1>5 DEF IInv

\* A connection that ends.
LEMMA CloseInv ==
    ASSUME IInv, NEW c \in Clients, OnClose(c)
    PROVE  IInv'
<1>1. /\ UNCHANGED <<next_client_id, inbound, next_incoming_seq, pending, clock,
                     rejected, to_engine, arrivals, cut, to_server, next_out, wrong,
                     requests, fault>>
      /\ conns' = [conns EXCEPT ![c] = "closed"] /\ troubles' = troubles + 1
  BY DEF OnClose
<1>2. Typed'
  <2>1. conns \in [Clients -> {"none", "open", "closed"}] /\ troubles \in Nat
    BY DEF IInv, Typed
  <2>2. conns' \in [Clients -> {"none", "open", "closed"}]
    BY <1>1, <2>1
  <2>3. troubles' \in Nat
    BY <1>1, <2>1
  <2>4. Typed
    BY DEF IInv
  <2> QED BY <1>1, <2>2, <2>3, <2>4 DEF Typed
<1>3. InStep' /\ FirstComeFirstServed'
  <2>1. InStep /\ FirstComeFirstServed /\ (Running' => Running)
    BY <1>1 DEF IInv, Running
  <2>2. InStep'
    BY <1>1, <2>1, InStepKept
  <2> QED BY <1>1, <2>1, <2>2 DEF FirstComeFirstServed
<1> QED BY <1>1, <1>2, <1>3 DEF IInv

\* The clock.
LEMMA TickInv ==
    ASSUME IInv, Tick
    PROVE  IInv'
<1>1. /\ UNCHANGED <<conns, next_client_id, inbound, next_incoming_seq, pending, rejected,
                     to_engine, arrivals, cut, to_server, next_out, wrong, requests,
                     troubles, fault>>
      /\ clock' = clock + 1
  BY DEF Tick
<1>2. Typed'
  <2>1. clock \in Nat
    BY DEF IInv, Typed
  <2>2. clock' \in Nat
    BY <1>1, <2>1
  <2>3. Typed
    BY DEF IInv
  <2> QED BY <1>1, <2>2, <2>3 DEF Typed
<1>3. Lined(to_engine, pending, arrivals, clock + 1)
  <2>1. Lined(to_engine, pending, arrivals, clock) /\ clock \in Nat /\ pending \in Seq(Pending)
    BY DEF IInv, Typed
  <2>2. \A i \in DOMAIN pending : pending[i].time \in Nat
    <3>1. \A i \in DOMAIN pending : pending[i] \in Pending
      BY <2>1
    <3> QED BY <3>1 DEF Pending
  <2>3. \A i \in DOMAIN pending : pending[i].time <= clock + 1
    BY <2>1, <2>2 DEF Lined
  <2> QED BY <2>1, <2>3 DEF Lined
<1>4. InStep' /\ FirstComeFirstServed'
  <2>1. InStep /\ FirstComeFirstServed /\ (Running' => Running)
    BY <1>1 DEF IInv, Running
  <2>2. InStep'
    BY <1>1, <2>1, InStepKept
  <2> QED BY <1>1, <2>1, <2>2 DEF FirstComeFirstServed
<1> QED BY <1>1, <1>2, <1>3, <1>4 DEF IInv

\* The sequencer publishes what is pending.
LEMMA CheckInv ==
    ASSUME IInv, OnCheck
    PROVE  IInv'
<1>1. PICK q \in Sortings(pending) : to_engine' = to_engine \o Batch(q)
  BY DEF OnCheck, Batch
<1>2. /\ pending' = <<>>
      /\ UNCHANGED <<conns, next_client_id, inbound, next_incoming_seq, clock, rejected,
                     arrivals, cut, to_server, next_out, wrong, requests, troubles, fault>>
  BY DEF OnCheck
<1>3. /\ to_engine \in Seq(Published) /\ pending \in Seq(Pending) /\ arrivals \in Nat
      /\ next_incoming_seq \in [Clients -> Nat \ {0}]
  BY DEF IInv, Typed
<1>4. to_engine' \in Seq(Published)
  <2>1. q \in Seq(Pending)
    BY <1>3, SortedRequests
  <2>2. to_engine \o Batch(q) \in Seq(Published)
    BY <1>3, <2>1, BatchPublished
  <2> QED BY <1>1, <2>2
<1>5. Typed'
  <2>1. <<>> \in Seq(Pending) /\ Len(<<>>) <= MaxPendingRequests
    BY RequestsAssumption
  <2> QED BY <1>2, <1>4, <2>1 DEF IInv, Typed
<1>6. Numbered(to_engine, pending, next_incoming_seq)'
  <2> SUFFICES ASSUME NEW c \in Clients
               PROVE  \E n \in Nat : /\ n < next_incoming_seq[c]
                                     /\ Holds(Taken(to_engine'), c, 1, n)
                                     /\ Holds(<<>>, c, n + 1, next_incoming_seq[c] - 1)
    BY <1>2 DEF Numbered
  <2> DEFINE b == next_incoming_seq[c] - 1
  <2>1. b \in Nat /\ b < next_incoming_seq[c] /\ next_incoming_seq[c] - 1 = b
    BY <1>3
  <2>2. PICK n \in Nat : /\ n < next_incoming_seq[c]
                         /\ Holds(Taken(to_engine), c, 1, n)
                         /\ Holds(pending, c, n + 1, next_incoming_seq[c] - 1)
    BY DEF IInv, Numbered
  <2>3. n <= b
    BY <1>3, <2>2
  <2> HIDE DEF b
  <2>4. Holds(Taken(to_engine'), c, 1, b)
    BY <1>1, <1>3, <2>1, <2>2, <2>3, HoldsBatch
  <2>5. Holds(<<>>, c, b + 1, b)
    <3>1. b + 1 .. b = {} /\ DOMAIN <<>> = {}
      BY <2>1
    <3> QED BY <3>1 DEF Holds
  <2> QED BY <2>1, <2>4, <2>5
<1>7. Lined(to_engine', <<>>, arrivals, clock) /\ FirstComeFirstServed'
  <2> DEFINE all == to_engine'
  <2>1. all = to_engine \o Batch(q)
    BY <1>1
  <2>2. Served(to_engine)
    BY DEF IInv, FirstComeFirstServed, Served
  <2>3. Lined(to_engine, pending, arrivals, clock)
    BY DEF IInv
  <2> HIDE DEF all
  <2>4. Lined(all, <<>>, arrivals, clock) /\ Served(all)
    BY <1>3, <2>1, <2>2, <2>3, OrderedBatch
  <2> QED BY <2>4 DEF all, FirstComeFirstServed, Served
<1>8. InStep'
  <2>1. InStep /\ (Running' => Running)
    BY <1>2 DEF IInv, Running
  <2> QED BY <1>2, <2>1, InStepKept
<1> QED BY <1>2, <1>5, <1>6, <1>7, <1>8 DEF IInv

\* A read from a connection.
LEMMA ReadInv ==
    ASSUME IInv, NEW c \in Clients, NEW n \in 1 .. Len(to_server[c]), OnRead(c, n)
    PROVE  IInv'
<1> DEFINE cells == Buffer(c, n)
           ends == FoldLeft(ReadRow, {Start(c)}, Rows(cells))
           rest == SubSeq(to_server[c], n + 1, Len(to_server[c]))
<1>0. Typed
  BY DEF IInv
<1>1. /\ Running
      /\ to_server' = [to_server EXCEPT ![c] = rest]
      /\ inbound' = [inbound EXCEPT ![c] = Shifted(cells)]
      /\ cut' = IF inbound[c] = <<>> THEN cut ELSE cut \cup {c}
      /\ UNCHANGED <<conns, next_client_id, clock, to_engine, next_out, wrong, requests,
                     troubles>>
  BY DEF OnRead, Buffer
<1>2. PICK s \in ends : /\ rejected' = s.rejected /\ pending' = s.pending
                        /\ next_incoming_seq' = s.next_in /\ arrivals' = s.arrivals
                        /\ fault' = s.fault
  BY DEF OnRead, Buffer
<1>3. s \in LoopStates(c)
  BY ReadLoop
<1>4. /\ Shifted(cells) \in Seq(Received) /\ Len(Shifted(cells)) < Parts
      /\ rest \in Seq(Received)
  BY <1>0, BufferTyped DEF Buffer
<1> DEFINE S == Seq(Pending)
           R == SUBSET Rejections
           N == [Clients -> Nat \ {0}]
<1>5. /\ s \in [conn : {c}, now : {clock}, rejected : R, pending : S,
                next_in : N, arrivals : Nat, fault : Faults]
      /\ Len(s.pending) <= MaxPendingRequests
      /\ Numbered(to_engine, s.pending, s.next_in)
      /\ Lined(to_engine, s.pending, s.arrivals, s.now)
      /\ Apart(c, s)
  BY <1>3 DEF LoopStates, LoopRecords
<1> HIDE DEF cells, ends, rest, S, R, N
<1>6. /\ s.now = clock /\ s.rejected \in R /\ s.pending \in S
      /\ s.next_in \in N /\ s.arrivals \in Nat /\ s.fault \in Faults
  BY <1>5
<1>7. /\ to_server \in [Clients -> Seq(Received)] /\ inbound \in [Clients -> Seq(Received)]
      /\ next_incoming_seq \in [Clients -> Nat \ {0}] /\ to_server[c] \in Seq(Received)
  BY <1>0 DEF Typed
<1>8. Typed'
  <2>1. to_server' \in [Clients -> Seq(Received)]
    BY <1>1, <1>4, <1>7
  <2>2. inbound' \in [Clients -> Seq(Received)] /\ \A d \in Clients : Len(inbound'[d]) < Parts
    <3>1. \A d \in Clients : Len(inbound[d]) < Parts
      BY <1>0 DEF Typed
    <3> QED BY <1>1, <1>4, <1>7, <3>1
  <2>3. /\ pending' \in Seq(Pending) /\ Len(pending') <= MaxPendingRequests
        /\ rejected' \subseteq Rejections /\ next_incoming_seq' \in [Clients -> Nat \ {0}]
        /\ arrivals' \in Nat /\ fault' \in Faults
    BY <1>2, <1>5, <1>6 DEF S, R, N
  <2>4. cut' \subseteq Clients
    BY <1>0, <1>1 DEF Typed
  <2> QED BY <1>0, <1>1, <2>1, <2>2, <2>3, <2>4 DEF Typed
<1>9. Numbered(to_engine, pending, next_incoming_seq)' /\ Lined(to_engine, pending, arrivals, clock)'
  BY <1>1, <1>2, <1>5, <1>6
<1>10. FirstComeFirstServed'
  BY <1>1 DEF IInv, FirstComeFirstServed
<1>11. ASSUME NEW d \in Clients, Clean(d)'
       PROVE  Clean(d) /\ (d = c => inbound[c] = <<>>)
  BY <1>1, <1>11 DEF Clean
<1>12. ASSUME Clean(c)'
       PROVE  /\ s.rejected = rejected
              /\ Running' => \E q \in Nat : ReadSoFar(c, q)'
  <2>1. Clean(c) /\ inbound[c] = <<>>
    BY <1>11, <1>12
  <2>2. PICK q \in Nat : ReadSoFar(c, q)
    BY <1>1, <2>1 DEF IInv, InStep
  <2>3. /\ RightSoFar(c, s, ((q + n) \div Parts) + 1)
        /\ Len(Shifted(cells)) = (q + n) % Parts
    BY <2>1, <2>2, ReadAll DEF ends, cells
  <2>4. s.rejected = rejected
    BY <2>3 DEF RightSoFar
  <2>5. ASSUME Running' PROVE ReadSoFar(c, q + n)'
    <3>1. s.next_in = [next_incoming_seq EXCEPT ![c] = ((q + n) \div Parts) + 1]
      BY <1>2, <2>3, <2>5 DEF RightSoFar, Running
    <3>2. /\ to_server'[c] = rest /\ inbound'[c] = Shifted(cells) /\ next_out'[c] = next_out[c]
          /\ next_incoming_seq'[c] = ((q + n) \div Parts) + 1
      BY <1>1, <1>2, <1>7, <3>1
    <3>3. n \in 0 .. Len(to_server[c]) /\ n \in Nat
      BY <1>7
    <3>4. B!Follow(to_server[c], Right(c), q) /\ q + Len(to_server[c]) = Parts * (next_out[c] - 1)
      BY <2>2 DEF ReadSoFar
    <3>5. B!Follow(rest, Right(c), q + n) /\ Len(rest) = Len(to_server[c]) - n
      BY <1>7, <3>3, <3>4, StreamAssumption, B!TakeFollows DEF rest
    <3>6. (q + n) + Len(rest) = q + Len(to_server[c])
      <4> DEFINE l == Len(to_server[c])
      <4>1. l \in Nat /\ Len(rest) = l - n
        BY <1>7, <3>5
      <4> HIDE DEF l
      <4>2. (q + n) + Len(rest) = q + l
        BY <3>3, <4>1
      <4> QED BY <4>2 DEF l
    <3> QED BY <2>3, <3>2, <3>4, <3>5, <3>6 DEF ReadSoFar
  <2>6. q + n \in Nat
    BY <1>7
  <2> QED BY <2>4, <2>5, <2>6
<1>13. ASSUME NEW d \in Clients, d # c, Clean(d)', Running'
       PROVE  \E q \in Nat : ReadSoFar(d, q)'
  <2>1. PICK q \in Nat : ReadSoFar(d, q)
    BY <1>1, <1>11, <1>13 DEF IInv, InStep
  <2>2. /\ to_server'[d] = to_server[d] /\ inbound'[d] = inbound[d]
        /\ next_out'[d] = next_out[d]
    BY <1>1, <1>7, <1>13
  <2>3. next_incoming_seq'[d] = next_incoming_seq[d]
    BY <1>2, <1>5, <1>13 DEF Apart
  <2>4. ReadSoFar(d, q)'
    BY <2>1, <2>2, <2>3 DEF ReadSoFar
  <2> QED BY <2>4
<1>14. ASSUME NEW d \in Clients, Clean(d)', NEW r \in rejected' PROVE r.from # d
  <2>1. \A x \in rejected : x.from # d
    BY <1>11, <1>14 DEF IInv, InStep
  <2>2. r \in rejected \/ r.from = c
    BY <1>2, <1>5 DEF Apart
  <2>3. d = c => r \in rejected
    BY <1>2, <1>12, <1>14
  <2> QED BY <2>1, <2>2, <2>3
<1>15. InStep'
  <2> SUFFICES ASSUME NEW d \in Clients, Clean(d)'
               PROVE  /\ \A r \in rejected' : r.from # d
                      /\ Running' => \E q \in Nat : ReadSoFar(d, q)'
    BY DEF InStep
  <2> QED BY <1>12, <1>13, <1>14
<1> QED BY <1>8, <1>9, <1>10, <1>15 DEF IInv

\* The cells of a message.
LEMMA CellsTyped ==
    ASSUME NEW m \in Messages
    PROVE  Cells(m) \in Seq(Received)
<1> DEFINE f == Cells(m)
<1>0. Parts \in Nat \ {0}
  BY StreamAssumption
<1>1. f = [k \in 1 .. Parts |-> f[k]] /\ \A k \in 1 .. Parts : f[k] = [msg |-> m, part |-> k]
  BY DEF Cells
<1> HIDE DEF f
<1>2. \A k \in 1 .. Parts : f[k] \in Received
  BY <1>0, <1>1 DEF Received
<1>3. f \in Seq({f[k] : k \in 1 .. Parts}) /\ Len(f) = Parts
  BY <1>0, <1>1, FunctionIsSeq
<1>4. f \in Seq(Received)
  BY <1>2, <1>3
<1> QED BY <1>4 DEF f

\* A gateway sends its next request.
LEMMA SendRequestInv ==
    ASSUME IInv, NEW c \in Clients, SendRequest(c)
    PROVE  IInv'
<1> DEFINE m == [seq |-> next_out[c], client |-> c]
           all == to_server[c] \o Cells(m)
           a == next_out[c] - 1
<1>0. Typed
  BY DEF IInv
<1>1. /\ Running
      /\ to_server' = [to_server EXCEPT ![c] = all]
      /\ next_out' = [next_out EXCEPT ![c] = next_out[c] + 1]
      /\ requests' = requests + 1
      /\ UNCHANGED <<conns, next_client_id, inbound, next_incoming_seq, pending, clock,
                     rejected, to_engine, arrivals, cut, wrong, troubles, fault>>
  BY DEF SendRequest, serverVars
<1>2. /\ next_out \in [Clients -> Nat \ {0}] /\ to_server \in [Clients -> Seq(Received)]
      /\ requests \in Nat
  BY <1>0 DEF Typed
<1>3. m \in Messages
  BY <1>2 DEF Messages
<1>4. all \in Seq(Received)
  <2>1. Cells(m) \in Seq(Received) /\ to_server[c] \in Seq(Received)
    BY <1>2, <1>3, CellsTyped
  <2> HIDE DEF m
  <2> QED BY <2>1
<1>5. a \in Nat /\ a + 1 = next_out[c] /\ (next_out[c] + 1) - 1 = a + 1
  BY <1>2
<1>6. \A q \in Nat : ReadSoFar(c, q) => /\ B!Follow(all, Right(c), q)
                                       /\ q + Len(all) = Parts * (a + 1)
  <2> SUFFICES ASSUME NEW q \in Nat, ReadSoFar(c, q)
               PROVE  B!Follow(all, Right(c), q) /\ q + Len(all) = Parts * (a + 1)
    OBVIOUS
  <2>1. /\ B!Follow(to_server[c], Right(c), q) /\ q + Len(to_server[c]) = Parts * a
        /\ to_server[c] \in Seq(Received)
    BY <1>2 DEF ReadSoFar
  <2>2. Right(c)[a + 1] = m
    BY <1>5 DEF Right
  <2> HIDE DEF a, m
  <2>3. B!Grown(Right(c), Right(c), a, m)
    BY <2>2 DEF B!Grown
  <2>4. B!Cells(m) = Cells(m)
    BY SameStreams
  <2>5. /\ q + Len(to_server[c] \o B!Cells(m)) = Parts * (a + 1)
        /\ B!Follow(to_server[c] \o B!Cells(m), Right(c), q)
    BY <1>5, <2>1, <2>3, StreamAssumption, B!SendFollows, ZenonT(60)
  <2> QED BY <2>4, <2>5
<1> HIDE DEF all, m
<1>7. Typed'
  <2>1. /\ next_out' \in [Clients -> Nat \ {0}] /\ to_server' \in [Clients -> Seq(Received)]
        /\ requests' \in Nat
    BY <1>1, <1>2, <1>4
  <2> QED BY <1>0, <1>1, <2>1 DEF Typed
<1>8. InStep'
  <2> SUFFICES ASSUME NEW d \in Clients, Clean(d)'
               PROVE  /\ \A r \in rejected' : r.from # d
                      /\ \E q \in Nat : ReadSoFar(d, q)'
    BY DEF InStep
  <2>0. Clean(d) /\ \A r \in rejected' : r.from # d
    BY <1>1 DEF Clean, IInv, InStep
  <2>1. PICK q \in Nat : ReadSoFar(d, q)
    BY <1>1, <2>0 DEF IInv, InStep
  <2>2. CASE d = c
    <3>1. /\ to_server'[c] = all /\ next_out'[c] = next_out[c] + 1
          /\ inbound'[c] = inbound[c] /\ next_incoming_seq'[c] = next_incoming_seq[c]
      BY <1>1, <1>2
    <3>2. B!Follow(all, Right(c), q) /\ q + Len(all) = Parts * (a + 1)
      BY <1>6, <2>1, <2>2
    <3>3. q + Len(all) = Parts * ((next_out[c] + 1) - 1)
      BY <1>5, <3>2
    <3>4. ReadSoFar(c, q)'
      BY <2>1, <2>2, <3>1, <3>2, <3>3 DEF ReadSoFar
    <3> QED BY <2>0, <2>2, <3>4
  <2>3. CASE d # c
    <3>1. /\ to_server'[d] = to_server[d] /\ next_out'[d] = next_out[d]
          /\ inbound'[d] = inbound[d] /\ next_incoming_seq'[d] = next_incoming_seq[d]
      BY <1>1, <1>2, <2>3
    <3>2. ReadSoFar(d, q)'
      BY <2>1, <3>1 DEF ReadSoFar
    <3> QED BY <2>0, <3>2
  <2> QED BY <2>0, <2>2, <2>3
<1>9. FirstComeFirstServed'
  BY <1>1 DEF IInv, FirstComeFirstServed
<1> QED BY <1>1, <1>7, <1>8, <1>9 DEF IInv

\* A client sends something wrong.
LEMMA SendWrongInv ==
    ASSUME IInv, NEW c \in Clients, SendWrong(c)
    PROVE  IInv'
<1>0. Typed
  BY DEF IInv
<1>1. /\ next_out \in [Clients -> Nat \ {0}] /\ to_server \in [Clients -> Seq(Received)]
      /\ troubles \in Nat
  BY <1>0 DEF Typed
<1>2. PICK m \in [seq : {next_out[c] - 1, next_out[c] + 1}, client : {c}]
                   \cup {[seq |-> next_out[d], client |-> d] : d \in Clients \ {c}} :
        to_server' = [to_server EXCEPT ![c] = @ \o Cells(m)]
  BY DEF SendWrong
<1>3. /\ troubles' = troubles + 1 /\ wrong' = wrong \cup {c}
      /\ UNCHANGED <<conns, next_client_id, inbound, next_incoming_seq, pending, clock,
                     rejected, to_engine, arrivals, cut, next_out, requests, fault>>
  BY DEF SendWrong, serverVars
<1>4. m \in Messages
  <2>1. CASE m \in [seq : {next_out[c] - 1, next_out[c] + 1}, client : {c}]
    <3>1. next_out[c] - 1 \in Nat /\ next_out[c] + 1 \in Nat
      BY <1>1
    <3> QED BY <2>1, <3>1 DEF Messages
  <2>2. CASE m \in {[seq |-> next_out[d], client |-> d] : d \in Clients \ {c}}
    <3>1. PICK d \in Clients : m = [seq |-> next_out[d], client |-> d]
      BY <2>2
    <3>2. next_out[d] \in Nat
      BY <1>1
    <3> QED BY <3>1, <3>2 DEF Messages
  <2> QED BY <1>2, <2>1, <2>2
<1>5. to_server' \in [Clients -> Seq(Received)]
  <2>1. Cells(m) \in Seq(Received) /\ to_server[c] \in Seq(Received)
    BY <1>1, <1>4, CellsTyped
  <2>2. to_server[c] \o Cells(m) \in Seq(Received)
    BY <2>1
  <2> QED BY <1>1, <1>2, <2>2
<1>6. troubles' \in Nat
  BY <1>1, <1>3
<1>7. Typed'
  BY <1>0, <1>3, <1>5, <1>6 DEF Typed
<1>8. InStep'
  <2> SUFFICES ASSUME NEW d \in Clients, Clean(d)'
               PROVE  /\ \A r \in rejected' : r.from # d
                      /\ Running' => \E q \in Nat : ReadSoFar(d, q)'
    BY DEF InStep
  <2>1. Clean(d) /\ d # c
    BY <1>3 DEF Clean
  <2>2. \A r \in rejected' : r.from # d
    BY <1>3, <2>1 DEF IInv, InStep
  <2>3. ASSUME Running' PROVE \E q \in Nat : ReadSoFar(d, q)'
    <3>1. PICK q \in Nat : ReadSoFar(d, q)
      BY <1>3, <2>1, <2>3 DEF IInv, InStep, Running
    <3>2. to_server'[d] = to_server[d]
      BY <1>1, <1>2, <2>1
    <3>3. ReadSoFar(d, q)'
      BY <1>3, <3>1, <3>2 DEF ReadSoFar
    <3> QED BY <3>3
  <2> QED BY <2>2, <2>3
<1>9. FirstComeFirstServed'
  BY <1>3 DEF IInv, FirstComeFirstServed
<1> QED BY <1>3, <1>7, <1>8, <1>9 DEF IInv

\* Every step keeps the invariant.
LEMMA NextInv ==
    ASSUME IInv, [Next]_vars
    PROVE  IInv'
<1>1. CASE Connect
  BY <1>1, ConnectInv
<1>2. CASE OnCheck
  BY <1>2, CheckInv
<1>3. CASE Tick
  BY <1>3, TickInv
<1>4. ASSUME NEW c \in Clients, OnClose(c) PROVE IInv'
  BY <1>4, CloseInv
<1>5. ASSUME NEW c \in Clients, SendRequest(c) PROVE IInv'
  BY <1>5, SendRequestInv
<1>6. ASSUME NEW c \in Clients, SendWrong(c) PROVE IInv'
  BY <1>6, SendWrongInv
<1>7. ASSUME NEW c \in Clients, NEW n \in 1 .. Len(to_server[c]), OnRead(c, n) PROVE IInv'
  BY <1>7, ReadInv
<1>8. CASE UNCHANGED vars
  <2>1. UNCHANGED <<conns, next_client_id, inbound, next_incoming_seq, pending, clock,
                    rejected, to_engine, arrivals, cut, to_server, next_out, wrong,
                    requests, troubles, fault>>
    BY <1>8 DEF vars, serverVars
  <2>2. Typed'
    BY <2>1 DEF IInv, Typed
  <2>3. InStep'
    <3>1. InStep /\ (Running' => Running)
      BY <2>1 DEF IInv, Running
    <3> QED BY <2>1, <3>1, InStepKept
  <2>4. FirstComeFirstServed'
    BY <2>1 DEF IInv, FirstComeFirstServed
  <2> QED BY <2>1, <2>2, <2>3, <2>4 DEF IInv
<1> QED BY <1>1, <1>2, <1>3, <1>4, <1>5, <1>6, <1>7, <1>8 DEF Next

-----------------------------------------------------------------------------
\* The inductive invariant holds in every reachable state of the request path.
THEOREM RequestsInvariance == Spec => []IInv
<1>1. Init => IInv
  BY InitInv
<1>2. IInv /\ [Next]_vars => IInv'
  BY NextInv
<1> QED BY <1>1, <1>2, PTL DEF Spec

\* The variables of order_server and fifo_sequencer stay in their types: the inbound
\* buffer keeps less than a message, the sequencer never more than its array holds.
THEOREM RequestsTypeCorrect == Spec => []TypeOK
<1>1. IInv => TypeOK
  <2> SUFFICES ASSUME IInv PROVE TypeOK
    OBVIOUS
  <2>1. Typed
    BY DEF IInv
  <2>2. next_incoming_seq \in [Clients -> Nat] /\ next_out \in [Clients -> Nat]
    <3>1. next_incoming_seq \in [Clients -> Nat \ {0}] /\ next_out \in [Clients -> Nat \ {0}]
      BY <2>1 DEF Typed
    <3> QED BY <3>1
  <2> QED BY <2>1, <2>2 DEF Typed, TypeOK, Published, Rejections, Faults
<1> QED BY <1>1, RequestsInvariance, PTL

\* fifo_sequencer publishes requests in the order of their arrival, except for those
\* of one time in a batch too long for a stable std::sort.
THEOREM RequestsAreFirstComeFirstServed == Spec => []FirstComeFirstServed
<1>1. IInv => FirstComeFirstServed
  BY DEF IInv
<1> QED BY <1>1, RequestsInvariance, PTL

\* A client that counts right, and none of whose messages TCP has cut in two reads, is
\* never answered with INVALID_REQUEST, and the server has taken all it has sent but
\* what is on its way: whatever others send, and whatever read_data makes of their
\* messages that were cut.
THEOREM RequestsRightIsTaken == Spec => []RightIsTaken
<1>1. IInv => RightIsTaken
  <2> SUFFICES ASSUME IInv, NEW c \in Clients \ (cut \cup wrong)
               PROVE  /\ \A r \in rejected : r.from # c
                      /\ Running => Parts * (next_out[c] - next_incoming_seq[c])
                                        = Len(inbound[c]) + Len(to_server[c])
    BY DEF RightIsTaken
  <2>0. /\ c \in Clients /\ Parts \in Nat \ {0}
        /\ \A r \in rejected : r.from # c
        /\ Running => \E q \in Nat : ReadSoFar(c, q)
    BY StreamAssumption DEF IInv, InStep, Clean
  <2>1. ASSUME NEW q \in Nat, ReadSoFar(c, q)
        PROVE  Parts * (next_out[c] - next_incoming_seq[c])
                 = Len(inbound[c]) + Len(to_server[c])
    <3> DEFINE d == q \div Parts
               e == q % Parts
               l == Len(to_server[c])
               k == next_out[c]
    <3>1. k \in Nat /\ l \in Nat
      <4>1. next_out \in [Clients -> Nat \ {0}] /\ to_server[c] \in Seq(Received)
        BY <2>0 DEF IInv, Typed
      <4> QED BY <2>0, <4>1
    <3>2. d \in Nat /\ e \in Nat /\ q = Parts * d + e
      BY <2>0, Quotient
    <3>3. q + l = Parts * (k - 1) /\ Len(inbound[c]) = e /\ next_incoming_seq[c] = d + 1
      BY <2>1 DEF ReadSoFar
    <3> HIDE DEF d, e, l, k
    <3>4. k - (d + 1) = (k - 1) - d
      BY <3>1, <3>2
    <3>5. Parts * ((k - 1) - d) = Parts * (k - 1) - Parts * d
      BY <2>0, <3>1, <3>2
    <3> DEFINE x == Parts * (k - 1)
               y == Parts * d
    <3>6. x \in Int /\ y \in Int
      BY <2>0, <3>1, <3>2
    <3>7. q + l = x /\ q = y + e
      BY <3>2, <3>3
    <3> HIDE DEF x, y
    <3>8. x - y = e + l
      BY <3>1, <3>2, <3>6, <3>7
    <3>9. Parts * (k - next_incoming_seq[c]) = Len(inbound[c]) + l
      BY <3>3, <3>4, <3>5, <3>8 DEF x, y
    <3> QED BY <3>9 DEF k, l
  <2> QED BY <2>0, <2>1
<1> QED BY <1>1, RequestsInvariance, PTL

\* The matching engine gets every number of a client once, without a gap, and from
\* the client's own connection only, whatever clients send.
THEOREM RequestsExactlyOnce == Spec => []ExactlyOnce
<1>1. IInv => ExactlyOnce
  <2> SUFFICES ASSUME IInv, NEW c \in Clients
               PROVE  LET mine == {i \in DOMAIN to_engine : to_engine[i].req.client = c}
                      IN  /\ {to_engine[i].req.seq : i \in mine} = 1 .. Cardinality(mine)
                          /\ \A i \in mine : to_engine[i].req.from = c
    BY DEF ExactlyOnce
  <2> DEFINE mine == {i \in DOMAIN to_engine : to_engine[i].req.client = c}
             u == Taken(to_engine)
  <2>1. PICK n \in Nat : Holds(u, c, 1, n)
    BY DEF IInv, Numbered
  <2>2. DOMAIN u = DOMAIN to_engine /\ \A i \in DOMAIN to_engine : u[i] = to_engine[i].req
    BY DEF Taken
  <2> HIDE DEF u
  <2>3. \A i \in mine : to_engine[i].req.from = c /\ to_engine[i].req.seq \in 1 .. n
    BY <2>1, <2>2 DEF Holds
  <2>4. \A k \in 1 .. n : \E i \in mine : to_engine[i].req.seq = k
    BY <2>1, <2>2 DEF Holds
  <2>5. \A i, j \in mine : to_engine[i].req.seq = to_engine[j].req.seq => i = j
    BY <2>1, <2>2 DEF Holds
  <2> DEFINE f == [i \in mine |-> to_engine[i].req.seq]
  <2>6. f \in Bijection(mine, 1 .. n)
    <3>1. f \in [mine -> 1 .. n]
      BY <2>3
    <3>2. IsInjective(f)
      BY <2>5 DEF IsInjective
    <3>3. \A k \in 1 .. n : \E i \in mine : f[i] = k
      BY <2>4
    <3> QED BY <3>1, <3>2, <3>3 DEF Bijection, Injection, Surjection
  <2>7. IsFiniteSet(mine)
    <3>0. to_engine \in Seq(Published)
      BY DEF IInv, Typed
    <3>1. Len(to_engine) \in Nat /\ DOMAIN to_engine = 1 .. Len(to_engine)
      BY <3>0
    <3>2. IsFiniteSet(DOMAIN to_engine)
      BY <3>1, FS_Interval
    <3> QED BY <3>2, FS_Subset
  <2>8. Cardinality(mine) = n
    <3> HIDE DEF mine, f
    <3>1. Cardinality(1 .. n) = n
      BY FS_Interval
    <3>2. Cardinality(mine) = Cardinality(1 .. n)
      <4> DEFINE T == 1 .. n
      <4> HIDE DEF T
      <4>1. ExistsBijection(mine, T)
        BY <2>6 DEF ExistsBijection, T
      <4>2. Cardinality(T) = Cardinality(mine)
        BY <2>7, <4>1, FS_Bijection
      <4> QED BY <4>2 DEF T
    <3> QED BY <3>1, <3>2
  <2>9. {to_engine[i].req.seq : i \in mine} = 1 .. n
    BY <2>3, <2>4
  <2> QED BY <2>3, <2>8, <2>9
<1> QED BY <1>1, RequestsInvariance, PTL
=============================================================================
