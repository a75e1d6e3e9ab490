----------------------------- MODULE TradingProofs -----------------------------
(***************************************************************************)
(* Proofs about Trading, for any number of clients, order ids, prices and  *)
(* quantities, any market data and any number of messages on their way.    *)
(*                                                                         *)
(* For each side there is at most one order that is not finished: it rests,*)
(* is in check_for_match, or is a request on its way.  The invariant       *)
(* relates what is left of it (Standing) to what the order manager has and *)
(* to the answers that are still on their way (Answers).                   *)
(***************************************************************************)
EXTENDS Trading, OrderBookProofs

\* The responses delivered in one step.
U == INSTANCE StreamLemmas WITH op <- Deliver, Parts <- 1

-----------------------------------------------------------------------------
\* What the exchange has.

\* This client's resting orders of a side, the order in check_for_match, the
\* requests for a new order.
Own(f, s) == {m \in DOMAIN f : f[m].client = Me /\ f[m].side = s}
Working(a, s) == a.active /\ a.client = Me /\ a.side = s /\ a.leaves > 0
Asked(x, s) == {k \in DOMAIN x : x[k].type = "NEW" /\ x[k].side = s}

\* An order and what is left of it.
Terms(oid, price, qty) == [oid |-> oid, price |-> price, qty |-> qty]
AnyTerms == [oid : Int, price : Int, qty : Nat]

\* e is what is left of the one unfinished order of side s, with quantity 0 where
\* there is none.
Standing(s, f, a, x, e) ==
    \/ e.qty = 0 /\ Own(f, s) = {} /\ ~Working(a, s) /\ Asked(x, s) = {}
    \/ /\ e.qty > 0 /\ ~Working(a, s) /\ Asked(x, s) = {}
       /\ \E m \in DOMAIN f : Own(f, s) = {m} /\ e = Terms(f[m].oid, f[m].price, f[m].qty)
    \/ /\ e.qty > 0 /\ Own(f, s) = {} /\ Working(a, s) /\ Asked(x, s) = {}
       /\ e = Terms(a.oid, a.price, a.leaves)
    \/ /\ e.qty > 0 /\ Own(f, s) = {} /\ ~Working(a, s)
       /\ \E k \in DOMAIN x : Asked(x, s) = {k} /\ e = Terms(x[k].oid, x[k].price, x[k].qty)

-----------------------------------------------------------------------------
\* What the order manager has.

\* Responses this client gets.
Answer ==
    [type : {"ACCEPTED", "FILLED", "CANCELED"}, client : {Me}, oid : OrderIds,
     moid : OrderNames, side : Sides, price : Prices, exec : Nat \cup {INVALID},
     leaves : Nat]
    \cup [type : {"CANCEL_REJECTED"}, client : {Me}, oid : OrderIds, moid : {INVALID},
          side : {"INVALID"}, price : {INVALID}, exec : {INVALID}, leaves : {INVALID}]

\* The answers r on their way that concern side s, those that finish an order, and
\* the fills.
Of(r, s) == {k \in DOMAIN r : r[k].side = s}
Final(m) == m.type = "CANCELED" \/ (m.type = "FILLED" /\ m.leaves = 0)
Ends(r, s) == {k \in Of(r, s) : Final(r[k])}
Fills(r, s) == {k \in Of(r, s) : r[k].type = "FILLED"}

Open == {"PENDING_NEW", "LIVE"}
Closed == {"INVALID", "DEAD"}

\* With the answers r on their way, o is what the order manager may have for side s
\* when e is left of its order: no answer finishes an order that is not finished,
\* the last fill says what is left, and a finished order stays open exactly until
\* the last answer.
Answers(s, r, o, e) ==
    \/ /\ e.qty > 0
       /\ o.oid = e.oid /\ o.price = e.price /\ o.state \in Open /\ o.qty >= e.qty
       /\ Ends(r, s) = {}
       /\ Fills(r, s) = {} => o.qty = e.qty
       /\ \A k \in Fills(r, s) :
             /\ r[k].leaves >= e.qty
             /\ (\A j \in Fills(r, s) : j <= k) => r[k].leaves = e.qty
    \/ e.qty = 0 /\ o.state \in Closed /\ Of(r, s) = {}
    \/ /\ e.qty = 0 /\ o.state \in Open
       /\ \E k \in Of(r, s) : Ends(r, s) = {k} /\ \A j \in Of(r, s) : j <= k

OmOrder == [oid : Int, price : Int, qty : Int, state : Open \cup Closed]

\* What an answer is about.
LEMMA AnswerIs ==
    ASSUME NEW m \in Answer
    PROVE  \/ /\ m.side \in Sides /\ m.type \in {"ACCEPTED", "FILLED", "CANCELED"}
              /\ m.leaves \in Nat
           \/ m.side = "INVALID" /\ m.type = "CANCEL_REJECTED"
BY DEF Answer

\* One more answer on its way.
LEMMA OfAppend ==
    ASSUME NEW r \in Seq(Answer), NEW m \in Answer, NEW s \in Sides
    PROVE  LET q == Append(r, m)
               n == Len(r) + 1
           IN  /\ n \in Nat /\ Of(r, s) \subseteq 1 .. Len(r)
               /\ q[n] = m /\ \A k \in Of(r, s) : q[k] = r[k] /\ k \in Nat /\ k < n
               /\ m.side # s => Of(q, s) = Of(r, s)
               /\ m.side = s => Of(q, s) = Of(r, s) \cup {n}
<1> DEFINE q == Append(r, m)
           n == Len(r) + 1
<1>1. /\ n \in Nat /\ Len(r) \in Nat /\ DOMAIN r = 1 .. Len(r) /\ DOMAIN q = 1 .. n
      /\ q[n] = m /\ \A k \in 1 .. Len(r) : q[k] = r[k]
  OBVIOUS
<1> HIDE DEF q
<1>2. Of(r, s) \subseteq 1 .. Len(r) /\ \A k \in Of(r, s) : q[k] = r[k] /\ k \in Nat /\ k < n
  BY <1>1 DEF Of
<1>3. \A k \in 1 .. n : k = n \/ k \in 1 .. Len(r)
  BY <1>1
<1>4. n \in 1 .. n /\ \A k \in 1 .. Len(r) : k \in 1 .. n
  BY <1>1
<1> HIDE DEF n
<1>5. m.side # s => Of(q, s) = Of(r, s)
  BY <1>1, <1>3, <1>4 DEF Of
<1>6. m.side = s => Of(q, s) = Of(r, s) \cup {n}
  BY <1>1, <1>3, <1>4 DEF Of
<1> QED BY <1>1, <1>2, <1>5, <1>6 DEF q, n

\* An answer for the other side, or a rejection.
LEMMA AnswersOther ==
    ASSUME NEW r \in Seq(Answer), NEW m \in Answer, NEW s \in Sides, m.side # s,
           NEW o, NEW e, Answers(s, r, o, e)
    PROVE  Answers(s, Append(r, m), o, e)
<1> DEFINE q == Append(r, m)
<1>1. Of(q, s) = Of(r, s) /\ \A k \in Of(r, s) : q[k] = r[k]
  BY OfAppend
<1> HIDE DEF q
<1>2. Ends(q, s) = Ends(r, s) /\ Fills(q, s) = Fills(r, s) /\ Fills(r, s) \subseteq Of(r, s)
  BY <1>1 DEF Ends, Fills
<1>3. Answers(s, q, o, e)
  BY <1>1, <1>2 DEF Answers
<1> QED BY <1>3 DEF q

\* The order is accepted.
LEMMA AnswersAccepted ==
    ASSUME NEW r \in Seq(Answer), NEW m \in Answer, NEW s \in Sides, m.side = s,
           m.type = "ACCEPTED", NEW o, NEW e \in AnyTerms, e.qty > 0, Answers(s, r, o, e)
    PROVE  Answers(s, Append(r, m), o, e)
<1> DEFINE q == Append(r, m)
           n == Len(r) + 1
<1>1. Of(q, s) = Of(r, s) \cup {n} /\ q[n] = m /\ \A k \in Of(r, s) : q[k] = r[k]
  BY OfAppend
<1> HIDE DEF q, n
<1>2. Ends(q, s) = Ends(r, s) /\ Fills(q, s) = Fills(r, s) /\ Fills(r, s) \subseteq Of(r, s)
  BY <1>1 DEF Ends, Fills, Final
<1>3. e.qty # 0
  BY DEF AnyTerms
<1>4. Answers(s, q, o, e)
  BY <1>1, <1>2, <1>3 DEF Answers
<1> QED BY <1>4 DEF q

\* Part of what is left is filled.
LEMMA AnswersFilled ==
    ASSUME NEW r \in Seq(Answer), NEW m \in Answer, NEW s \in Sides, m.side = s,
           m.type = "FILLED", NEW o \in OmOrder, NEW e \in AnyTerms, Answers(s, r, o, e),
           NEW d \in AnyTerms, d.oid = e.oid, d.price = e.price, d.qty = m.leaves,
           d.qty > 0, d.qty <= e.qty
    PROVE  Answers(s, Append(r, m), o, d)
<1> DEFINE q == Append(r, m)
           n == Len(r) + 1
<1>0. e.qty \in Nat /\ d.qty \in Nat /\ e.qty # 0 /\ o.qty \in Int
  BY DEF AnyTerms, OmOrder
<1>1. /\ Of(q, s) = Of(r, s) \cup {n} /\ q[n] = m
      /\ \A k \in Of(r, s) : q[k] = r[k] /\ k \in Nat /\ k < n
      /\ n \in Nat
  BY OfAppend
<1>2. \A k \in Of(r, s) : r[k].type = "FILLED" => r[k].leaves \in Nat
  <2>1. \A k \in Of(r, s) : r[k] \in Answer
    BY DEF Of
  <2> QED BY <2>1, AnswerIs
<1> HIDE DEF q, n
<1>3. Fills(q, s) = Fills(r, s) \cup {n} /\ Fills(r, s) \subseteq Of(r, s)
  BY <1>1 DEF Fills
<1>4. Ends(q, s) = Ends(r, s)
  BY <1>0, <1>1 DEF Ends, Final
<1>5. /\ o.oid = e.oid /\ o.price = e.price /\ o.state \in Open /\ o.qty >= e.qty
      /\ Ends(r, s) = {} /\ \A k \in Fills(r, s) : r[k].leaves >= e.qty
  BY <1>0 DEF Answers
<1>6. o.qty >= d.qty
  BY <1>0, <1>5
<1>7. ASSUME NEW k \in Fills(q, s)
      PROVE  /\ q[k].leaves >= d.qty
             /\ (\A j \in Fills(q, s) : j <= k) => q[k].leaves = d.qty
  <2>1. CASE k = n
    BY <1>0, <1>1, <2>1
  <2>2. CASE k \in Fills(r, s)
    <3>1. q[k] = r[k] /\ k < n /\ k \in Nat
      BY <1>1, <1>3, <2>2
    <3>2. r[k].leaves \in Nat /\ r[k].leaves >= e.qty
      BY <1>2, <1>3, <1>5, <2>2 DEF Fills
    <3>3. ~(n <= k) /\ n \in Fills(q, s)
      BY <1>1, <1>3, <3>1
    <3> QED BY <1>0, <3>1, <3>2, <3>3
  <2> QED BY <1>3, <2>1, <2>2
<1>8. Answers(s, q, o, d)
  BY <1>0, <1>3, <1>4, <1>5, <1>6, <1>7 DEF Answers
<1> QED BY <1>8 DEF q

\* The order is finished: it is filled, or cancelled.
LEMMA AnswersFinal ==
    ASSUME NEW r \in Seq(Answer), NEW m \in Answer, NEW s \in Sides, m.side = s,
           Final(m), NEW o, NEW e \in AnyTerms, e.qty > 0, Answers(s, r, o, e),
           NEW d, d.qty = 0
    PROVE  Answers(s, Append(r, m), o, d)
<1> DEFINE q == Append(r, m)
           n == Len(r) + 1
<1>0. e.qty # 0
  BY DEF AnyTerms
<1>1. /\ Of(q, s) = Of(r, s) \cup {n} /\ q[n] = m /\ n \in Nat
      /\ \A k \in Of(r, s) : q[k] = r[k] /\ k \in Nat /\ k < n
  BY OfAppend
<1>2. Ends(r, s) = {} /\ o.state \in Open
  BY <1>0 DEF Answers
<1> HIDE DEF q, n
<1>3. Ends(q, s) = {n}
  BY <1>1, <1>2 DEF Ends
<1>4. \A j \in Of(q, s) : j <= n
  BY <1>1
<1>5. Answers(s, q, o, d)
  BY <1>1, <1>2, <1>3, <1>4 DEF Answers
<1> QED BY <1>5 DEF q

\* A new order is sent.
LEMMA AnswersNew ==
    ASSUME NEW r, NEW s, NEW o, o.state \in Closed, NEW e, Answers(s, r, o, e)
    PROVE  /\ e.qty = 0
           /\ \A p, d : (/\ p.oid = d.oid /\ p.price = d.price /\ p.qty = d.qty
                         /\ p.state = "PENDING_NEW" /\ d.qty \in Nat \ {0})
                          => Answers(s, r, p, d)
<1>1. Open \cap Closed = {} /\ "PENDING_NEW" \in Open
  BY DEF Open, Closed
<1>2. e.qty = 0 /\ Of(r, s) = {}
  BY <1>1 DEF Answers
<1>3. Ends(r, s) = {} /\ Fills(r, s) = {}
  BY <1>2 DEF Ends, Fills
<1>4. \A n \in Nat \ {0} : n > 0 /\ n >= n
  OBVIOUS
<1> QED BY <1>1, <1>2, <1>3, <1>4 DEF Answers

\* The oldest answer is taken.
LEMMA OfTail ==
    ASSUME NEW r \in Seq(Answer), r # <<>>, NEW s \in Sides
    PROVE  LET q == Tail(r)
           IN  /\ q \in Seq(Answer) /\ Head(r) \in Answer /\ Head(r) = r[1]
               /\ 1 \in Of(r, s) <=> Head(r).side = s
               /\ Of(r, s) \subseteq Nat \ {0}
               /\ \A k \in Of(r, s) : k # 1 => k - 1 \in Of(q, s)
               /\ \A k \in Of(q, s) : k \in Nat \ {0} /\ k + 1 \in Of(r, s) /\ q[k] = r[k + 1]
<1> DEFINE q == Tail(r)
           n == Len(r)
<1>1. /\ n \in Nat \ {0} /\ DOMAIN r = 1 .. n /\ q \in Seq(Answer) /\ DOMAIN q = 1 .. n - 1
      /\ Head(r) = r[1] /\ r[1] \in Answer
      /\ \A k \in 1 .. n - 1 : q[k] = r[k + 1]
  OBVIOUS
<1> HIDE DEF q, n
<1>2. 1 \in 1 .. n /\ 1 .. n \subseteq Nat \ {0}
  BY <1>1
<1>3. \A k \in 1 .. n : k # 1 => k - 1 \in 1 .. n - 1 /\ (k - 1) + 1 = k
  BY <1>1
<1>4. \A k \in 1 .. n - 1 : k \in Nat \ {0} /\ k + 1 \in 1 .. n
  BY <1>1
<1>5. \A k \in Of(r, s) : k # 1 => k - 1 \in Of(q, s)
  BY <1>1, <1>3 DEF Of
<1>6. \A k \in Of(q, s) : k \in Nat \ {0} /\ k + 1 \in Of(r, s) /\ q[k] = r[k + 1]
  BY <1>1, <1>4 DEF Of
<1>7. 1 \in Of(r, s) <=> r[1].side = s
  BY <1>1, <1>2 DEF Of
<1>8. Of(r, s) \subseteq Nat \ {0}
  BY <1>1, <1>2 DEF Of
<1> QED BY <1>1, <1>5, <1>6, <1>7, <1>8 DEF q

\* The oldest answer is no fill and finishes nothing, or is not about this side.
LEMMA TailQuiet ==
    ASSUME NEW r \in Seq(Answer), r # <<>>, NEW s \in Sides,
           1 \notin Ends(r, s), 1 \notin Fills(r, s),
           NEW o, NEW p, p.oid = o.oid, p.price = o.price, p.qty = o.qty,
           p.state = o.state \/ (p.state \in Open /\ Of(r, s) # {}),
           NEW e, Answers(s, r, o, e)
    PROVE  Answers(s, Tail(r), p, e)
<1> DEFINE q == Tail(r)
<1>1. /\ Of(r, s) \subseteq Nat \ {0}
      /\ \A k \in Of(r, s) : k # 1 => k - 1 \in Of(q, s)
      /\ \A k \in Of(q, s) : k \in Nat \ {0} /\ k + 1 \in Of(r, s) /\ q[k] = r[k + 1]
  BY OfTail
<1> HIDE DEF q
<1>2. \A k \in Of(r, s) : k \in Int /\ (k - 1) + 1 = k
  BY <1>1
<1>3. /\ \A k \in Ends(r, s) : k - 1 \in Ends(q, s)
      /\ \A k \in Ends(q, s) : k + 1 \in Ends(r, s)
      /\ \A k \in Fills(r, s) : k - 1 \in Fills(q, s)
      /\ \A k \in Fills(q, s) : k + 1 \in Fills(r, s)
      /\ Fills(r, s) \subseteq Of(r, s) /\ Fills(q, s) \subseteq Of(q, s)
  <2>1. \A k \in Of(r, s) : k # 1 => q[k - 1] = r[k]
    BY <1>1, <1>2
  <2> QED BY <1>1, <2>1 DEF Ends, Fills
<1>4. CASE e.qty > 0 /\ o.state \in Open /\ Ends(r, s) = {}
  <2>1. /\ o.oid = e.oid /\ o.price = e.price /\ o.qty >= e.qty /\ p.state \in Open
        /\ Fills(r, s) = {} => o.qty = e.qty
        /\ \A k \in Fills(r, s) :
             /\ r[k].leaves >= e.qty
             /\ (\A j \in Fills(r, s) : j <= k) => r[k].leaves = e.qty
    BY <1>4 DEF Answers, Ends
  <2>2. ASSUME NEW k \in Fills(q, s)
        PROVE  /\ q[k].leaves >= e.qty
               /\ (\A j \in Fills(q, s) : j <= k) => q[k].leaves = e.qty
    <3>1. k + 1 \in Fills(r, s) /\ q[k] = r[k + 1] /\ k \in Nat
      BY <1>1, <1>3
    <3>2. (\A j \in Fills(q, s) : j <= k) => \A j \in Fills(r, s) : j <= k + 1
      <4> SUFFICES ASSUME \A j \in Fills(q, s) : j <= k, NEW j \in Fills(r, s)
                   PROVE  j <= k + 1
        OBVIOUS
      <4>1. j - 1 <= k /\ j \in Int
        BY <1>2, <1>3
      <4> QED BY <3>1, <4>1
    <3> QED BY <2>1, <3>1, <3>2
  <2>3. Ends(q, s) = {} /\ (Fills(q, s) = {} => Fills(r, s) = {})
    BY <1>3, <1>4
  <2>4. Answers(s, q, p, e)
    BY <1>4, <2>1, <2>2, <2>3 DEF Answers
  <2> QED BY <2>4 DEF q
<1>5. CASE e.qty = 0 /\ o.state \in Closed /\ Of(r, s) = {}
  <2>1. Of(q, s) = {} /\ p.state = o.state
    BY <1>1, <1>5
  <2>2. Answers(s, q, p, e)
    BY <1>5, <2>1 DEF Answers
  <2> QED BY <2>2 DEF q
<1>6. CASE /\ e.qty = 0 /\ o.state \in Open
           /\ \E k \in Of(r, s) : Ends(r, s) = {k} /\ \A j \in Of(r, s) : j <= k
  <2>1. PICK k \in Of(r, s) : Ends(r, s) = {k} /\ \A j \in Of(r, s) : j <= k
    BY <1>6
  <2>2. k - 1 \in Ends(q, s) /\ k - 1 \in Of(q, s) /\ k \in Int
    BY <1>2, <1>3, <2>1 DEF Ends
  <2>3. \A j \in Of(q, s) : j <= k - 1
    BY <1>1, <2>1, <2>2
  <2>4. \A j \in Ends(q, s) : j = k - 1
    <3>1. \A j \in Ends(q, s) : j \in Nat /\ j + 1 = k
      BY <1>1, <1>3, <2>1 DEF Ends
    <3> QED BY <2>2, <3>1
  <2>5. p.state \in Open /\ Ends(q, s) = {k - 1}
    BY <1>6, <2>2, <2>4
  <2>6. Answers(s, q, p, e)
    BY <1>6, <2>2, <2>3, <2>5 DEF Answers
  <2> QED BY <2>6 DEF q
<1> QED BY <1>4, <1>5, <1>6 DEF Answers

\* The oldest answer is a fill that leaves something.
LEMMA TailFill ==
    ASSUME NEW r \in Seq(Answer), r # <<>>, NEW s \in Sides,
           1 \in Fills(r, s), 1 \notin Ends(r, s),
           NEW o \in OmOrder, NEW p, p.oid = o.oid, p.price = o.price, p.qty = r[1].leaves,
           p.state = o.state,
           NEW e \in AnyTerms, Answers(s, r, o, e)
    PROVE  Answers(s, Tail(r), p, e)
<1> DEFINE q == Tail(r)
<1>1. /\ Of(r, s) \subseteq Nat \ {0}
      /\ \A k \in Of(r, s) : k # 1 => k - 1 \in Of(q, s)
      /\ \A k \in Of(q, s) : k \in Nat \ {0} /\ k + 1 \in Of(r, s) /\ q[k] = r[k + 1]
  BY OfTail
<1> HIDE DEF q
<1>2. \A k \in Of(r, s) : k \in Int /\ (k - 1) + 1 = k
  BY <1>1
<1>3. /\ \A k \in Ends(r, s) : k - 1 \in Ends(q, s)
      /\ \A k \in Ends(q, s) : k + 1 \in Ends(r, s)
      /\ \A k \in Fills(r, s) : k # 1 => k - 1 \in Fills(q, s)
      /\ \A k \in Fills(q, s) : k + 1 \in Fills(r, s)
      /\ Fills(r, s) \subseteq Of(r, s) /\ Fills(q, s) \subseteq Of(q, s)
  <2>1. \A k \in Of(r, s) : k # 1 => q[k - 1] = r[k]
    BY <1>1, <1>2
  <2> QED BY <1>1, <2>1 DEF Ends, Fills
<1>4. CASE e.qty > 0
  <2>0. e.qty # 0
    BY <1>4 DEF AnyTerms
  <2>1. /\ o.oid = e.oid /\ o.price = e.price /\ o.state \in Open /\ Ends(r, s) = {}
        /\ \A k \in Fills(r, s) :
             /\ r[k].leaves >= e.qty
             /\ (\A j \in Fills(r, s) : j <= k) => r[k].leaves = e.qty
    BY <2>0 DEF Answers
  <2>2. ASSUME NEW k \in Fills(q, s)
        PROVE  /\ q[k].leaves >= e.qty
               /\ (\A j \in Fills(q, s) : j <= k) => q[k].leaves = e.qty
    <3>1. k + 1 \in Fills(r, s) /\ q[k] = r[k + 1] /\ k \in Nat
      BY <1>1, <1>3
    <3>2. (\A j \in Fills(q, s) : j <= k) => \A j \in Fills(r, s) : j <= k + 1
      <4> SUFFICES ASSUME \A j \in Fills(q, s) : j <= k, NEW j \in Fills(r, s)
                   PROVE  j <= k + 1
        OBVIOUS
      <4>1. (j = 1 \/ j - 1 <= k) /\ j \in Int
        BY <1>2, <1>3
      <4> QED BY <3>1, <4>1
    <3> QED BY <2>1, <3>1, <3>2
  <2>3. Ends(q, s) = {}
    BY <1>3, <2>1
  <2>4. Fills(q, s) = {} => p.qty = e.qty
    <3> SUFFICES ASSUME Fills(q, s) = {} PROVE p.qty = e.qty
      OBVIOUS
    <3>1. \A j \in Fills(r, s) : j = 1
      BY <1>3
    <3>2. \A j \in Fills(r, s) : j <= 1
      BY <3>1
    <3> QED BY <2>1, <3>2
  <2>5. p.qty >= e.qty
    BY <2>1
  <2>6. Answers(s, q, p, e)
    BY <1>4, <2>1, <2>2, <2>3, <2>4, <2>5 DEF Answers
  <2> QED BY <2>6 DEF q
<1>5. CASE e.qty = 0
  <2>0. ~(e.qty > 0) /\ Of(r, s) # {}
    BY <1>5 DEF Fills
  <2>1. o.state \in Open /\ \E k \in Of(r, s) : Ends(r, s) = {k} /\ \A j \in Of(r, s) : j <= k
    BY <2>0 DEF Answers
  <2>2. PICK k \in Of(r, s) : Ends(r, s) = {k} /\ \A j \in Of(r, s) : j <= k
    BY <2>1
  <2>3. k - 1 \in Ends(q, s) /\ k - 1 \in Of(q, s) /\ k \in Int
    BY <1>2, <1>3, <2>2 DEF Ends
  <2>4. \A j \in Of(q, s) : j <= k - 1
    BY <1>1, <2>2, <2>3
  <2>5. \A j \in Ends(q, s) : j = k - 1
    <3>1. \A j \in Ends(q, s) : j \in Nat /\ j + 1 = k
      BY <1>1, <1>3, <2>2 DEF Ends
    <3> QED BY <2>3, <3>1
  <2>6. Ends(q, s) = {k - 1}
    BY <2>3, <2>5
  <2>7. Answers(s, q, p, e)
    BY <1>5, <2>1, <2>3, <2>4, <2>6 DEF Answers
  <2> QED BY <2>7 DEF q
<1> QED BY <1>4, <1>5 DEF AnyTerms

\* The oldest answer finishes the order: it is the last one of this side.
LEMMA TailFinal ==
    ASSUME NEW r \in Seq(Answer), r # <<>>, NEW s \in Sides, 1 \in Ends(r, s),
           NEW o, NEW p, p.state = "DEAD", NEW e, Answers(s, r, o, e)
    PROVE  Answers(s, Tail(r), p, e)
<1>1. /\ Of(r, s) \subseteq Nat \ {0}
      /\ \A k \in Of(Tail(r), s) : k \in Nat \ {0} /\ k + 1 \in Of(r, s)
  BY OfTail
<1>2. e.qty = 0 /\ \E k \in Of(r, s) : Ends(r, s) = {k} /\ \A j \in Of(r, s) : j <= k
  <2>1. 1 \in Of(r, s)
    BY DEF Ends
  <2> QED BY <2>1 DEF Answers
<1>3. \A j \in Of(r, s) : j <= 1
  BY <1>2
<1>4. Of(Tail(r), s) = {}
  BY <1>1, <1>3
<1>5. p.state \in Closed
  BY DEF Closed
<1> QED BY <1>2, <1>4, <1>5 DEF Answers

\* on_order_update keeps what the order manager has in step with the exchange.
LEMMA AnswersTail ==
    ASSUME NEW r \in Seq(Answer), r # <<>>, NEW s \in Sides,
           NEW o \in OmOrder, NEW e \in AnyTerms, Answers(s, r, o, e),
           NEW p, p = IF SideOf(Head(r)) = s THEN AfterResponse(o, Head(r)) ELSE o
    PROVE  /\ p \in OmOrder /\ p.oid = o.oid /\ (p.state \in Open => o.state \in Open)
           /\ Answers(s, Tail(r), p, e)
<1> DEFINE h == Head(r)
<1>1. h \in Answer /\ h = r[1] /\ (1 \in Of(r, s) <=> h.side = s)
  BY OfTail
<1> HIDE DEF h
<1>2. "LIVE" \in Open /\ "DEAD" \in Closed
  BY DEF Open, Closed
<1>3. CASE h.side # s
  <2>1. p = o
    <3>1. CASE SideOf(h) # s
      BY <3>1 DEF h
    <3>2. CASE SideOf(h) = s
      <4>1. h.type = "CANCEL_REJECTED"
        BY <1>1, <1>3, <3>2, AnswerIs DEF SideOf, Sides
      <4> QED BY <4>1 DEF AfterResponse, h
    <3> QED BY <3>1, <3>2
  <2>2. 1 \notin Ends(r, s) /\ 1 \notin Fills(r, s)
    BY <1>1, <1>3 DEF Ends, Fills
  <2> QED BY <2>1, <2>2, TailQuiet
<1>4. CASE h.side = s
  <2>1. SideOf(h) = s
    BY <1>4 DEF SideOf, Sides
  <2>2. p = AfterResponse(o, h)
    BY <2>1 DEF h
  <2>3. h.type \in {"ACCEPTED", "FILLED", "CANCELED"} /\ h.leaves \in Nat
    BY <1>1, <1>4, AnswerIs DEF Sides
  <2>4. 1 \in Of(r, s) /\ o.state \in Open
    <3>1. 1 \in Of(r, s)
      BY <1>1, <1>4
    <3> QED BY <3>1 DEF Answers
  <2>5. CASE h.type = "ACCEPTED"
    <3>1. p = [o EXCEPT !.state = "LIVE"]
      BY <2>2, <2>5 DEF AfterResponse
    <3>2. /\ p \in OmOrder /\ p.oid = o.oid /\ p.price = o.price /\ p.qty = o.qty
          /\ p.state \in Open
      BY <1>2, <3>1 DEF OmOrder
    <3>3. 1 \notin Ends(r, s) /\ 1 \notin Fills(r, s)
      BY <1>1, <2>5 DEF Ends, Fills, Final
    <3> QED BY <2>4, <3>2, <3>3, TailQuiet
  <2>6. CASE h.type = "CANCELED"
    <3>1. p = [o EXCEPT !.state = "DEAD"]
      BY <2>2, <2>6 DEF AfterResponse
    <3>2. p \in OmOrder /\ p.state = "DEAD" /\ p.oid = o.oid
      BY <1>2, <3>1 DEF OmOrder
    <3>3. 1 \in Ends(r, s)
      BY <1>1, <2>4, <2>6 DEF Ends, Final
    <3> QED BY <2>4, <3>2, <3>3, TailFinal
  <2>7. CASE h.type = "FILLED"
    <3>1. p = [o EXCEPT !.qty = h.leaves, !.state = IF h.leaves = 0 THEN "DEAD" ELSE @]
      BY <2>2, <2>7 DEF AfterResponse
    <3>2. /\ p \in OmOrder /\ p.oid = o.oid /\ p.price = o.price /\ p.qty = h.leaves
          /\ p.state = IF h.leaves = 0 THEN "DEAD" ELSE o.state
      <4> DEFINE state == IF h.leaves = 0 THEN "DEAD" ELSE o.state
      <4>1. state \in Open \cup Closed
        BY <1>2 DEF OmOrder
      <4>2. p = [o EXCEPT !.qty = h.leaves, !.state = state]
        BY <3>1
      <4> HIDE DEF state
      <4>3. /\ o = [oid |-> o.oid, price |-> o.price, qty |-> o.qty, state |-> o.state]
            /\ o.oid \in Int /\ o.price \in Int
        BY DEF OmOrder
      <4>4. p = [oid |-> o.oid, price |-> o.price, qty |-> h.leaves, state |-> state]
        BY <4>2, <4>3
      <4>5. h.leaves \in Int
        BY <2>3
      <4>6. /\ p \in OmOrder /\ p.oid = o.oid /\ p.price = o.price /\ p.qty = h.leaves
            /\ p.state = state
        BY <4>1, <4>3, <4>4, <4>5 DEF OmOrder
      <4> QED BY <4>6 DEF state
    <3>3. CASE h.leaves = 0
      <4>1. 1 \in Ends(r, s)
        BY <1>1, <2>4, <2>7, <3>3 DEF Ends, Final
      <4> QED BY <2>4, <3>2, <3>3, <4>1, TailFinal
    <3>4. CASE h.leaves # 0
      <4>1. 1 \notin Ends(r, s) /\ 1 \in Fills(r, s)
        BY <1>1, <2>4, <2>7, <3>4 DEF Ends, Fills, Final
      <4> QED BY <1>1, <2>4, <3>2, <3>4, <4>1, TailFill
    <3> QED BY <3>3, <3>4
  <2> QED BY <2>3, <2>5, <2>6, <2>7
<1> QED BY <1>3, <1>4

-----------------------------------------------------------------------------
\* What is left of an order, step by step.

\* Requests on their way.
Sent ==
    [type : {"NEW"}, oid : OrderIds, side : Sides, price : Prices, qty : {Clip}]
    \cup [type : {"CANCEL"}, oid : OrderIds, side : Sides, price : Int, qty : Int]

\* Only what the book does with this client's order of side s counts.
LEMMA StandingFrame ==
    ASSUME NEW s, NEW f, NEW a, NEW x, NEW e, Standing(s, f, a, x, e),
           NEW g, Own(g, s) = Own(f, s), \A m \in Own(f, s) : g[m] = f[m],
           NEW b, Working(b, s) <=> Working(a, s),
           Working(a, s) =>
              /\ b.oid = a.oid /\ b.price = a.price /\ b.leaves = a.leaves
    PROVE  Standing(s, g, b, x, e)
<1>1. \A m \in Own(g, s) : m \in DOMAIN g
  BY DEF Own
<1>2. \A m \in DOMAIN f : Own(f, s) = {m} => m \in DOMAIN g /\ g[m] = f[m]
  BY <1>1
<1> QED BY <1>2 DEF Standing

\* Sending something that is no new order of this side.
LEMMA StandingSend ==
    ASSUME NEW s, NEW f, NEW a, NEW x \in Seq(Sent), NEW e, Standing(s, f, a, x, e),
           NEW q \in Sent, q.type # "NEW" \/ q.side # s
    PROVE  Standing(s, f, a, Append(x, q), e)
<1> DEFINE y == Append(x, q)
           n == Len(x)
<1>1. /\ n \in Nat /\ DOMAIN x = 1 .. n /\ DOMAIN y = 1 .. n + 1 /\ y[n + 1] = q
      /\ \A k \in 1 .. n : y[k] = x[k]
  OBVIOUS
<1> HIDE DEF y, n
<1>2. \A k \in 1 .. n + 1 : k = n + 1 \/ k \in 1 .. n
  BY <1>1
<1>3. \A k \in 1 .. n : k \in 1 .. n + 1
  BY <1>1
<1>4. Asked(y, s) = Asked(x, s) /\ \A k \in Asked(x, s) : k \in DOMAIN y /\ y[k] = x[k]
  BY <1>1, <1>2, <1>3 DEF Asked
<1>5. \A k \in DOMAIN x : Asked(x, s) = {k} => k \in DOMAIN y /\ y[k] = x[k]
  BY <1>4
<1>6. Standing(s, f, a, y, e)
  BY <1>4, <1>5 DEF Standing
<1> QED BY <1>6 DEF y

\* Sending a new order where there is none.
LEMMA StandingNew ==
    ASSUME NEW s, NEW f, NEW a, NEW x \in Seq(Sent), NEW e, Standing(s, f, a, x, e),
           e.qty = 0, NEW q \in Sent, q.type = "NEW", q.side = s
    PROVE  Standing(s, f, a, Append(x, q), Terms(q.oid, q.price, q.qty)) /\ q.qty = Clip
<1> DEFINE y == Append(x, q)
           n == Len(x)
<1>1. /\ n \in Nat /\ DOMAIN x = 1 .. n /\ DOMAIN y = 1 .. n + 1 /\ y[n + 1] = q
      /\ \A k \in 1 .. n : y[k] = x[k]
  OBVIOUS
<1>2. q.qty = Clip /\ Clip \in Nat \ {0}
  BY TradingAssumption, ConstantsAssumption DEF Sent
<1>3. Own(f, s) = {} /\ ~Working(a, s) /\ Asked(x, s) = {}
  BY DEF Standing
<1> HIDE DEF y, n
<1>4. \A k \in 1 .. n + 1 : k = n + 1 \/ k \in 1 .. n
  BY <1>1
<1>5. n + 1 \in 1 .. n + 1
  BY <1>1
<1>6. Asked(y, s) = {n + 1}
  BY <1>1, <1>3, <1>4, <1>5 DEF Asked
<1> DEFINE d == Terms(q.oid, q.price, q.qty)
<1>7. d.qty > 0 /\ d = Terms(y[n + 1].oid, y[n + 1].price, y[n + 1].qty)
  BY <1>1, <1>2 DEF Terms
<1> HIDE DEF d
<1>8. Standing(s, f, a, y, d)
  BY <1>1, <1>3, <1>5, <1>6, <1>7 DEF Standing
<1> QED BY <1>2, <1>8 DEF y, d

\* The requests left when the next one is taken.
LEMMA AskedTail ==
    ASSUME NEW s, NEW x \in Seq(Sent), x # <<>>
    PROVE  LET y == Tail(x)
           IN  /\ y \in Seq(Sent) /\ Head(x) \in Sent /\ Head(x) = x[1]
               /\ 1 \in Asked(x, s) <=> (Head(x).type = "NEW" /\ Head(x).side = s)
               /\ Asked(x, s) \subseteq Nat \ {0}
               /\ \A k \in Asked(x, s) : k # 1 => k - 1 \in Asked(y, s)
               /\ \A k \in Asked(y, s) : k \in Nat \ {0} /\ k + 1 \in Asked(x, s) /\ y[k] = x[k + 1]
<1> DEFINE y == Tail(x)
           n == Len(x)
<1>1. /\ n \in Nat \ {0} /\ DOMAIN x = 1 .. n /\ y \in Seq(Sent) /\ DOMAIN y = 1 .. n - 1
      /\ Head(x) = x[1] /\ x[1] \in Sent
      /\ \A k \in 1 .. n - 1 : y[k] = x[k + 1]
  OBVIOUS
<1> HIDE DEF y, n
<1>2. 1 \in 1 .. n /\ 1 .. n \subseteq Nat \ {0}
  BY <1>1
<1>3. \A k \in 1 .. n : k # 1 => k - 1 \in 1 .. n - 1 /\ (k - 1) + 1 = k
  BY <1>1
<1>4. \A k \in 1 .. n - 1 : k \in Nat \ {0} /\ k + 1 \in 1 .. n
  BY <1>1
<1>5. \A k \in Asked(x, s) : k # 1 => k - 1 \in Asked(y, s)
  BY <1>1, <1>3 DEF Asked
<1>6. \A k \in Asked(y, s) : k \in Nat \ {0} /\ k + 1 \in Asked(x, s) /\ y[k] = x[k + 1]
  BY <1>1, <1>4 DEF Asked
<1>7. 1 \in Asked(x, s) <=> (x[1].type = "NEW" /\ x[1].side = s)
  BY <1>1, <1>2 DEF Asked
<1>8. Asked(x, s) \subseteq Nat \ {0}
  BY <1>1, <1>2 DEF Asked
<1> QED BY <1>1, <1>5, <1>6, <1>7, <1>8 DEF y

\* Taking a request that is no new order of this side.
LEMMA StandingTake ==
    ASSUME NEW s, NEW f, NEW a, NEW x \in Seq(Sent), x # <<>>, NEW e,
           Standing(s, f, a, x, e), Head(x).type # "NEW" \/ Head(x).side # s
    PROVE  Standing(s, f, a, Tail(x), e)
<1> DEFINE y == Tail(x)
<1>1. /\ 1 \notin Asked(x, s) /\ Asked(x, s) \subseteq Nat \ {0}
      /\ \A k \in Asked(x, s) : k # 1 => k - 1 \in Asked(y, s)
      /\ \A k \in Asked(y, s) : k \in Nat \ {0} /\ k + 1 \in Asked(x, s) /\ y[k] = x[k + 1]
      /\ \A k \in Asked(y, s) : k \in DOMAIN y
  BY AskedTail DEF Asked
<1> HIDE DEF y
<1>2. Asked(x, s) = {} => Asked(y, s) = {}
  BY <1>1
<1>3. ASSUME NEW k \in DOMAIN x, Asked(x, s) = {k}
      PROVE  k - 1 \in DOMAIN y /\ Asked(y, s) = {k - 1} /\ y[k - 1] = x[k]
  <2>1. k \in Nat /\ k # 1 /\ k - 1 \in Asked(y, s) /\ (k - 1) + 1 = k
    BY <1>1, <1>3
  <2>2. \A j \in Asked(y, s) : j = k - 1
    <3>1. \A j \in Asked(y, s) : j \in Nat /\ j + 1 = k
      BY <1>1, <1>3
    <3> QED BY <2>1, <3>1
  <2>3. Asked(y, s) = {k - 1}
    BY <2>1, <2>2
  <2> QED BY <1>1, <2>1, <2>3
<1>4. Standing(s, f, a, y, e)
  BY <1>2, <1>3 DEF Standing
<1> QED BY <1>4 DEF y

\* Taking the new order of this side: add() works on it.
LEMMA StandingAdd ==
    ASSUME NEW s, NEW f, NEW a, ~Working(a, s), NEW x \in Seq(Sent), x # <<>>,
           NEW e \in AnyTerms,
           Standing(s, f, a, x, e), Head(x).type = "NEW", Head(x).side = s,
           NEW b, b.active, b.client = Me, b.side = s, b.oid = Head(x).oid,
           b.price = Head(x).price, b.leaves = Head(x).qty
    PROVE  Standing(s, f, b, Tail(x), e) /\ e.qty > 0
<1> DEFINE y == Tail(x)
<1>1. /\ 1 \in Asked(x, s) /\ Head(x) = x[1] /\ Head(x) \in Sent
      /\ \A k \in Asked(y, s) : k \in Nat \ {0} /\ k + 1 \in Asked(x, s)
  BY AskedTail
<1> HIDE DEF y
<1>2. /\ e.qty > 0 /\ Own(f, s) = {} /\ Asked(x, s) = {1}
      /\ e = Terms(x[1].oid, x[1].price, x[1].qty)
  BY <1>1 DEF Standing
<1>3. Asked(y, s) = {}
  BY <1>1, <1>2
<1>4. x[1].qty = e.qty
  BY <1>2 DEF Terms
<1>5. Working(b, s)
  BY <1>1, <1>2, <1>4 DEF Working
<1>6. Standing(s, f, b, y, e)
  BY <1>1, <1>2, <1>3, <1>5 DEF Standing
<1> QED BY <1>2, <1>6 DEF y

\* The order add() works on is filled in part, or completely.
LEMMA StandingWorks ==
    ASSUME NEW s, NEW f, NEW a, NEW x, NEW e \in AnyTerms, Standing(s, f, a, x, e),
           Working(a, s), NEW n \in Nat,
           NEW b, b.active, b.client = a.client, b.side = a.side, b.oid = a.oid,
           b.price = a.price, b.leaves = n
    PROVE  Standing(s, f, b, x, Terms(e.oid, e.price, n)) /\ e.qty = a.leaves /\ e.qty > 0
<1>1. /\ e.qty > 0 /\ Own(f, s) = {} /\ Asked(x, s) = {}
      /\ e = Terms(a.oid, a.price, a.leaves)
  BY DEF Standing
<1>2. e.oid = a.oid /\ e.price = a.price /\ e.qty = a.leaves
  BY <1>1 DEF Terms
<1> DEFINE d == Terms(e.oid, e.price, n)
<1>3. d.qty = n /\ d = Terms(b.oid, b.price, b.leaves)
  BY <1>2 DEF Terms
<1> HIDE DEF d
<1>4. CASE n = 0
  <2>1. ~Working(b, s)
    BY <1>4 DEF Working
  <2> QED BY <1>1, <1>2, <1>3, <1>4, <2>1 DEF Standing, d
<1>5. CASE n > 0
  <2>1. Working(b, s)
    BY <1>5 DEF Working
  <2> QED BY <1>1, <1>2, <1>3, <1>5, <2>1 DEF Standing, d
<1> QED BY <1>4, <1>5

\* The resting order is filled in part, filled, or cancelled.
LEMMA StandingRests ==
    ASSUME NEW s, NEW f, NEW a, NEW x, NEW e \in AnyTerms, Standing(s, f, a, x, e),
           NEW m \in Own(f, s), NEW n \in Nat, NEW g,
           \/ n = 0 /\ Own(g, s) = Own(f, s) \ {m}
           \/ /\ n > 0 /\ Own(g, s) = Own(f, s)
              /\ g[m].oid = f[m].oid /\ g[m].price = f[m].price /\ g[m].qty = n
    PROVE  Standing(s, g, a, x, Terms(e.oid, e.price, n)) /\ e.qty = f[m].qty /\ e.qty > 0
<1>1. /\ e.qty > 0 /\ Own(f, s) = {m} /\ ~Working(a, s) /\ Asked(x, s) = {}
      /\ e = Terms(f[m].oid, f[m].price, f[m].qty)
  BY DEF Standing
<1>2. e.oid = f[m].oid /\ e.price = f[m].price /\ e.qty = f[m].qty
  BY <1>1 DEF Terms
<1> DEFINE d == Terms(e.oid, e.price, n)
<1>3. d.qty = n /\ d = Terms(f[m].oid, f[m].price, n)
  BY <1>2 DEF Terms
<1> HIDE DEF d
<1>4. CASE n = 0
  <2>1. Own(g, s) = {}
    BY <1>1, <1>4
  <2> QED BY <1>1, <1>2, <1>3, <1>4, <2>1 DEF Standing, d
<1>5. CASE n > 0
  <2>1. Own(g, s) = {m} /\ d = Terms(g[m].oid, g[m].price, g[m].qty)
    BY <1>1, <1>3, <1>5
  <2>2. m \in DOMAIN g
    BY <2>1 DEF Own
  <2> QED BY <1>1, <1>2, <1>3, <1>5, <2>1, <2>2 DEF Standing, d
<1> QED BY <1>4, <1>5

\* What is left after check_for_match joins the book.
LEMMA StandingJoins ==
    ASSUME NEW s, NEW f, NEW a, NEW x, NEW e \in AnyTerms, Standing(s, f, a, x, e),
           Working(a, s), NEW b, ~Working(b, s),
           NEW g, NEW m, Own(g, s) = Own(f, s) \cup {m},
           g[m].oid = a.oid, g[m].price = a.price, g[m].qty = a.leaves
    PROVE  Standing(s, g, b, x, e)
<1>1. /\ e.qty > 0 /\ Own(f, s) = {} /\ Asked(x, s) = {}
      /\ e = Terms(a.oid, a.price, a.leaves)
  BY DEF Standing
<1>2. Own(g, s) = {m} /\ m \in DOMAIN g
  BY <1>1 DEF Own
<1> QED BY <1>1, <1>2 DEF Standing

-----------------------------------------------------------------------------
\* Responses that are delivered (message_handler.hpp's send_client_response,
\* once for each response of a step).

\* A step without a response delivers none.
LEMMA DeliverNone ==
    ASSUME NEW q
    PROVE  FoldLeft(Deliver, q, <<>>) = q
<1>0. 1 \in Nat \ {0}
  OBVIOUS
<1>1. U!FoldLeft(Deliver, q, <<>>) = FoldLeft(Deliver, q, <<>>)
  BY Zenon DEF U!FoldLeft, U!MapThenFoldSet, U!Max, FoldLeft, MapThenFoldSet, Max
<1>2. U!FoldLeft(Deliver, q, <<>>) = q
  BY <1>0, U!FoldShort, Zenon
<1> QED BY <1>1, <1>2, Zenon

\* One response.
LEMMA DeliverOne ==
    ASSUME NEW q, NEW m
    PROVE  FoldLeft(Deliver, q, <<m>>) = Deliver(q, m)
<1>0. 1 \in Nat \ {0}
  OBVIOUS
<1>1. U!FoldLeft(Deliver, q, <<m>>) = FoldLeft(Deliver, q, <<m>>)
  BY Zenon DEF U!FoldLeft, U!MapThenFoldSet, U!Max, FoldLeft, MapThenFoldSet, Max
<1>2. U!FoldLeft(Deliver, q, <<m>>) = Deliver(q, m)
  BY <1>0, U!FoldShort, Zenon
<1> QED BY <1>1, <1>2, Zenon

\* Two responses, in their order.
LEMMA DeliverTwo ==
    ASSUME NEW q, NEW m, NEW n
    PROVE  FoldLeft(Deliver, q, <<m, n>>) = Deliver(Deliver(q, m), n)
<1>0. 1 \in Nat \ {0}
  OBVIOUS
<1>1. U!FoldLeft(Deliver, q, <<m, n>>) = FoldLeft(Deliver, q, <<m, n>>)
  BY Zenon DEF U!FoldLeft, U!MapThenFoldSet, U!Max, FoldLeft, MapThenFoldSet, Max
<1>2. U!FoldLeft(Deliver, q, <<m, n>>) = Deliver(Deliver(q, m), n)
  BY <1>0, U!FoldShort, Zenon DEF Deliver
<1> QED BY <1>1, <1>2, Zenon

\* A response to somebody else, for the other side, or a rejection.
LEMMA DeliverOther ==
    ASSUME NEW r \in Seq(Answer), NEW m, m.client = Me => m \in Answer
    PROVE  /\ Deliver(r, m) \in Seq(Answer)
           /\ \A s \in Sides : \A o, e :
                 (m.client # Me \/ m.side # s) /\ Answers(s, r, o, e)
                    => Answers(s, Deliver(r, m), o, e)
<1>1. CASE m.client # Me
  BY <1>1 DEF Deliver
<1>2. CASE m.client = Me
  <2>1. m \in Answer /\ Deliver(r, m) = Append(r, m)
    BY <1>2 DEF Deliver
  <2>2. Append(r, m) \in Seq(Answer)
    BY <2>1
  <2> QED BY <1>2, <2>1, <2>2, AnswersOther
<1> QED BY <1>1, <1>2

-----------------------------------------------------------------------------
\* The invariant.

\* For each side the exchange and the order manager agree, but for the answers on
\* their way.
Tied(f, a, x, r, o) ==
    \A s \in Sides : \E e \in AnyTerms : Standing(s, f, a, x, e) /\ Answers(s, r, o[s], e)

\* Orders that are open have a valid id.
Named(o) == \A s \in Sides : o[s].state \in Open => o[s].oid \in OrderIds

Agreed ==
    /\ next_order_id \in Nat \ {0}
    /\ to_exchange \in Seq(Sent)
    /\ to_me \in Seq(Answer)
    /\ om \in [Sides -> OmOrder] /\ Named(om)
    /\ Tied(orders, aggressor, to_exchange, to_me, om)

TInv == IInv /\ (fault \/ Agreed)

\* The state the invariant starts from.
LEMMA TInitInv == TInit => TInv
<1> SUFFICES ASSUME TInit PROVE TInv
  OBVIOUS
<1>1. IInv
  BY InitInv DEF TInit
<1>2. /\ orders = <<>> /\ aggressor = NoAggressor
      /\ om = [side \in Sides |-> NoOrder] /\ next_order_id = 1
      /\ to_exchange = <<>> /\ to_me = <<>>
  BY DEF TInit, Init
<1>3. /\ NoOrder \in OmOrder /\ NoOrder.state \in Closed /\ NoOrder.state \notin Open
  BY DEF NoOrder, OmOrder, Open, Closed, INVALID, NoPrice
<1> DEFINE e == Terms(0, 0, 0)
<1>4. e \in AnyTerms /\ e.qty = 0
  BY DEF Terms, AnyTerms
<1> HIDE DEF e
<1>5. \A s \in Sides : Own(orders, s) = {} /\ ~Working(aggressor, s) /\ Asked(to_exchange, s) = {}
                       /\ Of(to_me, s) = {}
  BY <1>2 DEF Own, Working, Asked, Of, NoAggressor
<1>6. \A s \in Sides : Standing(s, orders, aggressor, to_exchange, e)
                       /\ Answers(s, to_me, om[s], e)
  BY <1>2, <1>3, <1>4, <1>5 DEF Standing, Answers
<1>7. Agreed
  BY <1>2, <1>3, <1>4, <1>6 DEF Agreed, Named, Tied
<1> QED BY <1>1, <1>7 DEF TInv

\* A response is taken.
LEMMA OnOrderUpdateAgreed ==
    ASSUME Agreed, OnOrderUpdate
    PROVE  Agreed'
<1> DEFINE h == Head(to_me)
<1>1. /\ to_me # <<>> /\ to_me' = Tail(to_me)
      /\ om' = [om EXCEPT ![SideOf(h)] = AfterResponse(@, h)]
      /\ UNCHANGED <<orders, aggressor, next_order_id, to_exchange>>
  BY DEF OnOrderUpdate, vars, book
<1>2. /\ to_me \in Seq(Answer) /\ om \in [Sides -> OmOrder] /\ Named(om)
      /\ Tied(orders, aggressor, to_exchange, to_me, om)
  BY DEF Agreed
<1>3. SideOf(h) \in Sides
  BY DEF SideOf, Sides
<1>4. /\ DOMAIN om' = Sides /\ om' = [s \in Sides |-> om'[s]]
      /\ \A s \in Sides : om'[s] = IF SideOf(h) = s THEN AfterResponse(om[s], h) ELSE om[s]
  BY <1>1, <1>2, <1>3
<1> HIDE DEF h
<1>5. ASSUME NEW s \in Sides
      PROVE  /\ om'[s] \in OmOrder /\ (om'[s].state \in Open => om'[s].oid \in OrderIds)
             /\ \E e \in AnyTerms : /\ Standing(s, orders, aggressor, to_exchange, e)
                                    /\ Answers(s, to_me', om'[s], e)
  <2>1. PICK e \in AnyTerms : /\ Standing(s, orders, aggressor, to_exchange, e)
                              /\ Answers(s, to_me, om[s], e)
    BY <1>2 DEF Tied
  <2>2. om[s] \in OmOrder
    BY <1>2
  <2> DEFINE p == om'[s]
  <2>3. p = IF SideOf(Head(to_me)) = s THEN AfterResponse(om[s], Head(to_me)) ELSE om[s]
    BY <1>4 DEF h
  <2> HIDE DEF p
  <2>4. /\ p \in OmOrder /\ p.oid = om[s].oid /\ (p.state \in Open => om[s].state \in Open)
        /\ Answers(s, Tail(to_me), p, e)
    BY <1>1, <1>2, <2>1, <2>2, <2>3, AnswersTail
  <2> QED BY <1>1, <1>2, <2>1, <2>4 DEF p, Named
<1>6. to_me' \in Seq(Answer)
  BY <1>1, <1>2
<1>7. om' \in [Sides -> OmOrder]
  BY <1>4, <1>5
<1>8. Named(om') /\ Tied(orders, aggressor, to_exchange, to_me', om')
  BY <1>5 DEF Named, Tied
<1> QED BY <1>1, <1>6, <1>7, <1>8 DEF Agreed

-----------------------------------------------------------------------------
\* The order manager moves its orders.

\* The records move_orders works on, which fit the exchange.
Movable(t) ==
    /\ t \in [om : [Sides -> OmOrder], next : Nat \ {0}, requests : Seq(Sent)]
    /\ Named(t.om)
    /\ Tied(orders, aggressor, to_exchange \o t.requests, to_me, t.om)

\* A cancel is sent: nothing else changes.
LEMMA CancelMovable ==
    ASSUME Agreed, NEW t, Movable(t), NEW side \in Sides, t.om[side].state = "LIVE",
           NEW u, u = CancelOrder(t, side)
    PROVE  Movable(u) /\ u.next = t.next
<1> DEFINE q == CancelRequest(t.om[side], side)
           x == to_exchange \o t.requests
<1>1. /\ t.om \in [Sides -> OmOrder] /\ t.next \in Nat \ {0} /\ t.requests \in Seq(Sent)
      /\ t = [om |-> t.om, next |-> t.next, requests |-> t.requests]
      /\ to_exchange \in Seq(Sent)
      /\ Named(t.om) /\ Tied(orders, aggressor, x, to_me, t.om)
  BY DEF Movable, Agreed
<1>2. t.om[side] \in OmOrder /\ t.om[side].oid \in OrderIds
  <2>1. "LIVE" \in Open
    BY DEF Open
  <2> QED BY <1>1, <2>1 DEF Named
<1>3. q \in Sent /\ q.type = "CANCEL"
  BY <1>2 DEF CancelRequest, Sent, OmOrder
<1>4. u = [om |-> t.om, next |-> t.next, requests |-> Append(t.requests, q)]
  <2>1. u = [t EXCEPT !.requests = Append(@, q)]
    BY DEF CancelOrder, SendClientRequest
  <2> QED BY <1>1, <2>1
<1>5. to_exchange \o Append(t.requests, q) = Append(x, q) /\ x \in Seq(Sent)
  BY <1>1, <1>3
<1> HIDE DEF q, x
<1>6. Tied(orders, aggressor, Append(x, q), to_me, t.om)
  BY <1>1, <1>3, <1>5, StandingSend DEF Tied
<1>7. /\ u.om = t.om /\ u.next = t.next /\ u.requests = Append(t.requests, q)
      /\ u \in [om : [Sides -> OmOrder], next : Nat \ {0}, requests : Seq(Sent)]
  BY <1>1, <1>3, <1>4
<1> QED BY <1>1, <1>5, <1>6, <1>7 DEF Movable

\* A new order is sent for a side that has none.
LEMMA NewMovable ==
    ASSUME Agreed, NEW t, Movable(t), NEW side \in Sides, t.om[side].state \in Closed,
           NEW price \in Prices, t.next \in OrderIds, NEW u, u = NewOrder(t, side, price, Clip)
    PROVE  Movable(u) /\ u.next = t.next + 1
<1> DEFINE q == [type |-> "NEW", oid |-> t.next, side |-> side, price |-> price, qty |-> Clip]
           p == [oid |-> t.next, price |-> price, qty |-> Clip, state |-> "PENDING_NEW"]
           x == to_exchange \o t.requests
           d == Terms(t.next, price, Clip)
<1>1. /\ t.om \in [Sides -> OmOrder] /\ t.next \in Nat \ {0} /\ t.requests \in Seq(Sent)
      /\ t = [om |-> t.om, next |-> t.next, requests |-> t.requests]
      /\ to_exchange \in Seq(Sent)
      /\ Named(t.om) /\ Tied(orders, aggressor, x, to_me, t.om)
  BY DEF Movable, Agreed
<1>2. Clip \in Nat \ {0} /\ price \in Int
  BY TradingAssumption, ConstantsAssumption
<1>3. q \in Sent /\ q.type = "NEW" /\ q.side = side /\ Terms(q.oid, q.price, q.qty) = d
  BY DEF Sent
<1>4. /\ p \in OmOrder /\ p.oid = t.next /\ p.state = "PENDING_NEW"
      /\ p.oid = d.oid /\ p.price = d.price /\ p.qty = d.qty
      /\ d.qty \in Nat \ {0} /\ d \in AnyTerms
  BY <1>1, <1>2 DEF OmOrder, Open, Terms, AnyTerms
<1>5. u = [om |-> [t.om EXCEPT ![side] = p], next |-> t.next + 1,
           requests |-> Append(t.requests, q)]
  <2> DEFINE v == [t EXCEPT !.requests = Append(@, q)]
  <2>1. u = [v EXCEPT !.om[side] = p, !.next = @ + 1]
    BY DEF NewOrder, SendClientRequest
  <2>2. t = [om |-> t.om, next |-> t.next, requests |-> t.requests]
    BY <1>1
  <2> HIDE DEF p, q
  <2>3. v = [om |-> t.om, next |-> t.next, requests |-> Append(t.requests, q)]
    <3> DEFINE om_t == t.om
               n == t.next
               r == t.requests
    <3>1. t = [om |-> om_t, next |-> n, requests |-> r]
      BY <2>2
    <3> HIDE DEF om_t, n, r
    <3>2. v = [om |-> om_t, next |-> n, requests |-> Append(r, q)]
      BY <3>1
    <3> QED BY <3>2 DEF om_t, n, r
  <2> DEFINE w == [t.om EXCEPT ![side] = p]
  <2>4. v.om = t.om /\ v.next = t.next
    BY <2>3
  <2>5. u = [v EXCEPT !.om = w, !.next = t.next + 1]
    BY <2>1, <2>4
  <2> HIDE DEF v, w
  <2>6. u = [om |-> w, next |-> t.next + 1, requests |-> Append(t.requests, q)]
    BY <2>3, <2>5
  <2> QED BY <2>6 DEF w
<1>6. to_exchange \o Append(t.requests, q) = Append(x, q) /\ x \in Seq(Sent)
  BY <1>1, <1>3
<1> DEFINE o == [t.om EXCEPT ![side] = p]
<1> HIDE DEF q, x, p, d
<1>7. /\ o \in [Sides -> OmOrder] /\ o[side] = p
      /\ \A s \in Sides : s # side => o[s] = t.om[s]
  BY <1>1, <1>4
<1> HIDE DEF o
<1>8. ASSUME NEW s \in Sides
      PROVE  \E e \in AnyTerms : /\ Standing(s, orders, aggressor, Append(x, q), e)
                                 /\ Answers(s, to_me, o[s], e)
  <2>1. PICK e \in AnyTerms : /\ Standing(s, orders, aggressor, x, e)
                              /\ Answers(s, to_me, t.om[s], e)
    BY <1>1 DEF Tied
  <2>2. CASE s # side
    <3>1. Standing(s, orders, aggressor, Append(x, q), e)
      BY <1>3, <1>6, <2>1, <2>2, StandingSend
    <3> QED BY <1>7, <2>1, <2>2, <3>1
  <2>3. CASE s = side
    <3>1. e.qty = 0 /\ Answers(s, to_me, p, d)
      BY <1>4, <2>1, <2>3, AnswersNew
    <3>2. Standing(s, orders, aggressor, Append(x, q), d)
      BY <1>3, <1>6, <2>1, <2>3, <3>1, StandingNew
    <3> QED BY <1>4, <1>7, <2>3, <3>1, <3>2
  <2> QED BY <2>2, <2>3
<1>9. Named(o)
  BY <1>1, <1>4, <1>7 DEF Named
<1>10. /\ u.om = o /\ u.next = t.next + 1 /\ u.requests = Append(t.requests, q)
       /\ u \in [om : [Sides -> OmOrder], next : Nat \ {0}, requests : Seq(Sent)]
  BY <1>1, <1>3, <1>5, <1>7 DEF o
<1> QED BY <1>6, <1>8, <1>9, <1>10 DEF Movable, Tied

\* A record of what move_order changes, whatever the values are.
Moving(t) == t = [om |-> t.om, next |-> t.next, requests |-> t.requests]

\* At most one order id is used for a side.
LEMMA MoveNext ==
    ASSUME NEW t, Moving(t), NEW side, NEW price, NEW u, u = MoveOrder(t, side, price)
    PROVE  Moving(u) /\ (u.next = t.next \/ u.next = t.next + 1)
<1>1. CASE u = CancelOrder(t, side)
  <2> DEFINE q == CancelRequest(t.om[side], side)
  <2>1. u = [t EXCEPT !.requests = Append(@, q)]
    BY <1>1 DEF CancelOrder, SendClientRequest
  <2> HIDE DEF q
  <2>2. u = [om |-> t.om, next |-> t.next, requests |-> Append(t.requests, q)]
    BY <2>1 DEF Moving
  <2> QED BY <2>2 DEF Moving
<1>2. CASE u = NewOrder(t, side, price, Clip)
  <2> DEFINE q == [type |-> "NEW", oid |-> t.next, side |-> side, price |-> price, qty |-> Clip]
             p == [oid |-> t.next, price |-> price, qty |-> Clip, state |-> "PENDING_NEW"]
             v == [t EXCEPT !.requests = Append(@, q)]
  <2>1. u = [v EXCEPT !.om[side] = p, !.next = @ + 1]
    BY <1>2 DEF NewOrder, SendClientRequest
  <2> HIDE DEF p, q
  <2>2. v = [om |-> t.om, next |-> t.next, requests |-> Append(t.requests, q)]
    BY DEF Moving
  <2> HIDE DEF v
  <2>3. u = [om |-> [t.om EXCEPT ![side] = p], next |-> t.next + 1,
             requests |-> Append(t.requests, q)]
    BY <2>1, <2>2
  <2> QED BY <2>3 DEF Moving
<1>3. CASE u = t
  BY <1>3
<1> QED BY <1>1, <1>2, <1>3 DEF MoveOrder

\* One side is moved, as far as there are order ids.
LEMMA MoveMovable ==
    ASSUME Agreed, NEW t, Movable(t), NEW side \in Sides, NEW price \in Prices \cup {NoPrice},
           NEW u, u = MoveOrder(t, side, price)
    PROVE  u.next = t.next \/ t.next \in OrderIds => Movable(u)
<1>1. t.next \in Nat
  BY DEF Movable
<1>2. CASE u = CancelOrder(t, side) /\ t.om[side].state = "LIVE"
  BY <1>1, <1>2, CancelMovable
<1>3. CASE /\ u = NewOrder(t, side, price, Clip) /\ price \in Prices
           /\ t.om[side].state \in Closed
  <2>1. u.next = t.next + 1
    <3> DEFINE q == [type |-> "NEW", oid |-> t.next, side |-> side, price |-> price, qty |-> Clip]
               p == [oid |-> t.next, price |-> price, qty |-> Clip, state |-> "PENDING_NEW"]
               v == [t EXCEPT !.requests = Append(@, q)]
    <3>1. u = [v EXCEPT !.om[side] = p, !.next = @ + 1]
      BY <1>3 DEF NewOrder, SendClientRequest
    <3> HIDE DEF p, q
    <3>2. t = [om |-> t.om, next |-> t.next, requests |-> t.requests]
      BY DEF Movable
    <3>3. v = [om |-> t.om, next |-> t.next, requests |-> Append(t.requests, q)]
      BY <3>2
    <3> HIDE DEF v
    <3> QED BY <3>1, <3>3
  <2>2. t.next \in OrderIds => Movable(u)
    BY <1>3, NewMovable
  <2>3. u.next # t.next
    BY <1>1, <2>1
  <2> QED BY <2>2, <2>3
<1>4. CASE u = t
  BY <1>1, <1>4
<1> QED BY <1>2, <1>3, <1>4 DEF MoveOrder, Closed

\* move_orders.
LEMMA MoveOrdersAgreed ==
    ASSUME Agreed, NEW bid \in Prices \cup {NoPrice}, NEW ask \in Prices \cup {NoPrice},
           MoveOrders(bid, ask), UNCHANGED <<vars, to_me>>
    PROVE  Agreed'
<1> DEFINE t == [om |-> om, next |-> next_order_id, requests |-> <<>>]
           u == MoveOrder(t, "BUY", bid)
           v == MoveOrder(u, "SELL", ask)
<1>1. /\ v.next - 1 \in {0} \cup OrderIds
      /\ om' = v.om /\ next_order_id' = v.next
      /\ to_exchange' = to_exchange \o v.requests
      /\ UNCHANGED <<orders, aggressor, to_me>>
  BY DEF MoveOrders, vars, book
<1>2. Movable(t)
  <2>1. /\ om \in [Sides -> OmOrder] /\ next_order_id \in Nat \ {0}
        /\ to_exchange \in Seq(Sent) /\ Named(om)
        /\ Tied(orders, aggressor, to_exchange, to_me, om)
    BY DEF Agreed
  <2>2. <<>> \in Seq(Sent) /\ to_exchange \o <<>> = to_exchange
    BY <2>1
  <2>3. /\ t.om = om /\ t.requests = <<>>
        /\ t \in [om : [Sides -> OmOrder], next : Nat \ {0}, requests : Seq(Sent)]
    BY <2>1, <2>2
  <2> QED BY <2>1, <2>2, <2>3 DEF Movable
<1> HIDE DEF t
<1>3. "BUY" \in Sides /\ "SELL" \in Sides
  BY DEF Sides
<1>4. /\ t.next \in Nat \ {0} /\ (u.next = t.next \/ u.next = t.next + 1) /\ Moving(u)
      /\ u.next = t.next \/ t.next \in OrderIds => Movable(u)
  <2>1. Moving(t) /\ t.next \in Nat \ {0}
    BY <1>2 DEF Movable, Moving
  <2> QED BY <1>2, <1>3, <2>1, MoveNext, MoveMovable
<1>10. /\ v.next = u.next \/ v.next = u.next + 1
       /\ Movable(u) => (v.next = u.next \/ u.next \in OrderIds => Movable(v))
  BY <1>3, <1>4, MoveNext, MoveMovable
<1> HIDE DEF u, v
<1>5. \A n \in Nat \ {0} : n \in OrderIds => 1 .. n \subseteq OrderIds
  BY TradingAssumption
<1>6. Movable(v)
  <2>1. CASE u.next = t.next \/ t.next \in OrderIds
    <3>1. Movable(u)
      BY <1>4, <2>1
    <3>2. v.next # u.next => v.next - 1 = u.next /\ v.next - 1 # 0
      BY <1>4, <1>10
    <3> QED BY <1>1, <1>10, <3>1, <3>2
  <2>2. CASE u.next # t.next /\ t.next \notin OrderIds
    <3>1. v.next - 1 \in Nat \ {0} /\ t.next \in 1 .. v.next - 1
      BY <1>4, <1>10, <2>2
    <3>2. v.next - 1 \in OrderIds
      BY <1>1, <3>1
    <3> QED BY <1>5, <2>2, <3>1, <3>2
  <2> QED BY <2>1, <2>2
<1>7. /\ v \in [om : [Sides -> OmOrder], next : Nat \ {0}, requests : Seq(Sent)]
      /\ Named(v.om) /\ Tied(orders, aggressor, to_exchange \o v.requests, to_me, v.om)
  BY <1>6 DEF Movable
<1>8. to_exchange' \in Seq(Sent) /\ to_me \in Seq(Answer)
  BY <1>1, <1>7 DEF Agreed
<1> QED BY <1>1, <1>7, <1>8 DEF Agreed

-----------------------------------------------------------------------------
\* The book works on a request.

\* Request messages: only the requests on their way and the book change.
ByBook == UNCHANGED <<om, next_order_id>>

\* What a book step has to show.
LEMMA BookAgreed ==
    ASSUME Agreed, ByBook, to_exchange' \in Seq(Sent), to_me' \in Seq(Answer),
           \A s \in Sides : \E e \in AnyTerms :
              Standing(s, orders', aggressor', to_exchange', e) /\ Answers(s, to_me', om[s], e)
    PROVE  Agreed'
BY DEF Agreed, ByBook, Tied, Named

\* An order of somebody else, or of the other side, leaves.
LEMMA OwnWithout ==
    ASSUME BookInv, NEW m \in DOMAIN orders, RemoveOrder(m), NEW s \in Sides
    PROVE  /\ \A k \in Own(orders', s) : orders'[k] = orders[k]
           /\ Own(orders', s) = Own(orders, s) \ {m}
<1>1. /\ DOMAIN orders' = DOMAIN orders \ {m}
      /\ \A k \in DOMAIN orders' : orders'[k] = orders[k]
  BY RemoveEffect
<1> QED BY <1>1 DEF Own

\* Somebody's order is cancelled, or the cancel is rejected.
LEMMA CancelAgreed ==
    ASSUME IInv, Agreed, NEW c \in Clients, NEW oid \in OrderIds, Cancel(c, oid), ~fault',
           Respond, ByBook, to_exchange' \in Seq(Sent),
           \A s \in Sides : \A e :
              Standing(s, orders, aggressor, to_exchange, e)
                => Standing(s, orders, aggressor, to_exchange', e)
    PROVE  Agreed'
<1> DEFINE m == client_orders[c][oid]
           x == to_exchange'
<1>0. /\ BookInv /\ to_me \in Seq(Answer) /\ Tied(orders, aggressor, to_exchange, to_me, om)
  BY DEF IInv, Agreed
<1>1. to_me' = FoldLeft(Deliver, to_me, responses')
  BY DEF Respond
<1>2. ASSUME m = 0, responses' = <<Reject("CANCEL_REJECTED", c, oid)>>,
             UNCHANGED book, UNCHANGED aggressor
      PROVE  Agreed'
  <2> DEFINE r == Reject("CANCEL_REJECTED", c, oid)
  <2>1. to_me' = Deliver(to_me, r)
    BY <1>1, <1>2, DeliverOne
  <2>2. (r.client = Me => r \in Answer) /\ r.side = "INVALID"
    BY DEF Reject, Response, Answer
  <2>3. \A s \in Sides : r.side # s
    BY <2>2 DEF Sides
  <2> HIDE DEF r
  <2>4. /\ Deliver(to_me, r) \in Seq(Answer)
        /\ \A s \in Sides : \A o, e : Answers(s, to_me, o, e) => Answers(s, Deliver(to_me, r), o, e)
    BY <1>0, <2>2, <2>3, DeliverOther
  <2>5. orders' = orders /\ aggressor' = aggressor
    BY <1>2 DEF book
  <2>6. \A s \in Sides : \E e \in AnyTerms :
           Standing(s, orders', aggressor', x, e) /\ Answers(s, to_me', om[s], e)
    BY <1>0, <2>1, <2>4, <2>5 DEF Tied
  <2> QED BY <2>1, <2>4, <2>6, BookAgreed
<1>3. ASSUME m # 0, RemoveOrder(m), responses' = <<Canceled(m)>>, UNCHANGED aggressor
      PROVE  Agreed'
  <2> DEFINE r == Canceled(m)
             o == orders[m]
  <2>1. m \in DOMAIN orders /\ orders[m] \in Order /\ m \in OrderNames
    BY <1>0, <1>3, EntryLive DEF BookInv, BookTypeOK
  <2>2. to_me' = Deliver(to_me, r)
    BY <1>1, <1>3, DeliverOne
  <2>3. /\ r.type = "CANCELED" /\ r.client = o.client /\ r.side = o.side
        /\ r.client = Me => r \in Answer
    BY <2>1 DEF Canceled, Response, Answer, Order
  <2> HIDE DEF r
  <2>4. /\ Deliver(to_me, r) \in Seq(Answer)
        /\ \A s \in Sides : \A p, e :
              (r.client # Me \/ r.side # s) /\ Answers(s, to_me, p, e)
                 => Answers(s, Deliver(to_me, r), p, e)
    BY <1>0, <2>3, DeliverOther
  <2> HIDE DEF m, o
  <2>5. ASSUME NEW s \in Sides
        PROVE  \E e \in AnyTerms : /\ Standing(s, orders', aggressor', x, e)
                                   /\ Answers(s, to_me', om[s], e)
    <3>1. PICK e \in AnyTerms : /\ Standing(s, orders, aggressor, x, e)
                                /\ Answers(s, to_me, om[s], e)
      BY <1>0 DEF Tied
    <3>2. /\ \A k \in Own(orders', s) : orders'[k] = orders[k]
          /\ Own(orders', s) = Own(orders, s) \ {m}
      BY <1>0, <1>3, <2>1, OwnWithout
    <3>3. m \in Own(orders, s) <=> (r.client = Me /\ r.side = s)
      BY <2>1, <2>3 DEF Own, o
    <3>4. aggressor' = aggressor
      BY <1>3
    <3>5. CASE m \notin Own(orders, s)
      <4>1. Own(orders', s) = Own(orders, s)
        BY <3>2, <3>5
      <4>2. Standing(s, orders', aggressor, x, e)
        BY <3>1, <3>2, <4>1, StandingFrame
      <4>3. Answers(s, Deliver(to_me, r), om[s], e)
        BY <2>4, <3>1, <3>3, <3>5
      <4> QED BY <2>2, <3>4, <4>2, <4>3
    <3>6. CASE m \in Own(orders, s)
      <4> DEFINE d == Terms(e.oid, e.price, 0)
      <4>1. Standing(s, orders', aggressor, x, d) /\ e.qty > 0
        BY <3>1, <3>2, <3>6, StandingRests
      <4>2. d \in AnyTerms /\ d.qty = 0
        BY DEF Terms, AnyTerms
      <4>3. r \in Answer /\ r.side = s /\ Deliver(to_me, r) = Append(to_me, r) /\ Final(r)
        BY <2>3, <3>3, <3>6 DEF Deliver, Final
      <4> HIDE DEF d
      <4>4. Answers(s, Append(to_me, r), om[s], d)
        BY <1>0, <3>1, <4>1, <4>2, <4>3, AnswersFinal
      <4> QED BY <2>2, <3>4, <4>1, <4>2, <4>3, <4>4
    <3> QED BY <3>5, <3>6
  <2> QED BY <2>2, <2>4, <2>5, BookAgreed
<1> QED BY <1>2, <1>3 DEF Cancel, Fault

\* Somebody else's order comes.
LEMMA AddOtherAgreed ==
    ASSUME Agreed, NEW c \in Clients \ {Me}, NEW oid, NEW side, NEW price, NEW qty,
           Add(c, oid, side, price, qty), Respond, ByBook, UNCHANGED to_exchange
    PROVE  Agreed'
<1> DEFINE r == Response("ACCEPTED", c, oid, next_market_order_id, side, price, 0, qty)
<1>1. /\ ~aggressor.active /\ aggressor'.client = c /\ orders' = orders
      /\ responses' = Append(<<>>, r)
  BY DEF Add, BeginAdd, Idle, book
<1>2. responses' = <<r>>
  BY <1>1
<1>3. to_me' = Deliver(to_me, r) /\ r.client # Me
  BY <1>2, DeliverOne DEF Respond, Response
<1> HIDE DEF r
<1>4. to_me' = to_me
  BY <1>3 DEF Deliver
<1>5. /\ to_me \in Seq(Answer) /\ to_exchange \in Seq(Sent)
      /\ Tied(orders, aggressor, to_exchange, to_me, om)
  BY DEF Agreed
<1>6. ASSUME NEW s \in Sides
      PROVE  \E e \in AnyTerms : /\ Standing(s, orders', aggressor', to_exchange', e)
                                 /\ Answers(s, to_me', om[s], e)
  <2>1. PICK e \in AnyTerms : /\ Standing(s, orders, aggressor, to_exchange, e)
                              /\ Answers(s, to_me, om[s], e)
    BY <1>5 DEF Tied
  <2>2. ~Working(aggressor, s) /\ ~Working(aggressor', s)
    BY <1>1 DEF Working
  <2>3. Standing(s, orders, aggressor', to_exchange, e)
    BY <2>1, <2>2, StandingFrame
  <2> QED BY <1>1, <1>4, <2>1, <2>3
<1> QED BY <1>4, <1>5, <1>6, BookAgreed

\* This client's order comes.
LEMMA AddMineAgreed ==
    ASSUME IInv, Agreed, to_exchange # <<>>, NEW q, q = Head(to_exchange), q.type = "NEW",
           Add(Me, q.oid, q.side, q.price, q.qty), Respond, ByBook,
           to_exchange' = Tail(to_exchange)
    PROVE  Agreed'
<1> DEFINE n == next_market_order_id
           r == Response("ACCEPTED", Me, q.oid, n, q.side, q.price, 0, q.qty)
           a == aggressor'
<1>1. /\ ~aggressor.active /\ orders' = orders /\ n <= MaxMarketOrders
      /\ a = [active |-> TRUE, moid |-> n, client |-> Me, oid |-> q.oid,
              side |-> q.side, price |-> q.price, leaves |-> q.qty]
      /\ responses' = Append(<<>>, r)
  BY DEF Add, BeginAdd, Idle, book
<1>2. /\ to_me \in Seq(Answer) /\ to_exchange \in Seq(Sent)
      /\ Tied(orders, aggressor, to_exchange, to_me, om)
  BY DEF Agreed
<1>3. q \in Sent /\ to_exchange' \in Seq(Sent)
  BY <1>2
<1>4. /\ q.oid \in OrderIds /\ q.side \in Sides /\ q.price \in Prices /\ q.qty \in Nat
  BY <1>3, TradingAssumption, ConstantsAssumption DEF Sent
<1>5. n \in OrderNames
  BY <1>1, ConstantsAssumption DEF IInv, TypeOK, OrderNames
<1>6. r \in Answer /\ r.type = "ACCEPTED" /\ r.side = q.side /\ r.client = Me
  BY <1>4, <1>5 DEF Response, Answer
<1>7. to_me' = Append(to_me, r)
  <2>1. responses' = <<r>>
    BY <1>1
  <2>2. to_me' = Deliver(to_me, r)
    BY <2>1, DeliverOne DEF Respond
  <2> QED BY <1>6, <2>2 DEF Deliver
<1>8. /\ a.active /\ a.client = Me /\ a.side = q.side /\ a.oid = q.oid
      /\ a.price = q.price /\ a.leaves = q.qty
  BY <1>1
<1> HIDE DEF r, a, n
<1>9. to_me' \in Seq(Answer)
  BY <1>2, <1>6, <1>7
<1>10. ASSUME NEW s \in Sides
       PROVE  \E e \in AnyTerms : /\ Standing(s, orders, a, Tail(to_exchange), e)
                                  /\ Answers(s, Append(to_me, r), om[s], e)
  <2>1. PICK e \in AnyTerms : /\ Standing(s, orders, aggressor, to_exchange, e)
                              /\ Answers(s, to_me, om[s], e)
    BY <1>2 DEF Tied
  <2>2. ~Working(aggressor, s)
    BY <1>1 DEF Working
  <2>3. CASE s = q.side
    <3>1. Standing(s, orders, a, Tail(to_exchange), e) /\ e.qty > 0
      BY <1>2, <1>8, <2>1, <2>2, <2>3, StandingAdd
    <3>2. Answers(s, Append(to_me, r), om[s], e)
      BY <1>2, <1>6, <2>1, <2>3, <3>1, AnswersAccepted
    <3> QED BY <3>1, <3>2
  <2>4. CASE s # q.side
    <3>1. Standing(s, orders, aggressor, Tail(to_exchange), e)
      BY <1>2, <2>1, <2>4, StandingTake
    <3>2. ~Working(a, s)
      BY <1>8, <2>4 DEF Working
    <3>3. Standing(s, orders, a, Tail(to_exchange), e)
      BY <2>2, <3>1, <3>2, StandingFrame
    <3>4. Answers(s, Append(to_me, r), om[s], e)
      BY <1>2, <1>6, <2>1, <2>4, AnswersOther
    <3> QED BY <3>3, <3>4
  <2> QED BY <2>3, <2>4
<1> QED BY <1>1, <1>3, <1>7, <1>9, <1>10, BookAgreed DEF a

\* The order that trades with the aggressor stands on the other side.
LEMMA BestOppositeSide ==
    ASSUME IInv, CanMatch
    PROVE  /\ BestOpposite \in DOMAIN orders
           /\ orders[BestOpposite].side = Opposite(aggressor.side)
<1> DEFINE side == Opposite(aggressor.side)
           l == rings[side][1]
<1>0. BookInv
  BY DEF IInv
<1>1. side \in Sides
  BY ActiveAggressor DEF CanMatch, IInv, Aggressor, Opposite, Sides
<1>2. rings[side] \in Seq(OrderNames) /\ rings[side] # <<>>
  BY <1>0, <1>1 DEF CanMatch, BookInv, BookTypeOK
<1>3. l \in ToSet(rings[side])
  BY <1>2 DEF ToSet
<1>4. l \in DOMAIN levels /\ levels[l].side = side
  BY <1>0, <1>1, <1>3 DEF BookInv, Linked
<1> HIDE DEF l
<1>5. levels[l] \in Level /\ levels[l].queue # <<>>
  BY <1>0, <1>4 DEF BookInv, BookTypeOK, Linked
<1>6. levels[l].queue \in Seq(OrderNames)
  BY <1>5 DEF Level
<1>7. BestOpposite = Head(levels[l].queue)
  BY DEF BestOpposite, FirstOrder, l
<1> DEFINE q == levels[l].queue
<1>8. q \in Seq(OrderNames) /\ q # <<>> /\ BestOpposite = Head(q)
  BY <1>5, <1>6, <1>7
<1> HIDE DEF q
<1>9. BestOpposite \in ToSet(q)
  BY <1>8 DEF ToSet
<1>10. ToSet(q) = {k \in DOMAIN orders : orders[k].home = l}
  BY <1>0, <1>4 DEF BookInv, Linked, q
<1>11. BestOpposite \in DOMAIN orders /\ orders[BestOpposite].home = l
  BY <1>9, <1>10
<1>12. levels[orders[BestOpposite].home].side = orders[BestOpposite].side
  BY <1>0, <1>11 DEF BookInv, Linked
<1> QED BY <1>4, <1>11, <1>12

\* The two executions of a trade are delivered one after the other.
LEMMA RespondTwo ==
    ASSUME NEW m, NEW n, responses' = <<m, n>>, Respond
    PROVE  to_me' = Deliver(Deliver(to_me, m), n)
<1>1. to_me' = FoldLeft(Deliver, to_me, <<m, n>>)
  BY DEF Respond
<1>2. FoldLeft(Deliver, to_me, <<m, n>>) = Deliver(Deliver(to_me, m), n)
  BY DeliverTwo, Zenon DEF Deliver
<1> QED BY <1>1, <1>2

\* Two orders trade.
LEMMA MatchAgreed ==
    ASSUME IInv, Agreed, Match, ~fault', Respond, ByBook, UNCHANGED to_exchange
    PROVE  Agreed'
<1> DEFINE a == aggressor
           b == aggressor'
           m == BestOpposite
           o == orders[m]
           matched == MatchedQty(a.leaves, o.qty)
           leaves == a.leaves - matched
           left == o.qty - matched
           p == Response("FILLED", a.client, a.oid, a.moid, a.side, o.price, matched, leaves)
           r == Response("FILLED", o.client, o.oid, m, o.side, o.price, matched, left)
           mine == Deliver(to_me, p)
           x == to_exchange
<1>0. BookInv /\ TypeOK /\ CanMatch
  BY DEF IInv, Match
<1>1. m \in DOMAIN orders /\ o.side = Opposite(a.side)
  BY <1>0, BestOppositeSide
<1>2. /\ a \in Aggressor /\ a.active /\ a.leaves > 0
      /\ o \in Order /\ m \in OrderNames
  BY <1>0, <1>1, ActiveAggressor DEF CanMatch, BookInv, BookTypeOK
<1>3. /\ a.leaves \in Nat /\ o.qty \in Nat /\ a.side \in Sides /\ o.side \in Sides
      /\ o.side # a.side /\ o.price \in Prices
      /\ \A s \in Sides : s = a.side \/ s = o.side
  BY <1>1, <1>2 DEF Aggressor, Order, Opposite, Sides
<1>4. /\ responses' = <<p, r>>
      /\ b = [a EXCEPT !.leaves = leaves]
      /\ \/ left > 0 /\ orders' = [orders EXCEPT ![m].qty = left]
         \/ left = 0 /\ RemoveOrder(m)
  BY DEF Match, Fault
<1>5. /\ b.active /\ b.client = a.client /\ b.side = a.side /\ b.oid = a.oid
      /\ b.price = a.price /\ b.leaves = leaves
  BY <1>2, <1>4 DEF Aggressor
<1>6. to_me' = Deliver(mine, r)
  <2>1. responses' = <<p, r>>
    BY <1>4
  <2> HIDE DEF p, r
  <2> QED BY <2>1, RespondTwo DEF mine
<1>7. \A s \in Sides :
         /\ s = a.side => Own(orders', s) = Own(orders, s)
                          /\ \A k \in Own(orders, s) : orders'[k] = orders[k]
         /\ o.client # Me => Own(orders', s) = Own(orders, s)
                          /\ \A k \in Own(orders, s) : orders'[k] = orders[k]
         /\ (s = o.side /\ o.client = Me) =>
              /\ m \in Own(orders, s)
              /\ \/ left = 0 /\ Own(orders', s) = Own(orders, s) \ {m}
                 \/ /\ left > 0 /\ Own(orders', s) = Own(orders, s)
                    /\ orders'[m].oid = o.oid /\ orders'[m].price = o.price
                    /\ orders'[m].qty = left
  <2> SUFFICES ASSUME NEW s \in Sides
               PROVE  /\ m \in Own(orders, s) <=> (s = o.side /\ o.client = Me)
                      /\ \A k \in Own(orders, s) : k # m => orders'[k] = orders[k]
                      /\ \/ left = 0 /\ Own(orders', s) = Own(orders, s) \ {m}
                         \/ /\ left > 0 /\ Own(orders', s) = Own(orders, s)
                            /\ orders'[m].oid = o.oid /\ orders'[m].price = o.price
                            /\ orders'[m].qty = left
    BY <1>3
  <2>1. m \in Own(orders, s) <=> (s = o.side /\ o.client = Me)
    BY <1>1 DEF Own
  <2> HIDE DEF left, m
  <2>2. CASE left > 0 /\ orders' = [orders EXCEPT ![m].qty = left]
    <3>1. /\ DOMAIN orders' = DOMAIN orders /\ orders'[m] = [orders[m] EXCEPT !.qty = left]
          /\ \A k \in DOMAIN orders : k # m => orders'[k] = orders[k]
      BY <1>1, <2>2
    <3>2. /\ orders'[m].oid = o.oid /\ orders'[m].price = o.price /\ orders'[m].qty = left
          /\ orders'[m].client = o.client /\ orders'[m].side = o.side
      BY <1>2, <3>1 DEF Order
    <3>3. Own(orders', s) = Own(orders, s)
      BY <1>1, <3>1, <3>2 DEF Own
    <3>4. \A k \in Own(orders, s) : k # m => orders'[k] = orders[k]
      BY <3>1 DEF Own
    <3> QED BY <2>1, <2>2, <3>2, <3>3, <3>4
  <2>3. CASE left = 0 /\ RemoveOrder(m)
    <3>1. /\ \A k \in Own(orders', s) : orders'[k] = orders[k]
          /\ Own(orders', s) = Own(orders, s) \ {m}
      BY <1>0, <1>1, <2>3, OwnWithout
    <3> QED BY <2>1, <2>3, <3>1
  <2> QED BY <1>4, <2>2, <2>3
<1>8. /\ leaves \in Nat /\ left \in Nat /\ matched \in Nat
      /\ leaves <= a.leaves /\ left <= o.qty
  BY <1>3 DEF MatchedQty
<1> HIDE DEF matched, leaves, left, m
<1>9. /\ p.type = "FILLED" /\ p.client = a.client /\ p.side = a.side /\ p.leaves = leaves
      /\ p.client = Me => p \in Answer
  BY <1>2, <1>3, <1>8 DEF Response, Answer, Aggressor
<1>10. /\ r.type = "FILLED" /\ r.client = o.client /\ r.side = o.side /\ r.leaves = left
       /\ r.client = Me => r \in Answer
  BY <1>2, <1>3, <1>8 DEF Response, Answer, Order
<1> HIDE DEF p, r, o
<1>11. /\ to_me \in Seq(Answer) /\ x \in Seq(Sent) /\ om \in [Sides -> OmOrder]
       /\ Tied(orders, a, x, to_me, om)
  BY DEF Agreed
<1>12. /\ mine \in Seq(Answer)
       /\ \A s \in Sides : \A q, e :
            (p.client # Me \/ p.side # s) /\ Answers(s, to_me, q, e) => Answers(s, mine, q, e)
  BY <1>9, <1>11, DeliverOther
<1>13. /\ Deliver(mine, r) \in Seq(Answer)
       /\ \A s \in Sides : \A q, e :
            (r.client # Me \/ r.side # s) /\ Answers(s, mine, q, e)
               => Answers(s, Deliver(mine, r), q, e)
  BY <1>10, <1>12, DeliverOther
<1>14. p.client = Me => mine = Append(to_me, p)
  BY DEF Deliver
<1>15. r.client = Me => Deliver(mine, r) = Append(mine, r)
  BY DEF Deliver
<1> HIDE DEF mine, x, a, b
<1>16. ASSUME NEW s \in Sides, NEW e \in AnyTerms, NEW q \in Seq(Answer), NEW u \in Answer,
              Answers(s, q, om[s], e), u.type = "FILLED", u.side = s, e.qty > 0,
              u.leaves \in Nat, u.leaves <= e.qty
       PROVE  /\ Terms(e.oid, e.price, u.leaves) \in AnyTerms
              /\ Answers(s, Append(q, u), om[s], Terms(e.oid, e.price, u.leaves))
  <2> DEFINE d == Terms(e.oid, e.price, u.leaves)
  <2>1. d \in AnyTerms /\ d.oid = e.oid /\ d.price = e.price /\ d.qty = u.leaves
    BY <1>16 DEF Terms, AnyTerms
  <2> HIDE DEF d
  <2>2. CASE u.leaves = 0
    <3>1. Final(u)
      BY <1>16, <2>2 DEF Final
    <3> QED BY <1>16, <2>1, <2>2, <3>1, AnswersFinal DEF d
  <2>3. CASE u.leaves # 0
    <3>1. d.qty > 0 /\ d.qty <= e.qty /\ om[s] \in OmOrder
      BY <1>11, <1>16, <2>1, <2>3
    <3> QED BY <1>16, <2>1, <3>1, AnswersFilled DEF d
  <2> QED BY <2>2, <2>3
<1>17. ASSUME NEW s \in Sides
       PROVE  \E e \in AnyTerms : /\ Standing(s, orders', b, x, e)
                                  /\ Answers(s, Deliver(mine, r), om[s], e)
  <2>1. PICK e \in AnyTerms : Standing(s, orders, a, x, e) /\ Answers(s, to_me, om[s], e)
    BY <1>11 DEF Tied
  <2>2. CASE s = a.side /\ a.client = Me
    <3> DEFINE d == Terms(e.oid, e.price, leaves)
    <3>1. Working(a, s)
      BY <1>2, <2>2 DEF Working
    <3>2. Standing(s, orders, b, x, d) /\ e.qty = a.leaves /\ e.qty > 0
      BY <1>5, <1>8, <2>1, <3>1, StandingWorks
    <3>3. d \in AnyTerms /\ Answers(s, mine, om[s], d)
      BY <1>8, <1>9, <1>11, <1>14, <1>16, <2>1, <2>2, <3>2
    <3> HIDE DEF d
    <3>4. Standing(s, orders', b, x, d)
      BY <1>7, <2>2, <3>2, StandingFrame
    <3>5. Answers(s, Deliver(mine, r), om[s], d)
      BY <1>3, <1>10, <1>13, <2>2, <3>3
    <3> QED BY <3>3, <3>4, <3>5
  <2>3. CASE s = a.side /\ a.client # Me
    <3>1. ~Working(a, s) /\ ~Working(b, s)
      BY <1>5, <2>3 DEF Working
    <3>2. Standing(s, orders', b, x, e)
      BY <1>7, <2>1, <2>3, <3>1, StandingFrame
    <3>3. Answers(s, Deliver(mine, r), om[s], e)
      BY <1>3, <1>9, <1>10, <1>12, <1>13, <2>1, <2>3
    <3> QED BY <3>2, <3>3
  <2>4. CASE s = o.side
    <3>1. ~Working(a, s) /\ ~Working(b, s)
      BY <1>3, <1>5, <2>4 DEF Working
    <3>2. Standing(s, orders, b, x, e)
      BY <2>1, <3>1, StandingFrame
    <3>3. Answers(s, mine, om[s], e)
      BY <1>3, <1>9, <1>12, <2>1, <2>4
    <3>4. CASE o.client # Me
      <4>1. Standing(s, orders', b, x, e)
        BY <1>7, <3>1, <3>2, <3>4, StandingFrame
      <4>2. Answers(s, Deliver(mine, r), om[s], e)
        BY <1>10, <1>13, <3>3, <3>4
      <4> QED BY <4>1, <4>2
    <3>5. CASE o.client = Me
      <4> DEFINE d == Terms(e.oid, e.price, left)
      <4>1. Standing(s, orders', b, x, d) /\ e.qty = o.qty /\ e.qty > 0
        BY <1>7, <1>8, <2>4, <3>2, <3>5, StandingRests DEF o
      <4>2. d \in AnyTerms /\ Answers(s, Deliver(mine, r), om[s], d)
        BY <1>8, <1>10, <1>12, <1>15, <1>16, <2>4, <3>3, <3>5, <4>1
      <4> QED BY <4>1, <4>2
    <3> QED BY <3>4, <3>5
  <2> QED BY <1>3, <2>2, <2>3, <2>4
<1> QED BY <1>6, <1>11, <1>13, <1>17, BookAgreed DEF x, b

\* What is left joins the book, or nothing is left.
LEMMA FinishAgreed ==
    ASSUME IInv, Agreed, Finish, ~fault', Respond, ByBook, UNCHANGED to_exchange
    PROVE  Agreed'
<1> DEFINE a == aggressor
<1>1. a \in Aggressor /\ a.active
  BY ActiveAggressor DEF Finish, IInv
<1>2. /\ aggressor' = NoAggressor /\ responses' = <<>>
      /\ \/ a.leaves = 0 /\ orders' = orders
         \/ /\ a.leaves > 0
            /\ \E o : /\ orders' = With(orders, a.moid, o)
                       /\ o.client = a.client /\ o.side = a.side /\ o.oid = a.oid
                       /\ o.price = a.price /\ o.qty = a.leaves
  <2>1. aggressor' = NoAggressor /\ responses' = <<>>
    BY DEF Finish, Fault
  <2>2. CASE a.leaves = 0 /\ UNCHANGED book
    BY <2>1, <2>2 DEF book
  <2>3. CASE a.leaves > 0 /\ ~Fault
    <3> DEFINE new == [client |-> a.client, oid |-> a.oid, side |-> a.side,
                       price |-> a.price, qty |-> a.leaves,
                       priority |-> GetOrderPriorityAtPriceLevel(a.side, a.price),
                       home |-> 0]
    <3>1. a.leaves # 0
      BY <1>1, <2>3 DEF Aggressor
    <3>2. AddOrder(a.moid, new)
      BY <2>3, <3>1 DEF Finish
    <3>3. \E home : orders' = With(orders, a.moid, [new EXCEPT !.home = home])
      BY <3>2 DEF AddOrder
    <3>4. PICK home : orders' = With(orders, a.moid, [new EXCEPT !.home = home])
      BY <3>3
    <3> DEFINE o == [new EXCEPT !.home = home]
    <3>5. /\ o.client = a.client /\ o.side = a.side /\ o.oid = a.oid
          /\ o.price = a.price /\ o.qty = a.leaves
      OBVIOUS
    <3>6. orders' = With(orders, a.moid, o)
      BY <3>4
    <3> HIDE DEF o
    <3> QED BY <2>1, <2>3, <3>5, <3>6
  <2> QED BY <2>2, <2>3 DEF Finish, Fault
<1>3. to_me' = to_me
  BY <1>2, DeliverNone DEF Respond
<1>4. /\ to_me \in Seq(Answer) /\ to_exchange \in Seq(Sent)
      /\ Tied(orders, a, to_exchange, to_me, om)
  BY DEF Agreed
<1>5. \A s \in Sides : ~Working(aggressor', s)
  BY <1>2 DEF Working, NoAggressor
<1>6. a.moid \notin DOMAIN orders
  <2>1. a.moid \in Int
    BY <1>1 DEF Aggressor, OrderNames
  <2> QED BY <1>1, <2>1 DEF IInv, Fresh
<1> HIDE DEF a
<1>7. ASSUME NEW s \in Sides
      PROVE  \E e \in AnyTerms : /\ Standing(s, orders', aggressor', to_exchange, e)
                                 /\ Answers(s, to_me, om[s], e)
  <2>1. PICK e \in AnyTerms : /\ Standing(s, orders, a, to_exchange, e)
                              /\ Answers(s, to_me, om[s], e)
    BY <1>4 DEF Tied
  <2>2. CASE a.leaves = 0 /\ orders' = orders
    <3>1. ~Working(a, s)
      BY <2>2 DEF Working
    <3>2. Standing(s, orders, aggressor', to_exchange, e)
      BY <1>5, <2>1, <3>1, StandingFrame
    <3> QED BY <2>1, <2>2, <3>2
  <2>3. CASE /\ a.leaves > 0
             /\ \E o : /\ orders' = With(orders, a.moid, o)
                       /\ o.client = a.client /\ o.side = a.side /\ o.oid = a.oid
                       /\ o.price = a.price /\ o.qty = a.leaves
    <3>1. PICK o : orders' = With(orders, a.moid, o)
                   /\ o.client = a.client /\ o.side = a.side /\ o.oid = a.oid
                   /\ o.price = a.price /\ o.qty = a.leaves
      BY <2>3
    <3>2. /\ o.client = a.client /\ o.side = a.side /\ o.oid = a.oid
          /\ o.price = a.price /\ o.qty = a.leaves
      BY <3>1
    <3>3. /\ DOMAIN orders' = DOMAIN orders \cup {a.moid} /\ orders'[a.moid] = o
          /\ \A k \in DOMAIN orders : orders'[k] = orders[k]
      BY <1>6, <3>1 DEF With
    <3>4. CASE Working(a, s)
      <4>1. Own(orders', s) = Own(orders, s) \cup {a.moid}
        BY <3>2, <3>3, <3>4 DEF Own, Working
      <4>2. Standing(s, orders', aggressor', to_exchange, e)
        BY <1>5, <2>1, <3>2, <3>3, <3>4, <4>1, StandingJoins
      <4> QED BY <2>1, <4>2
    <3>5. CASE ~Working(a, s)
      <4>1. ~(a.client = Me /\ a.side = s)
        BY <1>1, <2>3, <3>5 DEF Working, a
      <4>2. Own(orders', s) = Own(orders, s)
        BY <1>6, <3>2, <3>3, <4>1 DEF Own
      <4>3. \A k \in Own(orders, s) : orders'[k] = orders[k]
        BY <3>3 DEF Own
      <4>4. Standing(s, orders', aggressor', to_exchange, e)
        BY <1>5, <2>1, <3>5, <4>2, <4>3, StandingFrame
      <4> QED BY <2>1, <4>4
    <3> QED BY <3>4, <3>5
  <2> QED BY <1>2, <2>2, <2>3 DEF a
<1> QED BY <1>3, <1>4, <1>7, BookAgreed

-----------------------------------------------------------------------------
\* The invariant is kept.

\* The quotes the algorithms hand to move_orders.
LEMMA Quotes ==
    ASSUME NEW bbo \in Bbos,
           \/ OnOrderBookUpdate(bbo)
           \/ \E side \in Sides, qty \in Quantities : OnTradeUpdate(bbo, side, qty)
    PROVE  /\ \E bid, ask \in Prices \cup {NoPrice} : MoveOrders(bid, ask)
           /\ UNCHANGED <<vars, algo, to_me>>
<1>1. /\ bbo.bid \in Int /\ bbo.ask \in Int
      /\ (bbo.bid # NoPrice /\ bbo.ask # NoPrice) =>
            {bbo.bid - 1, bbo.bid, bbo.ask, bbo.ask + 1} \subseteq Prices \cup {NoPrice}
  BY TradingAssumption
<1>2. CASE OnOrderBookUpdate(bbo)
  <2> DEFINE all == bbo.bid_qty + bbo.ask_qty
             gap == bbo.ask - bbo.bid
             bid == bbo.bid - (IF AtLeast(gap, bbo.bid_qty, all) THEN 0 ELSE 1)
             ask == bbo.ask + (IF AtLeast(gap, bbo.ask_qty, all) THEN 0 ELSE 1)
  <2>1. /\ bbo.bid # NoPrice /\ bbo.ask # NoPrice /\ MoveOrders(bid, ask)
        /\ UNCHANGED <<vars, algo, to_me>>
    BY <1>2 DEF OnOrderBookUpdate, MakerQuotes
  <2>2. bid \in {bbo.bid, bbo.bid - 1} /\ ask \in {bbo.ask, bbo.ask + 1}
    BY <1>1
  <2> HIDE DEF bid, ask
  <2>3. bid \in Prices \cup {NoPrice} /\ ask \in Prices \cup {NoPrice}
    BY <1>1, <2>1, <2>2
  <2> QED BY <2>1, <2>3
<1>3. CASE \E side \in Sides, qty \in Quantities : OnTradeUpdate(bbo, side, qty)
  <2>1. /\ bbo.bid # NoPrice /\ bbo.ask # NoPrice
        /\ MoveOrders(bbo.ask, NoPrice) \/ MoveOrders(NoPrice, bbo.bid)
        /\ UNCHANGED <<vars, algo, to_me>>
    BY <1>3 DEF OnTradeUpdate, TakerFollows
  <2>2. bbo.ask \in Prices \cup {NoPrice} /\ bbo.bid \in Prices \cup {NoPrice}
    BY <1>1, <2>1
  <2> QED BY <2>1, <2>2
<1> QED BY <1>2, <1>3

\* Requests that are taken stay requests.
LEMMA TakenSent ==
    ASSUME Agreed, to_exchange # <<>>
    PROVE  Head(to_exchange) \in Sent /\ Tail(to_exchange) \in Seq(Sent)
<1>1. to_exchange \in Seq(Sent)
  BY DEF Agreed
<1> QED BY <1>1

\* A step of the composition is a step of the book, or leaves it alone.
LEMMA TradingBookStep == TInv /\ [TNext]_tvars => [Next]_vars
<1> SUFFICES ASSUME TInv, [TNext]_tvars PROVE Next \/ UNCHANGED vars
  OBVIOUS
<1>1. CASE UNCHANGED tvars
  BY <1>1 DEF tvars
<1>2. CASE OnOrderUpdate
  BY <1>2 DEF OnOrderUpdate
<1>3. CASE TakeRequest
  <2> DEFINE r == Head(to_exchange)
  <2>1. /\ \/ r.type = "NEW" /\ Add(Me, r.oid, r.side, r.price, r.qty)
           \/ r.type = "CANCEL" /\ Cancel(Me, r.oid)
        /\ to_exchange # <<>>
    BY <1>3 DEF TakeRequest
  <2>2. Agreed
    BY <2>1 DEF TInv, Add, Cancel, Idle
  <2>3. r \in Sent /\ Me \in Clients
    BY <2>1, <2>2, TakenSent, TradingAssumption
  <2> HIDE DEF r
  <2>4. /\ r.oid \in OrderIds
        /\ r.type = "NEW" => r.side \in Sides /\ r.price \in Prices /\ r.qty \in Quantities
    BY <2>3, TradingAssumption DEF Sent
  <2> QED BY <2>1, <2>3, <2>4 DEF Next, Request
<1>4. CASE OtherRequest
  <2>1. PICK c \in Clients \ {Me}, oid \in OrderIds :
           \/ Cancel(c, oid)
           \/ \E o \in OtherOrders : Add(c, oid, o.side, o.price, o.qty)
    BY <1>4 DEF OtherRequest
  <2>2. \A o \in OtherOrders : o.side \in Sides /\ o.price \in Prices /\ o.qty \in Quantities
    BY TradingAssumption
  <2> QED BY <2>1, <2>2 DEF Next, Request
<1>5. CASE GoOn
  BY <1>5 DEF GoOn, Next
<1>6. CASE \E bbo \in Bbos :
             \/ OnOrderBookUpdate(bbo)
             \/ \E side \in Sides, qty \in Quantities : OnTradeUpdate(bbo, side, qty)
  BY <1>6, Quotes
<1> QED BY <1>1, <1>2, <1>3, <1>4, <1>5, <1>6 DEF TNext

\* The order manager and the exchange stay in agreement.
LEMMA AgreedStep ==
    ASSUME TInv, [TNext]_tvars, ~fault'
    PROVE  Agreed'
<1>0. ~fault /\ IInv /\ Agreed
  <2>1. IInv /\ (fault \/ Agreed)
    BY DEF TInv
  <2>2. ASSUME fault PROVE FALSE
    <3>1. ~Idle
      BY <2>2 DEF Idle
    <3>2. ~OtherRequest /\ ~TakeRequest /\ ~GoOn
      BY <2>2, <3>1 DEF OtherRequest, TakeRequest, GoOn, Add, Cancel, Match, Finish
    <3>3. UNCHANGED vars
      BY <3>2, Quotes DEF TNext, OnOrderUpdate, tvars
    <3> QED BY <2>2, <3>3 DEF vars
  <2> QED BY <2>1, <2>2
<1>1. CASE UNCHANGED tvars
  BY <1>0, <1>1 DEF Agreed, tvars, vars, book
<1>2. CASE OnOrderUpdate
  BY <1>0, <1>2, OnOrderUpdateAgreed
<1>3. CASE TakeRequest
  <2> DEFINE r == Head(to_exchange)
  <2>1. /\ \/ r.type = "NEW" /\ Add(Me, r.oid, r.side, r.price, r.qty)
           \/ r.type = "CANCEL" /\ Cancel(Me, r.oid)
        /\ to_exchange # <<>> /\ to_exchange' = Tail(to_exchange) /\ Respond /\ ByBook
    BY <1>3 DEF TakeRequest, ByBook
  <2>2. r \in Sent /\ to_exchange' \in Seq(Sent) /\ Me \in Clients /\ to_exchange \in Seq(Sent)
    BY <1>0, <2>1, TakenSent, TradingAssumption DEF Agreed
  <2>3. CASE r.type = "NEW" /\ Add(Me, r.oid, r.side, r.price, r.qty)
    BY <1>0, <2>1, <2>3, AddMineAgreed
  <2>4. CASE r.type = "CANCEL" /\ Cancel(Me, r.oid)
    <3>1. r.oid \in OrderIds
      <4> HIDE DEF r
      <4> QED BY <2>2 DEF Sent
    <3>2. \A s \in Sides : \A e :
             Standing(s, orders, aggressor, to_exchange, e)
               => Standing(s, orders, aggressor, to_exchange', e)
      BY <2>1, <2>2, <2>4, StandingTake
    <3> QED BY <1>0, <2>1, <2>2, <2>4, <3>1, <3>2, CancelAgreed
  <2> QED BY <2>1, <2>3, <2>4
<1>4. CASE OtherRequest
  <2>1. PICK c \in Clients \ {Me}, oid \in OrderIds :
           \/ Cancel(c, oid)
           \/ \E o \in OtherOrders : Add(c, oid, o.side, o.price, o.qty)
    BY <1>4 DEF OtherRequest
  <2>2. Respond /\ ByBook /\ to_exchange' = to_exchange
    BY <1>4 DEF OtherRequest, ByBook
  <2>3. to_exchange' \in Seq(Sent)
    BY <1>0, <2>2 DEF Agreed
  <2>4. CASE Cancel(c, oid)
    BY <1>0, <2>2, <2>3, <2>4, CancelAgreed
  <2>5. CASE \E o \in OtherOrders : Add(c, oid, o.side, o.price, o.qty)
    BY <1>0, <2>2, <2>5, AddOtherAgreed
  <2> QED BY <2>1, <2>4, <2>5
<1>5. CASE GoOn
  <2>1. Respond /\ ByBook /\ to_exchange' = to_exchange /\ (Match \/ Finish)
    BY <1>5 DEF GoOn, ByBook
  <2> QED BY <1>0, <2>1, MatchAgreed, FinishAgreed
<1>6. CASE \E bbo \in Bbos :
             \/ OnOrderBookUpdate(bbo)
             \/ \E side \in Sides, qty \in Quantities : OnTradeUpdate(bbo, side, qty)
  <2>1. /\ \E bid, ask \in Prices \cup {NoPrice} : MoveOrders(bid, ask)
        /\ UNCHANGED <<vars, algo, to_me>>
    BY <1>6, Quotes
  <2> QED BY <1>0, <2>1, MoveOrdersAgreed
<1> QED BY <1>1, <1>2, <1>3, <1>4, <1>5, <1>6 DEF TNext

\* The composition keeps its invariant.
LEMMA TradingInvariance == TSpec => []TInv
<1>1. TInv /\ [TNext]_tvars => TInv'
  <2> SUFFICES ASSUME TInv, [TNext]_tvars PROVE TInv'
    OBVIOUS
  <2>1. IInv'
    BY TradingBookStep, NextInv DEF TInv
  <2>2. fault' \/ Agreed'
    BY AgreedStep
  <2> QED BY <2>1, <2>2 DEF TInv
<1> QED BY <1>1, TInitInv, PTL DEF TSpec

-----------------------------------------------------------------------------
\* The order manager loses no order: whatever answers are late and however fills,
\* cancels and new orders cross, what the exchange has of this client is what
\* order_manager has for that side, with no less left than there really is.
THEOREM TradingTracked == TSpec => []Tracked
<1>1. TInv => Tracked
  <2> SUFFICES ASSUME TInv, ~fault, NEW u \in Unfinished, u.qty > 0
               PROVE  /\ om[u.side].oid = u.oid /\ om[u.side].price = u.price
                      /\ om[u.side].state \in {"PENDING_NEW", "LIVE"}
                      /\ om[u.side].qty >= u.qty
    BY DEF Tracked
  <2>0. /\ TypeOK /\ to_exchange \in Seq(Sent)
        /\ Tied(orders, aggressor, to_exchange, to_me, om)
    BY DEF TInv, IInv, Agreed
  <2>1. ASSUME NEW s \in Sides, s = u.side,
               NEW e \in AnyTerms, Standing(s, orders, aggressor, to_exchange, e),
               Answers(s, to_me, om[s], e), e = Terms(u.oid, u.price, u.qty)
        PROVE  /\ om[u.side].oid = u.oid /\ om[u.side].price = u.price
               /\ om[u.side].state \in {"PENDING_NEW", "LIVE"}
               /\ om[u.side].qty >= u.qty
    <3>1. e.oid = u.oid /\ e.price = u.price /\ e.qty = u.qty /\ e.qty \in Nat
      BY <2>1 DEF Terms, AnyTerms
    <3> QED BY <2>1, <3>1 DEF Answers, Open
  <2>2. \/ \E m \in DOMAIN orders : /\ orders[m].client = Me
                                    /\ u = [oid |-> orders[m].oid, side |-> orders[m].side,
                                            price |-> orders[m].price, qty |-> orders[m].qty]
        \/ /\ aggressor.active /\ aggressor.client = Me
           /\ u = [oid |-> aggressor.oid, side |-> aggressor.side,
                   price |-> aggressor.price, qty |-> aggressor.leaves]
        \/ \E k \in DOMAIN to_exchange :
              LET r == to_exchange[k]
              IN  /\ r.type = "NEW"
                  /\ u = [oid |-> r.oid, side |-> r.side, price |-> r.price, qty |-> r.qty]
    BY DEF Unfinished, Range
  <2>3. CASE \E m \in DOMAIN orders : /\ orders[m].client = Me
                                      /\ u = [oid |-> orders[m].oid, side |-> orders[m].side,
                                              price |-> orders[m].price, qty |-> orders[m].qty]
    <3>1. PICK m \in DOMAIN orders : /\ orders[m].client = Me
                                     /\ u = [oid |-> orders[m].oid, side |-> orders[m].side,
                                             price |-> orders[m].price, qty |-> orders[m].qty]
      BY <2>3
    <3>2. /\ u.side = orders[m].side /\ u.side \in Sides
          /\ Terms(u.oid, u.price, u.qty)
               = Terms(orders[m].oid, orders[m].price, orders[m].qty)
      BY <2>0, <3>1 DEF TypeOK, BookTypeOK, Order
    <3> DEFINE s == u.side
    <3>3. PICK e \in AnyTerms : /\ Standing(s, orders, aggressor, to_exchange, e)
                                /\ Answers(s, to_me, om[s], e)
      BY <2>0, <3>2 DEF Tied
    <3>4. m \in Own(orders, s)
      BY <3>1, <3>2 DEF Own
    <3>5. e = Terms(orders[m].oid, orders[m].price, orders[m].qty)
      BY <3>3, <3>4 DEF Standing
    <3> QED BY <2>1, <3>2, <3>3, <3>5
  <2>4. CASE /\ aggressor.active /\ aggressor.client = Me
             /\ u = [oid |-> aggressor.oid, side |-> aggressor.side,
                     price |-> aggressor.price, qty |-> aggressor.leaves]
    <3>1. /\ u.side = aggressor.side /\ u.side \in Sides /\ aggressor.leaves > 0
          /\ Terms(u.oid, u.price, u.qty)
               = Terms(aggressor.oid, aggressor.price, aggressor.leaves)
      BY <2>0, <2>4, ActiveAggressor DEF Aggressor
    <3> DEFINE s == u.side
    <3>2. PICK e \in AnyTerms : /\ Standing(s, orders, aggressor, to_exchange, e)
                                /\ Answers(s, to_me, om[s], e)
      BY <2>0, <3>1 DEF Tied
    <3>3. Working(aggressor, s)
      BY <2>4, <3>1 DEF Working
    <3>4. e = Terms(aggressor.oid, aggressor.price, aggressor.leaves)
      BY <3>2, <3>3 DEF Standing
    <3> QED BY <2>1, <3>1, <3>2, <3>4
  <2>5. CASE \E k \in DOMAIN to_exchange :
                LET r == to_exchange[k]
                IN  /\ r.type = "NEW"
                    /\ u = [oid |-> r.oid, side |-> r.side, price |-> r.price, qty |-> r.qty]
    <3>1. PICK k \in DOMAIN to_exchange :
             /\ to_exchange[k].type = "NEW"
             /\ u = [oid |-> to_exchange[k].oid, side |-> to_exchange[k].side,
                     price |-> to_exchange[k].price, qty |-> to_exchange[k].qty]
      BY <2>5
    <3> DEFINE r == to_exchange[k]
    <3>2. r \in Sent
      BY <2>0
    <3>3. /\ u.side = r.side /\ u.side \in Sides
          /\ Terms(u.oid, u.price, u.qty) = Terms(r.oid, r.price, r.qty)
      BY <3>1, <3>2 DEF Sent
    <3> DEFINE s == u.side
    <3>4. PICK e \in AnyTerms : /\ Standing(s, orders, aggressor, to_exchange, e)
                                /\ Answers(s, to_me, om[s], e)
      BY <2>0, <3>3 DEF Tied
    <3>5. k \in Asked(to_exchange, s)
      BY <3>1, <3>3 DEF Asked
    <3>6. e = Terms(r.oid, r.price, r.qty)
      BY <3>4, <3>5 DEF Standing
    <3> QED BY <2>1, <3>3, <3>4, <3>6
  <2> QED BY <2>2, <2>3, <2>4, <2>5
<1> QED BY <1>1, TradingInvariance, PTL

\* Once nothing is on its way, what order_manager takes for live is exactly what
\* rests in the book, with the quantity that rests.
THEOREM TradingAgreement == TSpec => []Agreement
<1>1. TInv => Agreement
  <2> SUFFICES ASSUME TInv, Idle, to_exchange = <<>>, to_me = <<>>
               PROVE  {[oid |-> om[side].oid, side |-> side, price |-> om[side].price,
                        qty |-> om[side].qty] :
                          side \in {s \in Sides : om[s].state \notin {"INVALID", "DEAD"}}}
                        = Unfinished
    BY DEF Agreement
  <2>0. /\ TypeOK /\ ~aggressor.active /\ om \in [Sides -> OmOrder]
        /\ Tied(orders, aggressor, to_exchange, to_me, om)
    BY DEF TInv, IInv, Agreed, Idle
  <2>1. \A s \in Sides : /\ ~Working(aggressor, s) /\ Asked(to_exchange, s) = {}
                         /\ Of(to_me, s) = {} /\ Ends(to_me, s) = {} /\ Fills(to_me, s) = {}
    BY <2>0 DEF Working, Asked, Of, Ends, Fills
  <2> DEFINE kept(m) == [oid |-> orders[m].oid, side |-> orders[m].side,
                         price |-> orders[m].price, qty |-> orders[m].qty]
             known(s) == [oid |-> om[s].oid, side |-> s, price |-> om[s].price,
                          qty |-> om[s].qty]
             resting == {m \in DOMAIN orders : orders[m].client = Me}
             live == {s \in Sides : om[s].state \notin {"INVALID", "DEAD"}}
  <2>2. Unfinished = {kept(m) : m \in resting}
    <3>1. Range(to_exchange) = {}
      BY DEF Range
    <3> QED BY <2>0, <3>1 DEF Unfinished
  <2>3. ASSUME NEW s \in live
        PROVE  \E m \in resting : known(s) = kept(m)
    <3>1. PICK e \in AnyTerms : /\ Standing(s, orders, aggressor, to_exchange, e)
                                /\ Answers(s, to_me, om[s], e)
      BY <2>0 DEF Tied
    <3>2. e.qty > 0 /\ om[s].oid = e.oid /\ om[s].price = e.price /\ om[s].qty = e.qty
      BY <2>1, <3>1 DEF Answers, Closed
    <3>3. e.qty # 0
      BY <3>2 DEF AnyTerms
    <3>4. PICK m \in DOMAIN orders :
             Own(orders, s) = {m} /\ e = Terms(orders[m].oid, orders[m].price, orders[m].qty)
      BY <2>1, <3>1, <3>3 DEF Standing
    <3>5. m \in resting /\ orders[m].side = s
      BY <3>4 DEF Own
    <3>6. known(s) = kept(m)
      BY <3>2, <3>4, <3>5 DEF Terms
    <3> QED BY <3>5, <3>6
  <2>4. ASSUME NEW m \in resting
        PROVE  \E s \in live : kept(m) = known(s)
    <3> DEFINE s == orders[m].side
    <3>1. s \in Sides /\ m \in Own(orders, s)
      BY <2>0 DEF TypeOK, BookTypeOK, Order, Own
    <3>2. PICK e \in AnyTerms : /\ Standing(s, orders, aggressor, to_exchange, e)
                                /\ Answers(s, to_me, om[s], e)
      BY <2>0, <3>1 DEF Tied
    <3>3. e.qty > 0 /\ e = Terms(orders[m].oid, orders[m].price, orders[m].qty)
      BY <3>1, <3>2 DEF Standing
    <3>4. e.qty # 0
      BY <3>3 DEF AnyTerms
    <3>5. /\ om[s].oid = e.oid /\ om[s].price = e.price /\ om[s].qty = e.qty
          /\ om[s].state \in Open
      BY <2>1, <3>1, <3>2, <3>4 DEF Answers
    <3>6. s \in live /\ kept(m) = known(s)
      BY <3>1, <3>3, <3>5 DEF Terms, Open
    <3> QED BY <3>6
  <2> HIDE DEF kept, known, resting, live
  <2>5. {known(s) : s \in live} = Unfinished
    BY <2>2, <2>3, <2>4
  <2> QED BY <2>5 DEF known, live
<1> QED BY <1>1, TradingInvariance, PTL
================================================================================
