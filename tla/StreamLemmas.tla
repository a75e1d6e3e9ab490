----------------------------- MODULE StreamLemmas ----------------------------
(***************************************************************************)
(* What a read callback does, for the proofs about order_server and        *)
(* order_gateway: a fold runs one iteration of the loop per row of the     *)
(* inbound buffer, and if nothing was left there by an earlier read, the   *)
(* rows are the messages that were sent next.                              *)
(***************************************************************************)
EXTENDS TcpStream, SequenceLemmas

CONSTANT op(_, _)    \* one iteration: what was there, and a row or message

-----------------------------------------------------------------------------
\* Folds.

\* The defining equation of the function a fold is made of.
Iterates(g, base, seq, n) ==
    g = [s \in SUBSET (1 .. n) |->
           IF s = {} THEN base ELSE op(g[s \ {Max(s)}], seq[Max(s)])]

\* The upper bound of an interval is the maximum of a set that has it.
LEMMA MaxIs ==
    ASSUME NEW n \in Nat, NEW s \in SUBSET (1 .. n), n \in s
    PROVE  Max(s) = n
<1>1. \A y \in s : n >= y
  OBVIOUS
<1>2. Max(s) \in s /\ \A y \in s : Max(s) >= y
  BY <1>1 DEF Max
<1> DEFINE x == Max(s)
<1> HIDE DEF x
<1>3. x \in 1 .. n /\ x >= n /\ n >= x
  BY <1>1, <1>2 DEF x
<1>4. x = n
  BY <1>3
<1> QED BY <1>4 DEF x

\* Such a function exists for every length.
LEMMA IteratesExists ==
    ASSUME NEW base, NEW seq
    PROVE  \A n \in Nat : \E g : Iterates(g, base, seq, n)
<1>1. \E g : Iterates(g, base, seq, 0)
  <2> DEFINE g == [s \in SUBSET (1 .. 0) |-> base]
  <2>1. \A s \in SUBSET (1 .. 0) : s = {}
    OBVIOUS
  <2>2. Iterates(g, base, seq, 0)
    BY <2>1 DEF Iterates
  <2> QED BY <2>2
<1>2. ASSUME NEW n \in Nat, NEW g, Iterates(g, base, seq, n)
      PROVE  \E h : Iterates(h, base, seq, n + 1)
  <2> DEFINE h == [s \in SUBSET (1 .. n + 1) |->
                     IF n + 1 \in s THEN op(g[s \ {n + 1}], seq[n + 1]) ELSE g[s]]
  <2>1. ASSUME NEW s \in SUBSET (1 .. n + 1)
        PROVE  h[s] = IF s = {} THEN base ELSE op(h[s \ {Max(s)}], seq[Max(s)])
    <3>1. CASE n + 1 \in s
      <4>1. Max(s) = n + 1
        BY <3>1, MaxIs
      <4>2. s \ {n + 1} \in SUBSET (1 .. n + 1) /\ n + 1 \notin s \ {n + 1}
        OBVIOUS
      <4>3. h[s \ {n + 1}] = g[s \ {n + 1}]
        BY <4>2
      <4> QED BY <3>1, <4>1, <4>3
    <3>2. CASE n + 1 \notin s
      <4>1. s \in SUBSET (1 .. n)
        BY <3>2
      <4>2. h[s] = g[s] /\ h[s \ {Max(s)}] = g[s \ {Max(s)}]
        BY <3>2
      <4>3. g[s] = IF s = {} THEN base ELSE op(g[s \ {Max(s)}], seq[Max(s)])
        BY <1>2, <4>1 DEF Iterates
      <4> QED BY <4>2, <4>3
    <3> QED BY <3>1, <3>2
  <2>2. h = [s \in SUBSET (1 .. n + 1) |-> h[s]]
    OBVIOUS
  <2> HIDE DEF h
  <2>3. Iterates(h, base, seq, n + 1)
    BY <2>1, <2>2 DEF Iterates
  <2> QED BY <2>3
<1> DEFINE T == {n \in Nat : ~\E g : Iterates(g, base, seq, n)}
<1>3. T = {}
  <2> SUFFICES ASSUME T # {} PROVE FALSE
    OBVIOUS
  <2>1. PICK n \in T : \A k \in T : n <= k
    BY LeastElement
  <2>2. n # 0
    BY <1>1
  <2>3. n - 1 \in Nat /\ n - 1 \notin T /\ (n - 1) + 1 = n
    BY <2>1, <2>2
  <2>4. \E g : Iterates(g, base, seq, n - 1)
    BY <2>3
  <2>5. \E g : Iterates(g, base, seq, n)
    BY <2>3, <2>4, <1>2
  <2> QED BY <2>5
<1> QED BY <1>3

\* FoldLeft runs through the states h[0], h[1], ... of a loop over the sequence.
LEMMA FoldSteps ==
    ASSUME NEW S, NEW seq \in Seq(S), NEW base
    PROVE  \E h : /\ h[0] = base
                  /\ \A i \in 1 .. Len(seq) : h[i] = op(h[i - 1], seq[i])
                  /\ FoldLeft(op, base, seq) = h[Len(seq)]
<1> DEFINE n == Len(seq)
           g == CHOOSE f : Iterates(f, base, seq, n)
           h == [i \in 0 .. n |-> g[1 .. i]]
<1>1. n \in Nat /\ DOMAIN seq = 1 .. n
  OBVIOUS
<1>2. FoldLeft(op, base, seq) = g[1 .. n]
  BY <1>1 DEF FoldLeft, MapThenFoldSet, Iterates
<1>3. Iterates(g, base, seq, n)
  BY <1>1, IteratesExists
<1> HIDE DEF g
<1>4. \A s \in SUBSET (1 .. n) :
        g[s] = IF s = {} THEN base ELSE op(g[s \ {Max(s)}], seq[Max(s)])
  BY <1>3 DEF Iterates
<1>5. g[1 .. 0] = base
  <2>1. 1 .. 0 = {} /\ 1 .. 0 \in SUBSET (1 .. n)
    OBVIOUS
  <2> QED BY <1>4, <2>1
<1>6. ASSUME NEW i \in 1 .. n PROVE g[1 .. i] = op(g[1 .. i - 1], seq[i])
  <2>1. /\ i \in Nat /\ i \in 1 .. i /\ 1 .. i \in SUBSET (1 .. n)
        /\ 1 .. i \in SUBSET (1 .. i) /\ 1 .. i # {}
    <3> HIDE DEF n
    <3>1. i \in Nat /\ i \in 1 .. i
      BY <1>1
    <3>2. \A k \in 1 .. i : k \in 1 .. n
      BY <1>1
    <3> QED BY <3>1, <3>2
  <2>2. Max(1 .. i) = i
    BY <2>1, MaxIs
  <2>3. (1 .. i) \ {i} = 1 .. i - 1
    BY <1>1
  <2> QED BY <1>4, <2>1, <2>2, <2>3
<1>7. /\ h[0] = base /\ h[n] = g[1 .. n]
      /\ \A i \in 1 .. n : h[i] = op(h[i - 1], seq[i])
  BY <1>1, <1>5, <1>6
<1> HIDE DEF h, n
<1> QED BY <1>2, <1>7 DEF n

\* A fold over no element, one, and two.
LEMMA FoldShort ==
    ASSUME NEW base, NEW m, NEW n
    PROVE  /\ FoldLeft(op, base, <<>>) = base
           /\ FoldLeft(op, base, <<m>>) = op(base, m)
           /\ FoldLeft(op, base, <<m, n>>) = op(op(base, m), n)
<1>1. FoldLeft(op, base, <<>>) = base
  <2> DEFINE p == <<>>
  <2>1. p \in Seq({}) /\ Len(p) = 0
    OBVIOUS
  <2> HIDE DEF p
  <2>2. PICK h : /\ h[0] = base
                 /\ \A i \in 1 .. Len(p) : h[i] = op(h[i - 1], p[i])
                 /\ FoldLeft(op, base, p) = h[Len(p)]
    BY <2>1, FoldSteps
  <2>3. FoldLeft(op, base, p) = base
    BY <2>1, <2>2
  <2> QED BY <2>3, Zenon DEF p
<1>2. FoldLeft(op, base, <<m>>) = op(base, m)
  <2> DEFINE p == <<m>>
  <2>1. p \in Seq({m}) /\ Len(p) = 1 /\ p[1] = m
    OBVIOUS
  <2> HIDE DEF p
  <2>2. PICK h : /\ h[0] = base
                 /\ \A i \in 1 .. Len(p) : h[i] = op(h[i - 1], p[i])
                 /\ FoldLeft(op, base, p) = h[Len(p)]
    BY <2>1, FoldSteps
  <2>3. h[1] = op(h[0], p[1])
    BY <2>1, <2>2
  <2>4. FoldLeft(op, base, p) = op(base, m)
    BY <2>1, <2>2, <2>3
  <2> QED BY <2>4, Zenon DEF p
<1>3. FoldLeft(op, base, <<m, n>>) = op(op(base, m), n)
  <2> DEFINE p == <<m, n>>
  <2>1. p \in Seq({m, n}) /\ Len(p) = 2 /\ p[1] = m /\ p[2] = n
    OBVIOUS
  <2> HIDE DEF p
  <2>2. PICK h : /\ h[0] = base
                 /\ \A i \in 1 .. Len(p) : h[i] = op(h[i - 1], p[i])
                 /\ FoldLeft(op, base, p) = h[Len(p)]
    BY <2>1, FoldSteps
  <2>3. h[1] = op(h[0], p[1]) /\ h[2] = op(h[1], p[2])
    BY <2>1, <2>2
  <2>4. FoldLeft(op, base, p) = op(op(base, m), n)
    BY <2>1, <2>2, <2>3
  <2> QED BY <2>4, Zenon DEF p
<1> QED BY <1>1, <1>2, <1>3

-----------------------------------------------------------------------------
\* Streams.

\* The k-th cell of the stream in which the messages msgs[1], msgs[2], ... are sent.
Cell(msgs, k) ==
    [msg |-> msgs[((k - 1) \div Parts) + 1], part |-> ((k - 1) % Parts) + 1]

\* These cells are the ones that follow the first q cells of that stream.
Follow(cells, msgs, q) == \A k \in 1 .. Len(cells) : cells[k] = Cell(msgs, q + k)

\* Where a row begins and ends.
LEMMA RowBounds ==
    ASSUME NEW n \in Nat, NEW i \in 1 .. n \div Parts
    PROVE  /\ i \in Nat /\ i - 1 \in Nat
           /\ (i - 1) * Parts \in Nat /\ (i - 1) * Parts + 1 \in 1 .. n
           /\ i * Parts \in 1 .. n
           /\ i * Parts - ((i - 1) * Parts + 1) + 1 = Parts
<1> DEFINE q == n \div Parts
           r == n % Parts
<1>0. Parts \in Nat \ {0}
  BY StreamAssumption
<1>1. q \in Nat /\ r \in 0 .. Parts - 1 /\ n = Parts * q + r
  BY <1>0, Quotient
<1> HIDE DEF q, r
<1>2. i \in Nat /\ i - 1 \in Nat /\ i <= q
  BY <1>1 DEF q
<1>3. i * Parts <= q * Parts /\ (i - 1) * Parts = i * Parts - Parts
      /\ (i - 1) * Parts >= 0 /\ i * Parts \in Int
  BY <1>0, <1>1, <1>2
<1> QED BY <1>0, <1>1, <1>2, <1>3

\* The rows of a buffer, and what is left of it.
LEMMA RowsOf ==
    ASSUME NEW S, NEW cells \in Seq(S)
    PROVE  LET n == Len(cells) \div Parts
           IN  /\ n \in Nat
               /\ Rows(cells) \in Seq({row \in Seq(S) : row[1] \in S})
               /\ Len(Rows(cells)) = n
               /\ \A i \in 1 .. n :
                    /\ Rows(cells)[i] \in Seq(S) /\ Len(Rows(cells)[i]) = Parts
                    /\ \A k \in 1 .. Parts :
                         Rows(cells)[i][k] = cells[(i - 1) * Parts + k]
               /\ Len(Shifted(cells)) = Len(cells) % Parts
<1> DEFINE l == Len(cells)
           n == l \div Parts
           f == Rows(cells)
           T == {row \in Seq(S) : row[1] \in S}
<1>1. Parts \in Nat \ {0} /\ l \in Nat
  BY StreamAssumption
<1>2. n \in Nat /\ l % Parts \in 0 .. Parts - 1 /\ l = Parts * n + (l % Parts)
  BY <1>1, Quotient
<1> HIDE DEF n
<1>3. f = [i \in 1 .. n |-> f[i]]
      /\ \A i \in 1 .. n : f[i] = SubSeq(cells, (i - 1) * Parts + 1, i * Parts)
  BY DEF Rows, n
<1> HIDE DEF f
<1>4. ASSUME NEW i \in 1 .. n
      PROVE  /\ f[i] \in Seq(S) /\ Len(f[i]) = Parts
             /\ \A k \in 1 .. Parts : f[i][k] = cells[(i - 1) * Parts + k]
             /\ f[i][1] \in S
  <2> DEFINE z == (i - 1) * Parts
             a == z + 1
             b == i * Parts
  <2>1. z \in Nat /\ a \in 1 .. l /\ b \in 1 .. l /\ b - a + 1 = Parts
    BY <1>1, RowBounds DEF n
  <2>2. f[i] = SubSeq(cells, a, b)
    BY <1>3
  <2> HIDE DEF z, b, l
  <2>3. \A k \in a .. b : cells[k] \in S
    BY <2>1 DEF l
  <2>4. /\ SubSeq(cells, a, b) \in Seq(S)
        /\ Len(SubSeq(cells, a, b)) = IF a <= b THEN b - a + 1 ELSE 0
        /\ \A k \in 1 .. b - a + 1 : SubSeq(cells, a, b)[k] = cells[a + k - 1]
    BY <1>1, <2>1, <2>3, SubSeqProperties
  <2>5. a <= b
    BY <1>1, <2>1
  <2>6. ASSUME NEW k \in 1 .. Parts PROVE f[i][k] = cells[z + k]
    <3>1. a + k - 1 = z + k
      BY <1>1, <2>1
    <3>2. k \in 1 .. b - a + 1
      BY <2>1
    <3> HIDE DEF a
    <3> QED BY <2>2, <2>4, <3>1, <3>2
  <2>7. f[i][1] \in S
    <3>1. 1 \in 1 .. Parts /\ cells[a] \in S
      BY <1>1, <2>3, <2>5, <2>1
    <3> QED BY <2>6, <3>1
  <2> HIDE DEF a
  <2> QED BY <2>1, <2>2, <2>4, <2>5, <2>6, <2>7 DEF z
<1>5. f \in Seq(T) /\ Len(f) = n
  <2>1. f \in Seq({f[i] : i \in 1 .. n}) /\ Len(f) = n
    BY <1>2, <1>3, FunctionIsSeq
  <2>2. \A i \in 1 .. Len(f) : f[i] \in T
    BY <1>4, <2>1
  <2> HIDE DEF T
  <2> QED BY <2>1, <2>2
<1>6. Len(Shifted(cells)) = l % Parts
  <2> DEFINE a == n * Parts + 1
  <2>1. a \in Nat \ {0} /\ a - 1 <= l /\ l - a + 1 = l % Parts
    BY <1>1, <1>2
  <2>2. Shifted(cells) = SubSeq(cells, a, l)
    BY DEF Shifted, n
  <2> HIDE DEF a, l
  <2>3. \A k \in a .. l : cells[k] \in S
    BY <1>1, <2>1 DEF l
  <2>4. Len(SubSeq(cells, a, l)) = IF a <= l THEN l - a + 1 ELSE 0
    BY <1>1, <2>1, <2>3, SubSeqProperties
  <2> QED BY <1>1, <2>1, <2>2, <2>4
<1> QED BY <1>2, <1>4, <1>5, <1>6 DEF n, f

\* The buffer after a read: the new cells from its start on.
LEMMA FilledIs ==
    ASSUME NEW left, NEW chunk, Len(left) \in Nat, Len(chunk) \in Nat
    PROVE  /\ \E S : Filled(left, chunk) \in Seq(S)
           /\ Len(Filled(left, chunk)) = Len(left) + Len(chunk)
           /\ \A k \in 1 .. Len(chunk) : Filled(left, chunk)[k] = chunk[k]
<1> DEFINE f == Filled(left, chunk)
           n == Len(left) + Len(chunk)
<1>1. f = [k \in 1 .. n |-> f[k]] /\ \A k \in 1 .. Len(chunk) : f[k] = chunk[k]
  BY DEF Filled
<1>2. n \in Nat
  OBVIOUS
<1> HIDE DEF f, n
<1>3. f \in Seq({f[k] : k \in 1 .. n}) /\ Len(f) = n
  BY <1>1, <1>2
<1> QED BY <1>1, <1>3 DEF f, n

\* It stays a buffer of cells, and so does what is left after the read.
LEMMA FilledTyped ==
    ASSUME NEW S, NEW left \in Seq(S), NEW chunk \in Seq(S), chunk # <<>>,
           [chunk[1] EXCEPT !.part = 0] \in S
    PROVE  Filled(left, chunk) \in Seq(S) /\ Shifted(Filled(left, chunk)) \in Seq(S)
<1> DEFINE n == Len(left) + Len(chunk)
           f == Filled(left, chunk)
<1>1. n \in Nat
  OBVIOUS
<1>2. f = [k \in 1 .. n |-> f[k]] /\ \A k \in 1 .. n : f[k] \in S
  <2> DEFINE z == [chunk[1] EXCEPT !.part = 0]
  <2>1. z \in S
    OBVIOUS
  <2> HIDE DEF z
  <2>2. f = [k \in 1 .. n |-> IF k <= Len(chunk) THEN chunk[k]
                              ELSE IF k <= Len(left) THEN left[k] ELSE z]
    BY DEF Filled, z
  <2>3. \A k \in 1 .. n : (IF k <= Len(chunk) THEN chunk[k]
                            ELSE IF k <= Len(left) THEN left[k] ELSE z) \in S
    BY <2>1
  <2> HIDE DEF f, n
  <2> QED BY <2>2, <2>3
<1> HIDE DEF f
<1>3. f \in Seq(S)
  BY <1>1, <1>2
<1>4. Shifted(f) \in Seq(S)
  <2> DEFINE a == (Len(f) \div Parts) * Parts + 1
  <2>1. Parts \in Nat \ {0} /\ Len(f) \in Nat
    BY <1>3, StreamAssumption
  <2>2. Len(f) \div Parts \in Nat
    BY <2>1, Quotient
  <2>3. a \in Nat \ {0}
    <3> DEFINE b == Len(f) \div Parts
    <3> HIDE DEF b
    <3>1. b * Parts \in Nat
      BY <2>1, <2>2 DEF b
    <3> QED BY <3>1 DEF b
  <2> HIDE DEF a
  <2>4. \A k \in a .. Len(f) : f[k] \in S
    BY <1>3, <2>1, <2>3
  <2>5. SubSeq(f, a, Len(f)) \in Seq(S)
    BY <2>1, <2>3, <2>4, SubSeqProperties
  <2> QED BY <2>5 DEF Shifted, a
<1> QED BY <1>3, <1>4 DEF f

\* If nothing was left in the buffer, the rows after a read are whole, and hold the
\* messages that were sent next.
LEMMA ReadWhole ==
    ASSUME NEW chunk, NEW msgs, NEW q \in Nat,
           q % Parts = 0, Len(chunk) \in Nat \ {0}, Follow(chunk, msgs, q)
    PROVE  LET cells == Filled(<<>>, chunk)
           IN  /\ q \div Parts \in Nat /\ Len(Rows(cells)) \in Nat
               /\ \E S : Rows(cells) \in Seq(S)
               /\ (q + Len(chunk)) \div Parts = (q \div Parts) + Len(Rows(cells))
               /\ \A i \in 1 .. Len(Rows(cells)) :
                    /\ Whole(Rows(cells)[i])
                    /\ Rows(cells)[i][1].msg = msgs[(q \div Parts) + i]
               /\ Len(Shifted(cells)) = (q + Len(chunk)) % Parts
<1> DEFINE cells == Filled(<<>>, chunk)
           d == q \div Parts
           n == Len(chunk)
           l == Len(cells)
           e == (q + n) \div Parts
           m == l \div Parts
<1>1. Parts \in Nat \ {0} /\ n \in Nat \ {0}
  BY StreamAssumption
<1>2. d \in Nat /\ q = Parts * d
  <2>1. d \in Nat /\ q = Parts * d + 0
    BY <1>1, Quotient
  <2> HIDE DEF d
  <2> QED BY <1>1, <2>1
<1>3. /\ \E S : cells \in Seq(S)
      /\ l = n
      /\ \A k \in 1 .. n : cells[k] = chunk[k]
  <2> DEFINE left == <<>>
  <2>1. Len(left) = 0
    OBVIOUS
  <2> HIDE DEF left
  <2>2. /\ \E S : Filled(left, chunk) \in Seq(S)
        /\ Len(Filled(left, chunk)) = Len(left) + Len(chunk)
        /\ \A k \in 1 .. Len(chunk) : Filled(left, chunk)[k] = chunk[k]
    BY <1>1, <2>1, FilledIs
  <2>3. /\ \E S : Filled(left, chunk) \in Seq(S)
        /\ Len(Filled(left, chunk)) = Len(chunk)
        /\ \A k \in 1 .. Len(chunk) : Filled(left, chunk)[k] = chunk[k]
    BY <1>1, <2>1, <2>2
  <2> QED BY <2>3, Zenon DEF left
<1>4. PICK S : cells \in Seq(S)
  BY <1>3
<1>5. e = d + m /\ (q + n) % Parts = l % Parts
  <2> HIDE DEF n, l
  <2>1. /\ (q + n) \div Parts = (q \div Parts) + (((q % Parts) + n) \div Parts)
        /\ (q + n) % Parts = ((q % Parts) + n) % Parts
    BY <1>1, DividedPlus
  <2>2. 0 + n = n
    BY <1>1
  <2> QED BY <1>3, <2>1, <2>2
<1> HIDE DEF cells
<1>6. /\ m \in Nat
      /\ Rows(cells) \in Seq({row \in Seq(S) : row[1] \in S})
      /\ Len(Rows(cells)) = m
      /\ \A i \in 1 .. m :
           /\ Rows(cells)[i] \in Seq(S) /\ Len(Rows(cells)[i]) = Parts
           /\ \A k \in 1 .. Parts : Rows(cells)[i][k] = cells[(i - 1) * Parts + k]
      /\ Len(Shifted(cells)) = l % Parts
  BY <1>4, RowsOf
<1> HIDE DEF e, d
<1>7. ASSUME NEW i \in 1 .. m
      PROVE  Whole(Rows(cells)[i]) /\ Rows(cells)[i][1].msg = msgs[d + i]
  <2> DEFINE j == i - 1
             z == j * Parts
             row == Rows(cells)[i]
  <2>1. j \in Nat /\ z \in Nat /\ z + Parts \in 1 .. l /\ (d + j) + 1 = d + i
    <3>1. j \in Nat /\ z \in Nat /\ i * Parts \in 1 .. l /\ i * Parts - (z + 1) + 1 = Parts
      BY <1>1, <1>3, RowBounds
    <3> DEFINE b == i * Parts
    <3> HIDE DEF z, b, l
    <3>2. z + Parts = b
      BY <1>1, <3>1, <1>6 DEF b
    <3>3. (d + j) + 1 = d + i
      BY <1>2, <3>1
    <3> QED BY <3>1, <3>2, <3>3 DEF b
  <2>2. q + z = Parts * (d + j)
    BY <1>1, <1>2, <2>1
  <2> HIDE DEF z, j, l, n
  <2>3. ASSUME NEW k \in 1 .. Parts PROVE row[k] = [msg |-> msgs[d + i], part |-> k]
    <3>1. z + k \in 1 .. n
      BY <1>1, <1>3, <2>1
    <3>2. row[k] = chunk[z + k]
      BY <1>3, <1>6, <3>1 DEF z, j
    <3>3. chunk[z + k] = Cell(msgs, q + (z + k))
      BY <3>1 DEF Follow, n
    <3> DEFINE x == q + (z + k)
               y == x - 1
               v == k - 1
               w == d + j
    <3>4. y \in Nat /\ v \in 0 .. Parts - 1 /\ w \in Nat /\ y = Parts * w + v /\ v + 1 = k
      <4> DEFINE u == Parts * w
      <4>1. q + z = u
        BY <2>2
      <4> HIDE DEF u
      <4>2. y \in Nat /\ v \in 0 .. Parts - 1 /\ y = u + v /\ v + 1 = k
        BY <1>1, <2>1, <4>1
      <4>3. w \in Nat
        BY <1>2, <2>1
      <4> QED BY <4>2, <4>3 DEF u
    <3> HIDE DEF y, v, w
    <3>5. y \div Parts = w /\ y % Parts = v
      BY <1>1, <3>4, Divided
    <3>6. Cell(msgs, x) = [msg |-> msgs[w + 1], part |-> v + 1]
      BY <3>5 DEF Cell, y
    <3> QED BY <2>1, <3>2, <3>3, <3>4, <3>6 DEF w
  <2>4. row = [k \in 1 .. Parts |-> row[k]]
    <3>1. row \in Seq(S) /\ Len(row) = Parts
      BY <1>6
    <3> HIDE DEF row
    <3> QED BY <1>1, <3>1
  <2> DEFINE x == msgs[d + i]
  <2> HIDE DEF row, x
  <2>5. \A k \in 1 .. Parts : row[k] = [msg |-> x, part |-> k]
    BY <2>3 DEF x
  <2>6. Whole(row) /\ row[1].msg = x
    <3>1. row = [k \in 1 .. Parts |-> [msg |-> x, part |-> k]]
      BY <2>4, <2>5
    <3>2. row[1].msg = x
      <4>1. 1 \in 1 .. Parts
        BY <1>1
      <4>2. row[1] = [msg |-> x, part |-> 1]
        BY <2>5, <4>1
      <4> QED BY <4>2
    <3> QED BY <3>1, <3>2 DEF Whole, Cells
  <2> QED BY <2>6 DEF row, x
<1> QED BY <1>2, <1>5, <1>6, <1>7 DEF e, d, cells

\* What remains of a stream when its first n cells are taken.
LEMMA TakeFollows ==
    ASSUME NEW S, NEW cells \in Seq(S), NEW msgs, NEW q \in Nat, Follow(cells, msgs, q),
           NEW n \in 0 .. Len(cells)
    PROVE  /\ SubSeq(cells, 1, n) \in Seq(S) /\ Len(SubSeq(cells, 1, n)) = n
           /\ Follow(SubSeq(cells, 1, n), msgs, q)
           /\ SubSeq(cells, n + 1, Len(cells)) \in Seq(S)
           /\ Len(SubSeq(cells, n + 1, Len(cells))) = Len(cells) - n
           /\ Follow(SubSeq(cells, n + 1, Len(cells)), msgs, q + n)
<1> DEFINE a == SubSeq(cells, 1, n)
           b == SubSeq(cells, n + 1, Len(cells))
<1>1. a \in Seq(S) /\ Len(a) = n /\ \A k \in 1 .. n : a[k] = cells[k]
  OBVIOUS
<1>2. /\ b \in Seq(S) /\ Len(b) = Len(cells) - n
      /\ \A k \in 1 .. Len(cells) - n : b[k] = cells[n + k]
  OBVIOUS
<1> HIDE DEF a, b
<1>3. Follow(a, msgs, q)
  BY <1>1 DEF Follow
<1>4. Follow(b, msgs, q + n)
  <2> SUFFICES ASSUME NEW k \in 1 .. Len(b) PROVE b[k] = Cell(msgs, (q + n) + k)
    BY DEF Follow
  <2>1. n + k \in 1 .. Len(cells) /\ q + (n + k) = (q + n) + k
    BY <1>2
  <2> QED BY <1>2, <2>1 DEF Follow
<1> QED BY <1>1, <1>2, <1>3, <1>4 DEF a, b

\* What was sent first is not changed by what is sent later.
LEMMA ExtendFollows ==
    ASSUME NEW cells, Len(cells) \in Nat, NEW msgs, NEW next, NEW q \in Nat, NEW n \in Nat,
           Follow(cells, msgs, q), q + Len(cells) <= Parts * n,
           \A i \in 1 .. n : next[i] = msgs[i]
    PROVE  Follow(cells, next, q)
<1>1. Parts \in Nat \ {0}
  BY StreamAssumption
<1> SUFFICES ASSUME NEW k \in 1 .. Len(cells) PROVE cells[k] = Cell(next, q + k)
  BY DEF Follow
<1> DEFINE a == q + k - 1
           p == a \div Parts
           t == a % Parts
<1>2. a \in Nat /\ a < Parts * n
  <2> DEFINE l == Len(cells)
             w == Parts * n
  <2>1. l \in Nat /\ w \in Nat /\ q + l <= w /\ k \in 1 .. l
    BY <1>1
  <2> HIDE DEF l, w
  <2>2. a \in Nat /\ a < w
    BY <2>1
  <2> QED BY <2>2 DEF w
<1>3. p \in Nat /\ t \in 0 .. Parts - 1 /\ a = Parts * p + t
  BY <1>1, <1>2, Quotient
<1>4. p + 1 \in 1 .. n
  <2> HIDE DEF a, p, t
  <2>1. Parts * p < Parts * n
    BY <1>1, <1>2, <1>3
  <2>2. p < n
    BY <1>1, <1>3, <2>1
  <2> QED BY <1>3, <2>2
<1>5. Cell(msgs, q + k) = Cell(next, q + k)
  BY <1>4 DEF Cell
<1> QED BY <1>5 DEF Follow

\* One more message has been sent.
Grown(next, msgs, n, m) == (\A i \in 1 .. n : next[i] = msgs[i]) /\ next[n + 1] = m

\* A message that is sent follows those that were sent before.
LEMMA SendFollows ==
    ASSUME NEW S, NEW cells \in Seq(S), NEW msgs, NEW next, NEW q \in Nat, NEW n \in Nat,
           NEW m,
           Follow(cells, msgs, q), q + Len(cells) = Parts * n, Grown(next, msgs, n, m)
    PROVE  /\ q + Len(cells \o Cells(m)) = Parts * (n + 1)
           /\ Follow(cells \o Cells(m), next, q)
<1>1. Parts \in Nat \ {0}
  BY StreamAssumption
<1> DEFINE new == Cells(m)
           T == S \cup {new[k] : k \in 1 .. Parts}
           both == cells \o new
<1>2. /\ new \in Seq({new[k] : k \in 1 .. Parts}) /\ Len(new) = Parts
      /\ \A k \in 1 .. Parts : new[k] = [msg |-> m, part |-> k]
  <2>1. new = [k \in 1 .. Parts |-> new[k]]
        /\ \A k \in 1 .. Parts : new[k] = [msg |-> m, part |-> k]
    BY DEF Cells
  <2> HIDE DEF new
  <2> QED BY <1>1, <2>1, FunctionIsSeq
<1> HIDE DEF new
<1>3. cells \in Seq(T) /\ new \in Seq(T)
  BY <1>2
<1> HIDE DEF T
<1>4. /\ both \in Seq(T) /\ Len(both) = Len(cells) + Parts
      /\ \A k \in 1 .. Len(cells) + Parts :
           both[k] = IF k <= Len(cells) THEN cells[k] ELSE new[k - Len(cells)]
  <2>1. /\ cells \o new \in Seq(T) /\ Len(cells \o new) = Len(cells) + Len(new)
        /\ \A k \in 1 .. Len(cells) + Len(new) :
             (cells \o new)[k] = IF k <= Len(cells) THEN cells[k] ELSE new[k - Len(cells)]
    BY <1>3, ConcatProperties
  <2> QED BY <1>2, <2>1
<1> HIDE DEF both
<1>5. q + Len(both) = Parts * (n + 1)
  <2>1. Parts * (n + 1) = Parts * n + Parts /\ Parts * n \in Nat /\ Len(cells) \in Nat
    BY <1>1
  <2> DEFINE l == Len(cells)
  <2>2. l \in Nat /\ Len(both) = l + Parts /\ q + l = Parts * n
    BY <1>4, <2>1
  <2> HIDE DEF l
  <2> QED BY <1>1, <2>1, <2>2
<1>6. ASSUME NEW k \in 1 .. Len(both) PROVE both[k] = Cell(next, q + k)
  <2>1. CASE k <= Len(cells)
    <3>1. Follow(cells, next, q)
      <4>1. \A i \in 1 .. n : next[i] = msgs[i]
        BY DEF Grown
      <4> QED BY <1>1, <4>1, ExtendFollows
    <3>2. cells[k] = Cell(next, q + k)
      BY <2>1, <3>1 DEF Follow
    <3> QED BY <1>4, <2>1, <3>2
  <2>2. CASE ~(k <= Len(cells))
    <3> DEFINE j == k - Len(cells)
               a == q + k - 1
    <3>1. j \in 1 .. Parts /\ a \in Nat /\ j - 1 \in 0 .. Parts - 1
          /\ a = Parts * n + (j - 1)
      <4> DEFINE l == Len(cells)
                 w == Parts * n
      <4>1. l \in Nat /\ w \in Nat /\ q + l = w /\ k \in 1 .. l + Parts /\ ~(k <= l)
        BY <1>1, <1>4, <2>2
      <4> HIDE DEF l, w
      <4>2. k - l \in 1 .. Parts /\ q + k - 1 \in Nat /\ (k - l) - 1 \in 0 .. Parts - 1
            /\ q + k - 1 = w + ((k - l) - 1)
        BY <1>1, <4>1
      <4> QED BY <4>2 DEF l, w
    <3>2. both[k] = [msg |-> m, part |-> j]
      BY <1>2, <1>4, <2>2, <3>1
    <3> HIDE DEF a
    <3>3. a \div Parts = n /\ a % Parts = j - 1
      <4> DEFINE i == j - 1
      <4>1. i \in 0 .. Parts - 1 /\ a = Parts * n + i
        BY <3>1
      <4> HIDE DEF i
      <4>2. a \div Parts = n /\ a % Parts = i
        BY <1>1, <3>1, <4>1, Divided
      <4> QED BY <4>2 DEF i
    <3>4. (j - 1) + 1 = j
      BY <3>1
    <3>5. Cell(next, q + k) = [msg |-> m, part |-> j]
      BY <3>3, <3>4 DEF Cell, Grown, a
    <3> QED BY <3>2, <3>5
  <2> QED BY <2>1, <2>2
<1> QED BY <1>4, <1>5, <1>6 DEF both, new, Follow
=============================================================================
