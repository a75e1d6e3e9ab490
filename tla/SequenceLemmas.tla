--------------------------- MODULE SequenceLemmas ---------------------------
(***************************************************************************)
(* Facts the proofs share.  About sequences without repetition, for the    *)
(* lists of the order book: what is in them, in which order, after one     *)
(* element was put in or taken out.  About remainders, for ring buffers    *)
(* and for messages cut out of a stream.  And the least element of a set   *)
(* of naturals, which takes the place of induction.                        *)
(***************************************************************************)
EXTENDS Integers, SequencesExt, SequenceTheorems, WellFoundedInduction, TLAPS

\* The parts of a sequence around its i-th element.
LEMMA PartsAround ==
    ASSUME NEW S, NEW s \in Seq(S), NEW i \in 1 .. Len(s)
    PROVE  /\ SubSeq(s, 1, i - 1) \in Seq(S)
           /\ Len(SubSeq(s, 1, i - 1)) = i - 1
           /\ \A k \in 1 .. i - 1 : SubSeq(s, 1, i - 1)[k] = s[k]
           /\ SubSeq(s, i + 1, Len(s)) \in Seq(S)
           /\ Len(SubSeq(s, i + 1, Len(s))) = Len(s) - i
           /\ \A k \in 1 .. Len(s) - i : SubSeq(s, i + 1, Len(s))[k] = s[k + i]
OBVIOUS

\* RemoveAt(s, i) is s without its i-th element.
LEMMA RemoveAtElements ==
    ASSUME NEW S, NEW s \in Seq(S), NEW i \in 1 .. Len(s)
    PROVE  /\ RemoveAt(s, i) \in Seq(S)
           /\ Len(RemoveAt(s, i)) = Len(s) - 1
           /\ \A k \in 1 .. Len(s) - 1 :
                RemoveAt(s, i)[k] = IF k < i THEN s[k] ELSE s[k + 1]
<1> DEFINE a == SubSeq(s, 1, i - 1)
           b == SubSeq(s, i + 1, Len(s))
<1>1. RemoveAt(s, i) = a \o b
  BY DEF RemoveAt
<1>2. /\ a \in Seq(S) /\ Len(a) = i - 1 /\ \A k \in 1 .. i - 1 : a[k] = s[k]
      /\ b \in Seq(S) /\ Len(b) = Len(s) - i
      /\ \A k \in 1 .. Len(s) - i : b[k] = s[k + i]
  BY PartsAround
<1> HIDE DEF a, b
<1>3. /\ a \o b \in Seq(S)
      /\ Len(a \o b) = Len(a) + Len(b)
      /\ \A k \in 1 .. Len(a) + Len(b) :
           (a \o b)[k] = IF k <= Len(a) THEN a[k] ELSE b[k - Len(a)]
  BY <1>2, ConcatProperties
<1>4. ASSUME NEW k \in 1 .. Len(s) - 1
      PROVE  (a \o b)[k] = IF k < i THEN s[k] ELSE s[k + 1]
  <2>1. CASE k < i
    BY <2>1, <1>2, <1>3
  <2>2. CASE ~(k < i)
    <3>1. (a \o b)[k] = b[k - (i - 1)]
      BY <1>2, <1>3, <2>2
    <3>2. k - (i - 1) \in 1 .. Len(s) - i /\ (k - (i - 1)) + i = k + 1
      BY <2>2
    <3> QED BY <3>1, <3>2, <1>2, <2>2
  <2> QED BY <2>1, <2>2
<1> QED
  BY <1>1, <1>2, <1>3, <1>4

\* t is s with e before its i-th element.
Inserted(t, S, s, i, e) ==
    /\ t \in Seq(S)
    /\ Len(t) = Len(s) + 1
    /\ \A k \in 1 .. Len(s) + 1 :
         t[k] = IF k < i THEN s[k] ELSE IF k = i THEN e ELSE s[k - 1]

\* InsertAt inserts one element.
LEMMA InsertAtElements ==
    ASSUME NEW S, NEW s \in Seq(S), NEW i \in 1 .. Len(s) + 1, NEW e \in S
    PROVE  Inserted(InsertAt(s, i, e), S, s, i, e)
<1> DEFINE front == SubSeq(s, 1, i - 1) \o <<e>>
           back  == SubSeq(s, i, Len(s))
<1>1. InsertAt(s, i, e) = front \o back
  BY DEF InsertAt
<1>2. /\ SubSeq(s, 1, i - 1) \in Seq(S)
      /\ Len(SubSeq(s, 1, i - 1)) = i - 1
      /\ \A k \in 1 .. i - 1 : SubSeq(s, 1, i - 1)[k] = s[k]
  OBVIOUS
<1>3. /\ front \in Seq(S)
      /\ Len(front) = i
      /\ \A k \in 1 .. i : front[k] = IF k < i THEN s[k] ELSE e
  BY <1>2
<1>4. /\ back \in Seq(S)
      /\ Len(back) = Len(s) + 1 - i
      /\ \A k \in 1 .. Len(s) + 1 - i : back[k] = s[k + i - 1]
  OBVIOUS
<1> HIDE DEF front, back
<1>5. /\ front \o back \in Seq(S)
      /\ Len(front \o back) = Len(front) + Len(back)
      /\ \A k \in 1 .. Len(front) + Len(back) :
           (front \o back)[k] =
             IF k <= Len(front) THEN front[k] ELSE back[k - Len(front)]
  BY <1>3, <1>4, ConcatProperties
<1>6. ASSUME NEW k \in 1 .. Len(s) + 1
      PROVE  (front \o back)[k] =
               IF k < i THEN s[k] ELSE IF k = i THEN e ELSE s[k - 1]
  <2>0. i \in Nat
    BY LenProperties
  <2>1. CASE k <= i
    BY <2>1, <1>3, <1>4, <1>5
  <2>2. CASE ~(k <= i)
    <3>1. (front \o back)[k] = back[k - i]
      BY <1>3, <1>4, <1>5, <2>2
    <3>2. k - i \in 1 .. Len(s) + 1 - i /\ (k - i) + i - 1 = k - 1
      BY <2>2
    <3> QED BY <3>1, <3>2, <1>4, <2>2
  <2> QED BY <2>1, <2>2
<1>7. Len(front) + Len(back) = Len(s) + 1
  BY <1>3, <1>4
<1>8. Inserted(front \o back, S, s, i, e)
  BY <1>5, <1>6, <1>7 DEF Inserted
<1> QED
  BY <1>1, <1>8

\* If t lists the elements of s but the i-th, each from its own position, then
\* t has no repetition and holds just those elements.
LEMMA Reindexed ==
    ASSUME NEW s, NEW t, NEW i \in DOMAIN s, IsInjective(s),
           NEW p \in [DOMAIN t -> DOMAIN s \ {i}],
           \A k \in DOMAIN t : t[k] = s[p[k]],
           \A j, k \in DOMAIN t : p[j] = p[k] => j = k,
           \A j \in DOMAIN s \ {i} : \E k \in DOMAIN t : p[k] = j
    PROVE  IsInjective(t) /\ ToSet(t) = ToSet(s) \ {s[i]}
<1>1. IsInjective(t)
  BY DEF IsInjective
<1>2. ToSet(t) \subseteq ToSet(s) \ {s[i]}
  BY DEF IsInjective, ToSet
<1>3. ToSet(s) \ {s[i]} \subseteq ToSet(t)
  BY DEF ToSet
<1> QED
  BY <1>1, <1>2, <1>3

\* Taking an element out of a sequence without repetition takes it out of its
\* set, and keeps the others distinct.
LEMMA RemoveAtSet ==
    ASSUME NEW S, NEW s \in Seq(S), NEW i \in 1 .. Len(s), IsInjective(s)
    PROVE  /\ IsInjective(RemoveAt(s, i))
           /\ ToSet(RemoveAt(s, i)) = ToSet(s) \ {s[i]}
<1> DEFINE t == RemoveAt(s, i)
           n == Len(s)
           p == [k \in 1 .. n - 1 |-> IF k < i THEN k ELSE k + 1]
<1>1. n \in Nat /\ DOMAIN s = 1 .. n /\ i \in 1 .. n
  BY LenProperties
<1>2. /\ DOMAIN t = 1 .. n - 1
      /\ \A k \in 1 .. n - 1 : t[k] = IF k < i THEN s[k] ELSE s[k + 1]
  <2>1. t \in Seq(S) /\ Len(t) = n - 1
    BY RemoveAtElements
  <2>2. DOMAIN t = 1 .. Len(t)
    BY <2>1, LenProperties
  <2> QED BY <2>1, <2>2, RemoveAtElements
<1> HIDE DEF t, n
<1>3. /\ p \in [1 .. n - 1 -> (1 .. n) \ {i}]
      /\ \A j, k \in 1 .. n - 1 : p[j] = p[k] => j = k
  BY <1>1
<1>4. \A k \in 1 .. n - 1 : t[k] = s[p[k]]
  BY <1>2
<1>5. ASSUME NEW j \in (1 .. n) \ {i}
      PROVE  \E k \in 1 .. n - 1 : p[k] = j
  <2>1. CASE j < i
    <3>1. j \in 1 .. n - 1 /\ p[j] = j
      BY <1>1, <2>1
    <3> QED BY <3>1
  <2>2. CASE j > i
    <3>1. j - 1 \in 1 .. n - 1 /\ p[j - 1] = j
      BY <1>1, <2>2
    <3> QED BY <3>1
  <2> QED BY <1>1, <2>1, <2>2
<1> HIDE DEF p
<1>6. IsInjective(t) /\ ToSet(t) = ToSet(s) \ {s[i]}
  <2>1. p \in [DOMAIN t -> DOMAIN s \ {i}] /\ i \in DOMAIN s
    BY <1>1, <1>2, <1>3
  <2>2. /\ \A k \in DOMAIN t : t[k] = s[p[k]]
        /\ \A j, k \in DOMAIN t : p[j] = p[k] => j = k
        /\ \A j \in DOMAIN s \ {i} : \E k \in DOMAIN t : p[k] = j
    BY <1>1, <1>2, <1>3, <1>4, <1>5
  <2> QED BY <2>1, <2>2, Reindexed
<1> QED
  BY <1>6 DEF t

\* The same holds when the part behind the element is put before the part in
\* front of it, as in a circular list whose head moves.
LEMMA RotatedSet ==
    ASSUME NEW S, NEW s \in Seq(S), NEW i \in 1 .. Len(s), IsInjective(s)
    PROVE  LET t == SubSeq(s, i + 1, Len(s)) \o SubSeq(s, 1, i - 1)
           IN  /\ t \in Seq(S)
               /\ IsInjective(t)
               /\ ToSet(t) = ToSet(s) \ {s[i]}
<1> DEFINE a == SubSeq(s, 1, i - 1)
           b == SubSeq(s, i + 1, Len(s))
           t == b \o a
           n == Len(s)
           d == n - i
           p == [k \in 1 .. n - 1 |-> IF k <= d THEN k + i ELSE k - d]
<1>1. /\ a \in Seq(S) /\ Len(a) = i - 1 /\ \A k \in 1 .. i - 1 : a[k] = s[k]
      /\ b \in Seq(S) /\ Len(b) = d
      /\ \A k \in 1 .. d : b[k] = s[k + i]
  BY PartsAround
<1>2. n \in Nat /\ DOMAIN s = 1 .. n /\ i \in 1 .. n /\ d \in Int /\ d + i = n
  BY LenProperties
<1> HIDE DEF a, b, n, d
<1>3. /\ t \in Seq(S)
      /\ Len(t) = n - 1
      /\ \A k \in 1 .. n - 1 : t[k] = IF k <= d THEN b[k] ELSE a[k - d]
  <2>1. /\ t \in Seq(S)
        /\ Len(t) = Len(b) + Len(a)
        /\ \A k \in 1 .. Len(b) + Len(a) :
             t[k] = IF k <= Len(b) THEN b[k] ELSE a[k - Len(b)]
    BY <1>1, ConcatProperties
  <2>2. Len(b) + Len(a) = n - 1 /\ Len(b) = d
    BY <1>1, <1>2
  <2> HIDE DEF t
  <2> QED BY <2>1, <2>2
<1> HIDE DEF t
<1>4. DOMAIN t = 1 .. n - 1
  BY <1>3, LenProperties
<1>5. /\ p \in [1 .. n - 1 -> (1 .. n) \ {i}]
      /\ \A j, k \in 1 .. n - 1 : p[j] = p[k] => j = k
  BY <1>2
<1>6. ASSUME NEW k \in 1 .. n - 1
      PROVE  t[k] = s[p[k]]
  <2>1. CASE k <= d
    BY <1>1, <1>2, <1>3, <2>1
  <2>2. CASE ~(k <= d)
    <3>1. k - d \in 1 .. i - 1
      BY <1>2, <2>2
    <3> QED BY <1>1, <1>3, <2>2, <3>1
  <2> QED BY <2>1, <2>2
<1>7. ASSUME NEW j \in (1 .. n) \ {i}
      PROVE  \E k \in 1 .. n - 1 : p[k] = j
  <2>1. CASE j < i
    <3>1. j + d \in 1 .. n - 1 /\ p[j + d] = j
      BY <1>2, <2>1
    <3> QED BY <3>1
  <2>2. CASE j > i
    <3>1. j - i \in 1 .. n - 1 /\ p[j - i] = j
      BY <1>2, <2>2
    <3> QED BY <3>1
  <2> QED BY <1>2, <2>1, <2>2
<1> HIDE DEF p
<1>8. IsInjective(t) /\ ToSet(t) = ToSet(s) \ {s[i]}
  <2>1. p \in [DOMAIN t -> DOMAIN s \ {i}] /\ i \in DOMAIN s
    BY <1>2, <1>4, <1>5
  <2>2. /\ \A k \in DOMAIN t : t[k] = s[p[k]]
        /\ \A j, k \in DOMAIN t : p[j] = p[k] => j = k
        /\ \A j \in DOMAIN s \ {i} : \E k \in DOMAIN t : p[k] = j
    BY <1>2, <1>4, <1>5, <1>6, <1>7
  <2> QED BY <2>1, <2>2, Reindexed
<1> QED
  BY <1>3, <1>8 DEF t, a, b

\* Inserting a new element keeps a sequence free of repetition.
LEMMA InsertAtSet ==
    ASSUME NEW S, NEW s \in Seq(S), NEW i \in 1 .. Len(s) + 1, NEW e \in S,
           IsInjective(s), e \notin ToSet(s)
    PROVE  /\ IsInjective(InsertAt(s, i, e))
           /\ ToSet(InsertAt(s, i, e)) = ToSet(s) \cup {e}
<1>0. /\ InsertAt(s, i, e) \in Seq(S)
      /\ Len(InsertAt(s, i, e)) = Len(s) + 1
      /\ \A k \in 1 .. Len(s) + 1 :
           InsertAt(s, i, e)[k] =
             IF k < i THEN s[k] ELSE IF k = i THEN e ELSE s[k - 1]
  <2>1. Inserted(InsertAt(s, i, e), S, s, i, e)
    BY InsertAtElements
  <2> QED BY <2>1 DEF Inserted
<1> DEFINE t == InsertAt(s, i, e)
           n == Len(s)
<1>1. n \in Nat /\ DOMAIN s = 1 .. n /\ i \in 1 .. n + 1
  BY LenProperties
<1>2. /\ DOMAIN t = 1 .. n + 1
      /\ \A k \in 1 .. n + 1 :
           t[k] = IF k < i THEN s[k] ELSE IF k = i THEN e ELSE s[k - 1]
  <2>1. DOMAIN t = 1 .. n + 1
    BY <1>0, LenProperties
  <2> QED BY <1>0, <2>1
<1> HIDE DEF t, n
<1>3. \A k \in 1 .. n : s[k] # e
  BY <1>1 DEF ToSet
<1>4. ASSUME NEW j \in 1 .. n + 1, NEW k \in 1 .. n + 1, t[j] = t[k], j < k
      PROVE  FALSE
  <2>1. CASE j = i
    <3>1. t[j] = e /\ t[k] = s[k - 1] /\ k - 1 \in 1 .. n
      BY <1>1, <1>2, <1>4, <2>1
    <3> QED BY <1>3, <1>4, <3>1
  <2>2. CASE k = i
    <3>1. t[k] = e /\ t[j] = s[j] /\ j \in 1 .. n
      BY <1>1, <1>2, <1>4, <2>2
    <3> QED BY <1>3, <1>4, <3>1
  <2>3. CASE j # i /\ k # i
    <3>1. PICK x \in 1 .. n, y \in 1 .. n : t[j] = s[x] /\ t[k] = s[y] /\ x < y
      <4>1. CASE k < i
        BY <1>1, <1>2, <1>4, <4>1
      <4>2. CASE j < i /\ k > i
        <5>1. t[j] = s[j] /\ t[k] = s[k - 1] /\ j < k - 1
              /\ j \in 1 .. n /\ k - 1 \in 1 .. n
          BY <1>1, <1>2, <1>4, <4>2
        <5> QED BY <5>1
      <4>3. CASE j > i
        <5>1. t[j] = s[j - 1] /\ t[k] = s[k - 1] /\ j - 1 < k - 1
              /\ j - 1 \in 1 .. n /\ k - 1 \in 1 .. n
          BY <1>1, <1>2, <1>4, <4>3
        <5> QED BY <5>1
      <4> QED BY <1>1, <1>4, <2>3, <4>1, <4>2, <4>3
    <3>2. s[x] = s[y] /\ x \in DOMAIN s /\ y \in DOMAIN s
      BY <1>1, <1>4, <3>1, Zenon
    <3>3. x # y
      BY <1>1, <3>1
    <3> QED BY <3>2, <3>3 DEF IsInjective
  <2> QED BY <2>1, <2>2, <2>3
<1>5. IsInjective(t)
  BY <1>1, <1>2, <1>4 DEF IsInjective
<1>6. ToSet(t) \subseteq ToSet(s) \cup {e}
  BY <1>1, <1>2 DEF ToSet
<1>7. ASSUME NEW k \in 1 .. n
      PROVE  s[k] \in ToSet(t)
  <2>1. CASE k < i
    <3>1. t[k] = s[k] /\ k \in DOMAIN t
      BY <1>1, <1>2, <2>1
    <3> QED BY <3>1 DEF ToSet
  <2>2. CASE ~(k < i)
    <3>1. t[k + 1] = s[k] /\ k + 1 \in DOMAIN t
      BY <1>1, <1>2, <2>2
    <3> QED BY <3>1 DEF ToSet
  <2> QED BY <2>1, <2>2
<1>8. e \in ToSet(t)
  <2>1. t[i] = e /\ i \in DOMAIN t
    BY <1>1, <1>2
  <2> QED BY <2>1 DEF ToSet
<1>9. ToSet(t) = ToSet(s) \cup {e}
  <2>1. ToSet(s) \subseteq ToSet(t)
    BY <1>1, <1>7 DEF ToSet
  <2> QED BY <1>6, <1>8, <2>1
<1> QED
  BY <1>5, <1>9 DEF t

\* A function on 1 .. n is a sequence.
LEMMA FunctionIsSeq ==
    ASSUME NEW n \in Nat, NEW f, f = [k \in 1 .. n |-> f[k]]
    PROVE  f \in Seq({f[k] : k \in 1 .. n}) /\ Len(f) = n
OBVIOUS

-----------------------------------------------------------------------------
\* Natural numbers.

\* A non-empty set of naturals has a least element.
LEMMA LeastElement ==
    ASSUME NEW T, T \subseteq Nat, T # {}
    PROVE  \E i \in T : \A j \in T : i <= j
<1>1. IsWellFoundedOn(OpToRel(<, Nat), Nat)
  BY NatLessThanWellFounded
<1>2. PICK x \in T : \A y \in T : ~(<<y, x>> \in OpToRel(<, Nat))
  BY <1>1, WFMin
<1>3. \A y \in T : ~(y < x)
  BY <1>2 DEF OpToRel
<1> QED
  BY <1>3

\* Division.
LEMMA Quotient ==
    ASSUME NEW C \in Nat \ {0}, NEW a \in Nat
    PROVE  a \div C \in Nat /\ a % C \in 0 .. C - 1 /\ a = C * (a \div C) + (a % C)
OBVIOUS

\* The remainder of a multiple and a little more.
LEMMA Remainder ==
    ASSUME NEW C \in Nat \ {0}, NEW q \in Int, NEW r \in 0 .. C - 1
    PROVE  (C * q + r) % C = r
OBVIOUS

\* A remainder may be taken before an addition.
LEMMA ModPlus ==
    ASSUME NEW C \in Nat \ {0}, NEW a \in Nat, NEW i \in Nat
    PROVE  ((a % C) + i) % C = (a + i) % C
<1> DEFINE q == a \div C
           r == a % C
<1>1. q \in Nat /\ r \in 0 .. C - 1 /\ a = C * q + r
  BY Quotient
<1> HIDE DEF q, r
<1> DEFINE t == r + i
           p == t \div C
           s == t % C
<1>2. t \in Nat
  BY <1>1
<1> HIDE DEF t
<1>3. p \in Nat /\ s \in 0 .. C - 1 /\ t = C * p + s
  BY <1>2, Quotient
<1>4. a + i = C * (q + p) + s
  BY <1>1, <1>3 DEF t
<1> HIDE DEF p, s
<1>5. q + p \in Int
  BY <1>1, <1>3
<1>6. (C * (q + p) + s) % C = s
  BY <1>3, <1>5, Remainder
<1> QED BY <1>4, <1>6 DEF s, t, r

\* Going once round changes nothing.
LEMMA ModRound ==
    ASSUME NEW C \in Nat \ {0}, NEW a \in Nat
    PROVE  (a + C) % C = a % C
<1> DEFINE q == a \div C
           r == a % C
<1>1. q \in Nat /\ r \in 0 .. C - 1 /\ a = C * q + r
  BY Quotient
<1> HIDE DEF q, r
<1>2. a + C = C * (q + 1) + r /\ q + 1 \in Int
  BY <1>1
<1>3. (C * (q + 1) + r) % C = r
  BY <1>1, <1>2, Remainder
<1> QED BY <1>2, <1>3 DEF r

\* Numbers less than C apart have different remainders.
LEMMA ModApart ==
    ASSUME NEW C \in Nat \ {0}, NEW a \in Nat, NEW b \in Nat,
           a < b, b - a < C
    PROVE  a % C # b % C
<1> SUFFICES ASSUME a % C = b % C PROVE FALSE
  OBVIOUS
<1> DEFINE q == a \div C
           r == a % C
           p == b \div C
<1>1. q \in Nat /\ r \in 0 .. C - 1 /\ a = C * q + r
  BY Quotient
<1>2. p \in Nat /\ b = C * p + r
  BY Quotient
<1> HIDE DEF q, r, p
<1>3. b - a = C * (p - q)
  BY <1>1, <1>2
<1>4. p - q >= 1
  BY <1>1, <1>2, <1>3
<1>5. C * (p - q) >= C
  BY <1>1, <1>2, <1>4
<1> QED BY <1>3, <1>5

\* A number is given by its quotient and its remainder.
LEMMA Divided ==
    ASSUME NEW C \in Nat \ {0}, NEW a \in Nat, NEW q \in Nat, NEW r \in 0 .. C - 1,
           a = C * q + r
    PROVE  a \div C = q /\ a % C = r
<1> DEFINE p == a \div C
           t == a % C
<1>1. p \in Nat /\ t \in 0 .. C - 1 /\ a = C * p + t
  BY Quotient
<1>2. t = r
  BY Remainder
<1> HIDE DEF p, t
<1>3. C * p = C * q
  BY <1>1, <1>2
<1>4. p = q
  BY <1>1, <1>3
<1> QED BY <1>2, <1>4 DEF p, t

\* Quotient and remainder of a sum, from those of the first number.
LEMMA DividedPlus ==
    ASSUME NEW C \in Nat \ {0}, NEW a \in Nat, NEW n \in Nat
    PROVE  /\ (a + n) \div C = (a \div C) + (((a % C) + n) \div C)
           /\ (a + n) % C = ((a % C) + n) % C
<1> DEFINE q == a \div C
           r == a % C
           b == r + n
           p == b \div C
           t == b % C
<1>1. q \in Nat /\ r \in 0 .. C - 1 /\ a = C * q + r
  BY Quotient
<1> HIDE DEF q, r
<1>2. b \in Nat
  BY <1>1
<1> HIDE DEF b
<1>3. p \in Nat /\ t \in 0 .. C - 1 /\ b = C * p + t
  BY <1>2, Quotient
<1> HIDE DEF p, t
<1>4. a + n \in Nat /\ q + p \in Nat /\ a + n = C * (q + p) + t
  BY <1>1, <1>3 DEF b
<1>5. (a + n) \div C = q + p /\ (a + n) % C = t
  BY <1>3, <1>4, Divided
<1> QED BY <1>5 DEF q, r, b, p, t
=============================================================================
