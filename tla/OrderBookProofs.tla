--------------------------- MODULE OrderBookProofs ---------------------------
(***************************************************************************)
(* Proofs about OrderBook, for all values of its constants: any number of  *)
(* prices, also prices that share a slot, any reuse of client order ids,   *)
(* any pool size.                                                          *)
(***************************************************************************)
EXTENDS OrderBook, SequenceLemmas, FiniteSetTheorems

\* The part of the inductive invariant that is about the book alone.
BookInv ==
    BookTypeOK /\ Linked /\ SlotsSound /\ ArrivalOrder /\ IndexSound

\* The inductive invariant.
IInv == TypeOK /\ Fresh /\ BookInv

-----------------------------------------------------------------------------
\* Lists.

\* IndexOf finds an element that is there.
LEMMA IndexOfFinds ==
    ASSUME NEW S, NEW s \in Seq(S), NEW x \in ToSet(s)
    PROVE  IndexOf(s, x) \in 1 .. Len(s) /\ s[IndexOf(s, x)] = x
BY DEF IndexOf, ToSet

\* Names are positive numbers: 0 names nothing.
LEMMA NamesPositive == OrderNames \subseteq Nat \ {0}
BY ConstantsAssumption DEF OrderNames

\* The walk of add_price_level ends at a place of the list or behind it.
LEMMA RingPositionInRange ==
    ASSUME BookInv, NEW side \in Sides, NEW price \in Prices
    PROVE  RingPosition(side, price) \in 1 .. Len(rings[side]) + 1
<1> DEFINE n == Len(rings[side])
           compared == IF n <= 2 THEN 1 .. n ELSE 1 .. n - 1
           worse == {i \in compared :
                       Better(side, price, levels[rings[side][i]].price)}
<1>1. n \in Nat
  BY DEF BookInv, BookTypeOK
<1>2. worse \subseteq 1 .. n
  BY <1>1
<1>3. RingPosition(side, price) =
        IF worse = {} THEN n + 1
        ELSE CHOOSE i \in worse : \A j \in worse : i <= j
  BY DEF RingPosition
<1> HIDE DEF n, worse
<1>4. CASE worse = {}
  BY <1>1, <1>3, <1>4 DEF n
<1>5. CASE worse # {}
  <2>0. worse \subseteq Nat
    BY <1>1, <1>2
  <2>1. \E i \in worse : \A j \in worse : i <= j
    BY <2>0, <1>5, LeastElement
  <2>2. RingPosition(side, price) \in worse
    BY <1>3, <1>5, <2>1
  <2>3. RingPosition(side, price) \in 1 .. n
    BY <1>2, <2>2
  <2> QED BY <1>1, <2>3 DEF n
<1> QED
  BY <1>4, <1>5

\* The first order of a level is a live order linked in it, and the oldest.
LEMMA FirstOrderOldest ==
    ASSUME BookInv, NEW l \in DOMAIN levels
    PROVE  /\ FirstOrder(l) \in DOMAIN orders
           /\ orders[FirstOrder(l)].home = l
           /\ \A k \in DOMAIN orders : orders[k].home = l => FirstOrder(l) <= k
<1> DEFINE q == levels[l].queue
<1>1. q \in Seq(OrderNames) /\ q # <<>>
  BY DEF BookInv, BookTypeOK, Level, Linked
<1>2. Len(q) \in Nat \ {0} /\ DOMAIN q = 1 .. Len(q) /\ Head(q) = q[1]
  BY <1>1
<1>3. ToSet(q) = {m \in DOMAIN orders : orders[m].home = l}
  BY DEF BookInv, Linked
<1>4. \A i, j \in DOMAIN q : i < j => q[i] < q[j]
  BY DEF BookInv, ArrivalOrder
<1> HIDE DEF q
<1>5. q[1] \in ToSet(q) /\ \A i \in DOMAIN q : q[1] <= q[i]
  <2>0. \A i \in DOMAIN q : q[i] \in OrderNames
    BY <1>1, <1>2
  <2>1. \A i \in DOMAIN q : q[i] \in Nat
    BY <2>0, NamesPositive
  <2>2. 1 \in DOMAIN q /\ \A i \in DOMAIN q : i = 1 \/ 1 < i
    BY <1>2
  <2> QED BY <1>4, <2>1, <2>2 DEF ToSet
<1>6. FirstOrder(l) = q[1]
  BY <1>2 DEF FirstOrder, q
<1> QED
  BY <1>3, <1>5, <1>6 DEF ToSet

\* A price has a slot.
LEMMA IndexIsSlot ==
    ASSUME NEW price \in Prices
    PROVE  PriceToIndex(price) \in Slots
BY ConstantsAssumption DEF PriceToIndex, Slots

\* What BookInv says of a live order and of the level it is linked in.
LEMMA OrderInLevel ==
    ASSUME BookInv, NEW m \in DOMAIN orders
    PROVE  LET o == orders[m]
               q == levels[o.home].queue
           IN  /\ o \in Order
               /\ o.home \in DOMAIN levels
               /\ levels[o.home] \in Level
               /\ levels[o.home].side = o.side
               /\ q \in Seq(OrderNames)
               /\ m \in ToSet(q)
               /\ IsInjective(q)
               /\ Len(q) \in Nat \ {0}
<1> DEFINE o == orders[m]
           q == levels[o.home].queue
<1>1. o \in Order /\ o.home \in DOMAIN levels /\ levels[o.home].side = o.side
  BY DEF BookInv, BookTypeOK, Linked
<1>2. levels[o.home] \in Level
  BY <1>1 DEF BookInv, BookTypeOK
<1>3. q \in Seq(OrderNames) /\ q # <<>>
  BY <1>1, <1>2 DEF Level, BookInv, Linked
<1>4. m \in ToSet(q)
  BY <1>1 DEF BookInv, Linked
<1>5. \A i, j \in DOMAIN q : i < j => q[i] < q[j]
  BY <1>1 DEF BookInv, ArrivalOrder
<1> HIDE DEF q
<1>6. IsInjective(q)
  <2>1. ASSUME NEW i \in DOMAIN q, NEW j \in DOMAIN q, q[i] = q[j]
        PROVE  i = j
    <3>1. i \in Int /\ j \in Int /\ q[i] \in OrderNames /\ q[j] \in OrderNames
      BY <1>3
    <3>2. q[i] \in Nat
      BY <3>1, NamesPositive
    <3> QED BY <1>5, <2>1, <3>1, <3>2
  <2> QED BY <2>1 DEF IsInjective
<1>7. Len(q) \in Nat \ {0}
  BY <1>3
<1> QED
  BY <1>1, <1>2, <1>3, <1>4, <1>6, <1>7 DEF q

\* Unlinking a level of a side takes it out of that side's list.
LEMMA UnlinkedRing ==
    ASSUME BookInv, NEW side \in Sides, NEW l \in DOMAIN levels,
           levels[l].side = side
    PROVE  /\ Unlinked(side, l) \in Seq(OrderNames)
           /\ IsInjective(Unlinked(side, l))
           /\ ToSet(Unlinked(side, l)) = ToSet(rings[side]) \ {l}
<1> DEFINE ring == rings[side]
           i == IndexOf(ring, l)
           before == SubSeq(ring, 1, i - 1)
           after  == SubSeq(ring, i + 1, Len(ring))
<1>1. ring \in Seq(OrderNames) /\ IsInjective(ring) /\ l \in ToSet(ring)
  BY DEF BookInv, BookTypeOK, Linked
<1>2. i \in 1 .. Len(ring) /\ ring[i] = l
  BY <1>1, IndexOfFinds
<1>3. Unlinked(side, l) = after \o before \/ Unlinked(side, l) = before \o after
  BY DEF Unlinked
<1> HIDE DEF ring, i
<1>4. /\ after \o before \in Seq(OrderNames)
      /\ IsInjective(after \o before)
      /\ ToSet(after \o before) = ToSet(ring) \ {ring[i]}
  BY <1>1, <1>2, RotatedSet
<1>5. before \o after = RemoveAt(ring, i)
  BY DEF RemoveAt
<1>6. /\ RemoveAt(ring, i) \in Seq(OrderNames)
      /\ IsInjective(RemoveAt(ring, i))
      /\ ToSet(RemoveAt(ring, i)) = ToSet(ring) \ {ring[i]}
  BY <1>1, <1>2, RemoveAtElements, RemoveAtSet
<1> HIDE DEF before, after
<1> QED
  BY <1>2, <1>3, <1>4, <1>5, <1>6 DEF ring
-----------------------------------------------------------------------------
\* The three changes of the book.

\* remove_order, where it is defined, keeps the book's structures sound and
\* makes nothing live that was not.
LEMMA RemoveKeepsBook ==
    ASSUME BookInv, NEW m \in DOMAIN orders, RemoveIsDefined(m), RemoveOrder(m)
    PROVE  /\ BookInv'
           /\ DOMAIN orders' \subseteq DOMAIN orders
           /\ DOMAIN levels' \subseteq DOMAIN levels
<1> DEFINE o == orders[m]
           h == o.home
           q == levels[h].queue
           x == PriceToIndex(o.price)
<1>1. /\ o \in Order /\ h \in DOMAIN levels /\ levels[h].side = o.side
      /\ q \in Seq(OrderNames) /\ m \in ToSet(q) /\ IsInjective(q)
      /\ Len(q) \in Nat \ {0}
  BY OrderInLevel
<1>2. /\ o.client \in Clients /\ o.oid \in OrderIds /\ o.side \in Sides
      /\ o.price \in Prices /\ h \in OrderNames /\ m \in OrderNames
      /\ x \in Slots
  BY <1>1, IndexIsSlot DEF Order, BookInv, BookTypeOK
<1>3. /\ orders' = Without(orders, m)
      /\ client_orders' = [client_orders EXCEPT ![o.client][o.oid] = 0]
  BY DEF RemoveOrder, Forget
<1>4. /\ DOMAIN orders' = DOMAIN orders \ {m}
      /\ \A k \in DOMAIN orders' : orders'[k] = orders[k]
  BY <1>3 DEF Without
<1>5. IndexSound'
  <2> SUFFICES ASSUME NEW c \in Clients, NEW oid \in OrderIds,
                      client_orders'[c][oid] # 0
               PROVE  LET k == client_orders'[c][oid]
                      IN  /\ k \in DOMAIN orders'
                          /\ orders'[k].client = c /\ orders'[k].oid = oid
    BY DEF IndexSound
  <2>1. client_orders \in [Clients -> [OrderIds -> {0} \cup OrderNames]]
    BY DEF BookInv, BookTypeOK
  <2>2. client_orders'[c][oid] = client_orders[c][oid]
        /\ ~(c = o.client /\ oid = o.oid)
    BY <1>2, <1>3, <2>1
  <2>3. /\ client_orders[c][oid] \in DOMAIN orders
        /\ orders[client_orders[c][oid]].client = c
        /\ orders[client_orders[c][oid]].oid = oid
    BY <2>2 DEF BookInv, IndexSound
  <2> QED BY <1>4, <2>2, <2>3
<1>t. /\ DOMAIN orders' \subseteq OrderNames
      /\ orders' \in [DOMAIN orders' -> Order]
      /\ client_orders' \in [Clients -> [OrderIds -> {0} \cup OrderNames]]
  <2>1. orders' \in [DOMAIN orders' -> Order]
    BY <1>3, <1>4 DEF BookInv, BookTypeOK, Without
  <2>2. client_orders' \in [Clients -> [OrderIds -> {0} \cup OrderNames]]
    BY <1>2, <1>3 DEF BookInv, BookTypeOK
  <2> QED BY <1>4, <2>1, <2>2 DEF BookInv, BookTypeOK
<1>6. CASE Len(q) = 1
  <2>1. /\ levels' = Without(levels, h)
        /\ rings' = [rings EXCEPT ![o.side] = Unlinked(o.side, h)]
        /\ price_levels' = [price_levels EXCEPT ![x] = 0]
    BY <1>6 DEF RemoveOrder
  <2>2. /\ DOMAIN levels' = DOMAIN levels \ {h}
        /\ \A l \in DOMAIN levels' : levels'[l] = levels[l]
    BY <2>1 DEF Without
  <2>3. /\ Unlinked(o.side, h) \in Seq(OrderNames)
        /\ IsInjective(Unlinked(o.side, h))
        /\ ToSet(Unlinked(o.side, h)) = ToSet(rings[o.side]) \ {h}
    BY <1>1, <1>2, UnlinkedRing
  <2>4. /\ rings'[o.side] = Unlinked(o.side, h)
        /\ \A side \in Sides \ {o.side} : rings'[side] = rings[side]
    BY <1>2, <2>1 DEF BookInv, BookTypeOK
  <2>5. \A k \in DOMAIN orders : orders[k].home = h => k = m
    <3>1. ToSet(q) = {k \in DOMAIN orders : orders[k].home = h}
      BY <1>1 DEF BookInv, Linked
    <3>2. \A k \in ToSet(q) : k = q[1]
      BY <1>1, <1>6 DEF ToSet
    <3> QED BY <1>1, <3>1, <3>2
  <2>6. \A i \in Slots : price_levels[i] = h => i = x
    <3>1. GetPriceLevel(o.side, o.price) = h
      BY <1>6 DEF RemoveIsDefined
    <3>2. price_levels[x] = h /\ h # 0
      BY <1>2, <3>1, NamesPositive DEF GetPriceLevel
    <3> QED BY <1>2, <3>2 DEF BookInv, SlotsSound
  <2>7. BookTypeOK'
    <3>1. levels' \in [DOMAIN levels' -> Level]
      BY <2>1, <2>2 DEF BookInv, BookTypeOK, Without
    <3>2. rings' \in [Sides -> Seq(OrderNames)]
      BY <1>2, <2>1, <2>3 DEF BookInv, BookTypeOK
    <3>3. price_levels' \in [Slots -> {0} \cup OrderNames]
      BY <1>2, <2>1 DEF BookInv, BookTypeOK
    <3> QED BY <1>t, <2>2, <3>1, <3>2, <3>3 DEF BookInv, BookTypeOK
  <2>8. Linked'
    <3>1. ASSUME NEW side \in Sides
          PROVE  /\ IsInjective(rings'[side])
                 /\ ToSet(rings'[side]) =
                      {l \in DOMAIN levels' : levels'[l].side = side}
      <4>1. CASE side = o.side
        BY <1>1, <2>2, <2>3, <2>4, <4>1 DEF BookInv, Linked
      <4>2. CASE side # o.side
        BY <1>1, <2>2, <2>4, <4>2 DEF BookInv, Linked
      <4> QED BY <4>1, <4>2
    <3>2. ASSUME NEW l \in DOMAIN levels'
          PROVE  /\ levels'[l].queue # <<>>
                 /\ ToSet(levels'[l].queue) =
                      {k \in DOMAIN orders' : orders'[k].home = l}
      BY <1>4, <2>2 DEF BookInv, Linked
    <3>3. ASSUME NEW k \in DOMAIN orders'
          PROVE  /\ orders'[k].home \in DOMAIN levels'
                 /\ levels'[orders'[k].home].side = orders'[k].side
      BY <1>4, <2>2, <2>5 DEF BookInv, Linked
    <3> QED BY <3>1, <3>2, <3>3 DEF Linked
  <2>9. SlotsSound'
    <3> SUFFICES ASSUME NEW i \in Slots, price_levels'[i] # 0
                 PROVE  /\ price_levels'[i] \in DOMAIN levels'
                        /\ PriceToIndex(levels'[price_levels'[i]].price) = i
      BY DEF SlotsSound, PriceToIndex
    <3>1. i # x /\ price_levels'[i] = price_levels[i]
      BY <1>2, <2>1 DEF BookInv, BookTypeOK
    <3> QED BY <2>2, <2>6, <3>1 DEF BookInv, SlotsSound
  <2>10. ArrivalOrder'
    BY <2>2 DEF BookInv, ArrivalOrder
  <2> QED BY <1>4, <1>5, <2>2, <2>7, <2>8, <2>9, <2>10 DEF BookInv
<1>7. CASE Len(q) # 1
  <2> DEFINE r == RemoveAt(q, IndexOf(q, m))
  <2>1. /\ levels' = [levels EXCEPT ![h].queue = r]
        /\ rings' = rings /\ price_levels' = price_levels
    BY <1>7 DEF RemoveOrder
  <2>2. IndexOf(q, m) \in 1 .. Len(q) /\ q[IndexOf(q, m)] = m
    BY <1>1, IndexOfFinds
  <2>3. /\ r \in Seq(OrderNames) /\ Len(r) = Len(q) - 1
        /\ \A k \in 1 .. Len(q) - 1 :
             r[k] = IF k < IndexOf(q, m) THEN q[k] ELSE q[k + 1]
        /\ ToSet(r) = ToSet(q) \ {m}
    <3>1. PICK i \in 1 .. Len(q) : i = IndexOf(q, m) /\ q[i] = m
      BY <2>2
    <3> HIDE DEF q
    <3>2. /\ RemoveAt(q, i) \in Seq(OrderNames)
          /\ Len(RemoveAt(q, i)) = Len(q) - 1
          /\ \A k \in 1 .. Len(q) - 1 :
               RemoveAt(q, i)[k] = IF k < i THEN q[k] ELSE q[k + 1]
      BY <1>1, RemoveAtElements
    <3>3. ToSet(RemoveAt(q, i)) = ToSet(q) \ {q[i]}
      BY <1>1, RemoveAtSet
    <3> QED BY <3>1, <3>2, <3>3
  <2> HIDE DEF r
  <2>4. /\ DOMAIN levels' = DOMAIN levels
        /\ \A l \in DOMAIN levels :
             /\ levels'[l].side = levels[l].side
             /\ levels'[l].price = levels[l].price
             /\ l # h => levels'[l] = levels[l]
        /\ levels'[h].queue = r
    BY <1>1, <2>1 DEF BookInv, BookTypeOK, Level
  <2>5. BookTypeOK'
    <3>1. levels' \in [DOMAIN levels -> Level]
      <4> DEFINE Queue == Seq(OrderNames)
      <4>1. /\ levels \in [DOMAIN levels -> [side : Sides, price : Prices, queue : Queue]]
            /\ h \in DOMAIN levels
        BY <1>1 DEF BookInv, BookTypeOK, Level
      <4>2. r \in Queue
        BY <2>3
      <4> HIDE DEF Queue
      <4>3. levels' \in [DOMAIN levels -> [side : Sides, price : Prices, queue : Queue]]
        BY <2>1, <4>1, <4>2
      <4> QED BY <4>3 DEF Level, Queue
    <3> QED BY <1>t, <2>1, <2>4, <3>1 DEF BookInv, BookTypeOK
  <2>6. Linked'
    <3>1. ASSUME NEW side \in Sides
          PROVE  /\ IsInjective(rings'[side])
                 /\ ToSet(rings'[side]) =
                      {l \in DOMAIN levels' : levels'[l].side = side}
      BY <2>1, <2>4 DEF BookInv, Linked
    <3>2. ASSUME NEW l \in DOMAIN levels'
          PROVE  /\ levels'[l].queue # <<>>
                 /\ ToSet(levels'[l].queue) =
                      {k \in DOMAIN orders' : orders'[k].home = l}
      <4>1. CASE l = h
        <5>1. r # <<>>
          <6> HIDE DEF q
          <6>1. Len(r) > 0
            BY <1>1, <1>7, <2>3
          <6> QED BY <6>1
        <5>2. ToSet(q) = {k \in DOMAIN orders : orders[k].home = h}
          BY <1>1 DEF BookInv, Linked
        <5> QED BY <1>4, <2>3, <2>4, <4>1, <5>1, <5>2
      <4>2. CASE l # h
        BY <1>4, <2>4, <4>2 DEF BookInv, Linked
      <4> QED BY <4>1, <4>2
    <3>3. ASSUME NEW k \in DOMAIN orders'
          PROVE  /\ orders'[k].home \in DOMAIN levels'
                 /\ levels'[orders'[k].home].side = orders'[k].side
      BY <1>4, <2>4 DEF BookInv, Linked
    <3> QED BY <3>1, <3>2, <3>3 DEF Linked
  <2>7. SlotsSound'
    BY <2>1, <2>4 DEF BookInv, SlotsSound, PriceToIndex
  <2>8. ArrivalOrder'
    <3> SUFFICES ASSUME NEW l \in DOMAIN levels',
                        NEW i \in DOMAIN levels'[l].queue,
                        NEW j \in DOMAIN levels'[l].queue, i < j
                 PROVE  levels'[l].queue[i] < levels'[l].queue[j]
      BY DEF ArrivalOrder
    <3>1. CASE l = h
      <4>1. \A a, b \in 1 .. Len(q) : a < b => q[a] < q[b]
        BY <1>1 DEF BookInv, ArrivalOrder
      <4>2. i \in 1 .. Len(q) - 1 /\ j \in 1 .. Len(q) - 1
        BY <2>3, <2>4, <3>1
      <4>3. PICK a \in 1 .. Len(q), b \in 1 .. Len(q) :
              r[i] = q[a] /\ r[j] = q[b] /\ a < b
        <5> DEFINE p(k) == IF k < IndexOf(q, m) THEN k ELSE k + 1
        <5>1. r[i] = q[p(i)] /\ r[j] = q[p(j)]
          BY <2>3, <4>2
        <5>2. p(i) \in 1 .. Len(q) /\ p(j) \in 1 .. Len(q) /\ p(i) < p(j)
          BY <1>1, <2>2, <4>2
        <5> HIDE DEF p
        <5> QED BY <5>1, <5>2
      <4> QED BY <2>4, <3>1, <4>1, <4>3
    <3>2. CASE l # h
      BY <2>4, <3>2 DEF BookInv, ArrivalOrder
    <3> QED BY <3>1, <3>2
  <2> QED BY <1>4, <1>5, <2>4, <2>5, <2>6, <2>7, <2>8 DEF BookInv
<1> QED
  BY <1>6, <1>7
\* add_order keeps the book's structures sound when the order's name is above
\* all live ones, and makes nothing live but that name.
LEMMA AddKeepsBook ==
    ASSUME BookInv, NEW m \in OrderNames,
           \A k \in DOMAIN orders \cup DOMAIN levels : k < m,
           NEW o \in [client : Clients, oid : OrderIds, side : Sides,
                       price : Prices, qty : Nat, priority : Nat, home : {0}],
           AddOrder(m, o)
    PROVE  /\ BookInv'
           /\ DOMAIN orders' \subseteq DOMAIN orders \cup {m}
           /\ DOMAIN levels' \subseteq DOMAIN levels \cup {m}
<1> DEFINE l == GetPriceLevel(o.side, o.price)
           x == PriceToIndex(o.price)
           h == IF l = 0 THEN m ELSE l
           oo == [o EXCEPT !.home = h]
<1>1. /\ o.client \in Clients /\ o.oid \in OrderIds /\ o.side \in Sides
      /\ o.price \in Prices
  OBVIOUS
<1>2. x \in Slots
  BY <1>1, IndexIsSlot
<1>3. m \notin DOMAIN orders /\ m \notin DOMAIN levels /\ m # 0 /\ m \in Nat
  BY NamesPositive
<1>4. l # 0 => l \in DOMAIN levels /\ levels[l].side = o.side
  BY <1>2 DEF GetPriceLevel, BookInv, SlotsSound
<1>5. h \in OrderNames
  BY <1>4 DEF BookInv, BookTypeOK
<1>6. /\ oo \in Order /\ oo.home = h /\ oo.side = o.side /\ oo.client = o.client
      /\ oo.oid = o.oid
  BY <1>5 DEF Order
<1>7. /\ orders' = With(orders, m, oo)
      /\ client_orders' = [client_orders EXCEPT ![o.client][o.oid] = m]
  BY DEF AddOrder
<1> HIDE DEF oo
<1>8. /\ DOMAIN orders' = DOMAIN orders \cup {m}
      /\ orders'[m] = oo
      /\ \A k \in DOMAIN orders : orders'[k] = orders[k]
  BY <1>3, <1>7 DEF With
<1>9. IndexSound'
  <2> SUFFICES ASSUME NEW c \in Clients, NEW oid \in OrderIds,
                      client_orders'[c][oid] # 0
               PROVE  LET k == client_orders'[c][oid]
                      IN  /\ k \in DOMAIN orders'
                          /\ orders'[k].client = c /\ orders'[k].oid = oid
    BY DEF IndexSound
  <2>1. client_orders \in [Clients -> [OrderIds -> {0} \cup OrderNames]]
    BY DEF BookInv, BookTypeOK
  <2>2. CASE c = o.client /\ oid = o.oid
    <3>1. client_orders'[c][oid] = m
      BY <1>1, <1>7, <2>1, <2>2
    <3> QED BY <1>6, <1>8, <2>2, <3>1
  <2>3. CASE ~(c = o.client /\ oid = o.oid)
    <3>1. client_orders'[c][oid] = client_orders[c][oid]
      BY <1>1, <1>7, <2>1, <2>3
    <3>2. /\ client_orders[c][oid] \in DOMAIN orders
          /\ orders[client_orders[c][oid]].client = c
          /\ orders[client_orders[c][oid]].oid = oid
      BY <3>1 DEF BookInv, IndexSound
    <3> QED BY <1>8, <3>1, <3>2
  <2> QED BY <2>2, <2>3
<1>t. /\ DOMAIN orders' \subseteq OrderNames
      /\ orders' \in [DOMAIN orders' -> Order]
      /\ client_orders' \in [Clients -> [OrderIds -> {0} \cup OrderNames]]
  <2>1. orders' \in [DOMAIN orders' -> Order]
    BY <1>6, <1>7, <1>8 DEF BookInv, BookTypeOK, With
  <2>2. client_orders' \in [Clients -> [OrderIds -> {0} \cup OrderNames]]
    BY <1>1, <1>7 DEF BookInv, BookTypeOK
  <2> QED BY <1>8, <2>1, <2>2 DEF BookInv, BookTypeOK
<1>10. CASE l = 0
  <2> DEFINE new == [side |-> o.side, price |-> o.price, queue |-> <<m>>]
             pos == RingPosition(o.side, o.price)
             ring == InsertAt(rings[o.side], pos, m)
  <2>1. /\ levels' = With(levels, m, new)
        /\ price_levels' = [price_levels EXCEPT ![x] = m]
        /\ rings' = [rings EXCEPT ![o.side] = ring]
    BY <1>10 DEF AddOrder
  <2>2. new \in Level /\ new.side = o.side /\ new.price = o.price /\ new.queue = <<m>>
    BY <1>1 DEF Level
  <2> HIDE DEF new
  <2>3. /\ DOMAIN levels' = DOMAIN levels \cup {m}
        /\ levels'[m] = new
        /\ \A k \in DOMAIN levels : levels'[k] = levels[k]
    BY <1>3, <2>1 DEF With
  <2>4. rings[o.side] \in Seq(OrderNames) /\ IsInjective(rings[o.side])
        /\ ToSet(rings[o.side]) = {k \in DOMAIN levels : levels[k].side = o.side}
    BY <1>1 DEF BookInv, BookTypeOK, Linked
  <2>5. pos \in 1 .. Len(rings[o.side]) + 1
    BY <1>1, RingPositionInRange
  <2> HIDE DEF pos
  <2>6. /\ ring \in Seq(OrderNames) /\ IsInjective(ring)
        /\ ToSet(ring) = ToSet(rings[o.side]) \cup {m}
    <3>1. m \notin ToSet(rings[o.side])
      BY <1>3, <2>4
    <3>2. ring \in Seq(OrderNames)
      BY <2>4, <2>5, InsertAtElements DEF Inserted
    <3>3. m \in OrderNames
      BY <1>1
    <3>4. /\ IsInjective(InsertAt(rings[o.side], pos, m))
          /\ ToSet(InsertAt(rings[o.side], pos, m)) = ToSet(rings[o.side]) \cup {m}
      BY <2>4, <2>5, <3>1, <3>3, InsertAtSet
    <3> QED BY <3>2, <3>4, Zenon
  <2> HIDE DEF ring
  <2>7. /\ rings'[o.side] = ring
        /\ \A side \in Sides \ {o.side} : rings'[side] = rings[side]
    BY <1>1, <2>1 DEF BookInv, BookTypeOK
  <2>8. BookTypeOK'
    <3>1. levels' \in [DOMAIN levels' -> Level]
      BY <2>1, <2>2, <2>3 DEF BookInv, BookTypeOK, With
    <3>2. rings' \in [Sides -> Seq(OrderNames)]
      BY <1>1, <2>1, <2>6 DEF BookInv, BookTypeOK
    <3>3. price_levels' \in [Slots -> {0} \cup OrderNames]
      BY <1>2, <2>1 DEF BookInv, BookTypeOK
    <3> QED BY <1>t, <2>3, <3>1, <3>2, <3>3 DEF BookInv, BookTypeOK
  <2>9. Linked'
    <3>1. ASSUME NEW side \in Sides
          PROVE  /\ IsInjective(rings'[side])
                 /\ ToSet(rings'[side]) =
                      {k \in DOMAIN levels' : levels'[k].side = side}
      <4>1. CASE side = o.side
        BY <1>3, <2>2, <2>3, <2>4, <2>6, <2>7, <4>1
      <4>2. CASE side # o.side
        BY <1>3, <2>2, <2>3, <2>7, <4>2 DEF BookInv, Linked
      <4> QED BY <4>1, <4>2
    <3>2. ASSUME NEW k \in DOMAIN levels'
          PROVE  /\ levels'[k].queue # <<>>
                 /\ ToSet(levels'[k].queue) =
                      {n \in DOMAIN orders' : orders'[n].home = k}
      <4>1. CASE k = m
        <5>1. ToSet(<<m>>) = {m} /\ <<m>> # <<>>
          BY DEF ToSet
        <5>2. \A n \in DOMAIN orders : orders[n].home # m
          BY <1>3 DEF BookInv, Linked
        <5>3. levels'[k].queue = <<m>>
          BY <2>2, <2>3, <4>1
        <5>4. orders'[m].home = m
          BY <1>6, <1>8, <1>10
        <5>5. {n \in DOMAIN orders' : orders'[n].home = m} = {m}
          BY <1>8, <5>2, <5>4
        <5> QED BY <4>1, <5>1, <5>3, <5>5
      <4>2. CASE k # m
        <5>1. k \in DOMAIN levels /\ levels'[k] = levels[k]
          BY <2>3, <4>2
        <5>2. orders'[m].home = m
          BY <1>6, <1>8, <1>10
        <5>3. {n \in DOMAIN orders' : orders'[n].home = k} =
                {n \in DOMAIN orders : orders[n].home = k}
          BY <1>8, <4>2, <5>2
        <5> QED BY <5>1, <5>3 DEF BookInv, Linked
      <4> QED BY <4>1, <4>2
    <3>3. ASSUME NEW n \in DOMAIN orders'
          PROVE  /\ orders'[n].home \in DOMAIN levels'
                 /\ levels'[orders'[n].home].side = orders'[n].side
      BY <1>6, <1>8, <1>10, <2>2, <2>3 DEF BookInv, Linked
    <3> QED BY <3>1, <3>2, <3>3 DEF Linked
  <2>10. SlotsSound'
    <3> SUFFICES ASSUME NEW i \in Slots, price_levels'[i] # 0
                 PROVE  /\ price_levels'[i] \in DOMAIN levels'
                        /\ PriceToIndex(levels'[price_levels'[i]].price) = i
      BY DEF SlotsSound, PriceToIndex
    <3>1. CASE i = x
      <4>1. price_levels'[i] = m
        BY <1>2, <2>1, <3>1 DEF BookInv, BookTypeOK
      <4> QED BY <2>2, <2>3, <3>1, <4>1
    <3>2. CASE i # x
      <4>1. price_levels'[i] = price_levels[i]
        BY <1>2, <2>1, <3>2 DEF BookInv, BookTypeOK
      <4> QED BY <2>3, <4>1 DEF BookInv, SlotsSound
    <3> QED BY <3>1, <3>2
  <2>11. ArrivalOrder'
    <3> SUFFICES ASSUME NEW k \in DOMAIN levels',
                        NEW i \in DOMAIN levels'[k].queue,
                        NEW j \in DOMAIN levels'[k].queue, i < j
                 PROVE  levels'[k].queue[i] < levels'[k].queue[j]
      BY DEF ArrivalOrder
    <3>1. CASE k = m
      <4>1. i = 1 /\ j = 1
        BY <2>2, <2>3, <3>1
      <4> QED BY <4>1
    <3>2. CASE k # m
      BY <2>3, <3>2 DEF BookInv, ArrivalOrder
    <3> QED BY <3>1, <3>2
  <2> QED BY <1>8, <1>9, <2>3, <2>8, <2>9, <2>10, <2>11 DEF BookInv
<1>11. CASE l # 0
  <2> DEFINE q == levels[l].queue
             r == Append(q, m)
  <2>0. l \in DOMAIN levels /\ levels[l].side = o.side /\ h = l
    BY <1>4, <1>11
  <2>1. /\ levels' = [levels EXCEPT ![l].queue = r]
        /\ rings' = rings /\ price_levels' = price_levels
    BY <1>11 DEF AddOrder, Enqueue
  <2>2. q \in Seq(OrderNames)
        /\ ToSet(q) = {n \in DOMAIN orders : orders[n].home = l}
    BY <2>0 DEF BookInv, BookTypeOK, Level, Linked
  <2> HIDE DEF l
  <2>3. /\ r \in Seq(OrderNames) /\ Len(r) = Len(q) + 1 /\ Len(q) \in Nat
        /\ DOMAIN r = 1 .. Len(q) + 1 /\ DOMAIN q = 1 .. Len(q)
        /\ \A k \in 1 .. Len(q) : r[k] = q[k]
        /\ r[Len(q) + 1] = m
    <3> HIDE DEF q
    <3> QED BY <2>2
  <2> HIDE DEF r, q
  <2>4. ToSet(r) = ToSet(q) \cup {m} /\ r # <<>>
    <3>1. ToSet(r) \subseteq ToSet(q) \cup {m}
      BY <2>3 DEF ToSet
    <3>2. ToSet(q) \subseteq ToSet(r)
      BY <2>3 DEF ToSet
    <3>3. m \in ToSet(r)
      BY <2>3 DEF ToSet
    <3>4. r # <<>>
      BY <2>3
    <3> QED BY <3>1, <3>2, <3>3, <3>4
  <2>5. /\ DOMAIN levels' = DOMAIN levels
        /\ \A k \in DOMAIN levels :
             /\ levels'[k].side = levels[k].side
             /\ levels'[k].price = levels[k].price
             /\ k # l => levels'[k] = levels[k]
        /\ levels'[l].queue = r
    BY <2>0, <2>1 DEF BookInv, BookTypeOK, Level
  <2>6. BookTypeOK'
    <3>1. levels' \in [DOMAIN levels -> Level]
      BY <2>0, <2>1, <2>3 DEF BookInv, BookTypeOK, Level
    <3> QED BY <1>t, <2>1, <2>5, <3>1 DEF BookInv, BookTypeOK
  <2>7. Linked'
    <3>1. ASSUME NEW side \in Sides
          PROVE  /\ IsInjective(rings'[side])
                 /\ ToSet(rings'[side]) =
                      {k \in DOMAIN levels' : levels'[k].side = side}
      BY <2>1, <2>5 DEF BookInv, Linked
    <3>2. ASSUME NEW k \in DOMAIN levels'
          PROVE  /\ levels'[k].queue # <<>>
                 /\ ToSet(levels'[k].queue) =
                      {n \in DOMAIN orders' : orders'[n].home = k}
      <4>1. CASE k = l
        BY <1>3, <1>6, <1>8, <2>0, <2>2, <2>4, <2>5, <4>1
      <4>2. CASE k # l
        BY <1>3, <1>6, <1>8, <2>0, <2>5, <4>2 DEF BookInv, Linked
      <4> QED BY <4>1, <4>2
    <3>3. ASSUME NEW n \in DOMAIN orders'
          PROVE  /\ orders'[n].home \in DOMAIN levels'
                 /\ levels'[orders'[n].home].side = orders'[n].side
      BY <1>6, <1>8, <2>0, <2>5 DEF BookInv, Linked
    <3> QED BY <3>1, <3>2, <3>3 DEF Linked
  <2>8. SlotsSound'
    BY <2>1, <2>5 DEF BookInv, SlotsSound, PriceToIndex
  <2>9. ArrivalOrder'
    <3> SUFFICES ASSUME NEW k \in DOMAIN levels',
                        NEW i \in DOMAIN levels'[k].queue,
                        NEW j \in DOMAIN levels'[k].queue, i < j
                 PROVE  levels'[k].queue[i] < levels'[k].queue[j]
      BY DEF ArrivalOrder
    <3>1. CASE k = l
      <4>1. \A a, b \in DOMAIN q : a < b => q[a] < q[b]
        BY <2>0 DEF BookInv, ArrivalOrder, q
      <4>2. \A a \in DOMAIN q : q[a] < m
        <5>1. \A n \in ToSet(q) : n < m
          BY <2>2
        <5> QED BY <5>1 DEF ToSet
      <4>3. i \in DOMAIN r /\ j \in DOMAIN r
        BY <2>5, <3>1
      <4>4. r[i] < r[j]
        <5>1. CASE j = Len(q) + 1
          <6>1. i \in DOMAIN q
            BY <2>3, <4>3, <5>1
          <6> QED BY <2>3, <4>2, <5>1, <6>1
        <5>2. CASE j # Len(q) + 1
          <6>1. i \in DOMAIN q /\ j \in DOMAIN q
            BY <2>3, <4>3, <5>2
          <6> QED BY <2>3, <4>1, <6>1
        <5> QED BY <5>1, <5>2
      <4> QED BY <2>5, <3>1, <4>4
    <3>2. CASE k # l
      BY <2>5, <3>2 DEF BookInv, ArrivalOrder
    <3> QED BY <3>1, <3>2
  <2> QED BY <1>8, <1>9, <2>5, <2>6, <2>7, <2>8, <2>9 DEF BookInv
<1> QED
  BY <1>10, <1>11
\* A new quantity in a live order disturbs no structure.
LEMMA QtyKeepsBook ==
    ASSUME BookInv, NEW m \in DOMAIN orders, NEW n \in Nat,
           orders' = [orders EXCEPT ![m].qty = n],
           UNCHANGED <<levels, rings, price_levels, client_orders>>
    PROVE  BookInv' /\ DOMAIN orders' = DOMAIN orders
<1>1. /\ DOMAIN orders' = DOMAIN orders
      /\ orders' \in [DOMAIN orders -> Order]
      /\ \A k \in DOMAIN orders :
           /\ orders'[k].client = orders[k].client
           /\ orders'[k].oid = orders[k].oid
           /\ orders'[k].side = orders[k].side
           /\ orders'[k].home = orders[k].home
  BY DEF BookInv, BookTypeOK, Order
<1>2. BookTypeOK'
  BY <1>1 DEF BookInv, BookTypeOK
<1>3. Linked'
  BY <1>1 DEF BookInv, Linked
<1>4. SlotsSound' /\ ArrivalOrder'
  BY DEF BookInv, SlotsSound, ArrivalOrder, PriceToIndex
<1>5. IndexSound'
  BY <1>1 DEF BookInv, IndexSound
<1> QED
  BY <1>1, <1>2, <1>3, <1>4, <1>5 DEF BookInv

\* The invariant only reads the variables of the book.
LEMMA BookUnchanged ==
    ASSUME BookInv, UNCHANGED book
    PROVE  BookInv'
BY DEF BookInv, book, BookTypeOK, Linked, SlotsSound, ArrivalOrder, IndexSound,
       PriceToIndex

-----------------------------------------------------------------------------
\* The steps.

\* The empty book satisfies the invariant.
LEMMA InitInv == Init => IInv
<1> SUFFICES ASSUME Init PROVE IInv
  OBVIOUS
<1>1. TypeOK
  <2>1. ASSUME NEW S
        PROVE  <<>> \in [DOMAIN <<>> -> S] /\ DOMAIN <<>> = {}
    <3>1. <<>> \in Seq(S) /\ Len(<<>>) = 0
      OBVIOUS
    <3> QED BY <3>1, LenProperties
  <2>2. rings \in [Sides -> Seq(OrderNames)]
    BY DEF Init
  <2>3. /\ price_levels \in [Slots -> {0} \cup OrderNames]
        /\ client_orders \in [Clients -> [OrderIds -> {0} \cup OrderNames]]
    BY DEF Init
  <2>4. BookTypeOK
    BY <2>1, <2>2, <2>3 DEF Init, BookTypeOK
  <2>5. next_market_order_id \in 1 .. MaxMarketOrders + 1
    BY ConstantsAssumption DEF Init
  <2> QED BY <2>4, <2>5 DEF Init, TypeOK
<1>2. Fresh
  BY DEF Init, Fresh, NoAggressor
<1>3. Linked
  <2>1. ToSet(<<>>) = {} /\ IsInjective(<<>>)
    BY DEF ToSet, IsInjective
  <2> QED BY <2>1 DEF Init, Linked
<1>4. SlotsSound /\ ArrivalOrder
  BY DEF Init, SlotsSound, ArrivalOrder
<1>5. IndexSound
  BY DEF Init, IndexSound
<1> QED
  BY <1>1, <1>2, <1>3, <1>4, <1>5 DEF IInv, BookInv, TypeOK

\* While add() runs, the aggressor has all its fields.
LEMMA ActiveAggressor ==
    ASSUME TypeOK, aggressor.active
    PROVE  aggressor \in Aggressor
BY DEF TypeOK, NoAggressor

\* The order add() trades with is live, and the oldest of its level.
LEMMA BestOppositeOldest ==
    ASSUME IInv, CanMatch
    PROVE  /\ BestOpposite \in DOMAIN orders
           /\ \A k \in DOMAIN orders :
                orders[k].home = orders[BestOpposite].home => BestOpposite <= k
<1> DEFINE side == Opposite(aggressor.side)
           l == rings[side][1]
<1>1. side \in Sides
  BY ActiveAggressor DEF CanMatch, IInv, Aggressor, Opposite, Sides
<1>2. rings[side] \in Seq(OrderNames) /\ rings[side] # <<>>
  BY <1>1 DEF CanMatch, IInv, TypeOK, BookTypeOK
<1>3. l \in ToSet(rings[side])
  BY <1>2 DEF ToSet
<1>4. l \in DOMAIN levels
  BY <1>1, <1>3 DEF IInv, BookInv, Linked
<1> HIDE DEF l
<1> QED
  BY <1>4, FirstOrderOldest DEF IInv, BestOpposite, l

\* A step that runs into undefined behaviour leaves the invariant as it is.
LEMMA FaultInv ==
    ASSUME IInv, Fault
    PROVE  IInv'
<1>1. BookInv'
  BY BookUnchanged DEF IInv, Fault
<1>2. TypeOK'
  BY <1>1 DEF IInv, Fault, TypeOK, BookInv
<1>3. Fresh'
  BY DEF IInv, Fault, Fresh, book
<1> QED
  BY <1>1, <1>2, <1>3 DEF IInv

\* BeginAdd hands out a name above all live ones.
LEMMA BeginAddInv ==
    ASSUME IInv, BookInv', fault' = fault,
           DOMAIN orders' \subseteq DOMAIN orders,
           DOMAIN levels' \subseteq DOMAIN levels,
           NEW c \in Clients, NEW oid \in OrderIds, NEW side \in Sides,
           NEW price \in Prices, NEW qty \in Quantities, NEW sent,
           BeginAdd(c, oid, side, price, qty, sent)
    PROVE  IInv'
<1>1. qty \in Nat /\ next_market_order_id \in OrderNames
      /\ next_market_order_id' = next_market_order_id + 1
      /\ next_market_order_id' \in 1 .. MaxMarketOrders + 1
  BY ConstantsAssumption DEF BeginAdd, IInv, TypeOK, OrderNames
<1>2. aggressor' \in Aggressor /\ aggressor'.active
      /\ aggressor'.moid = next_market_order_id
  BY <1>1 DEF BeginAdd, Aggressor
<1>3. TypeOK'
  BY <1>1, <1>2 DEF IInv, TypeOK, BookInv
<1>4. next_market_order_id \in Nat /\
      \A m \in DOMAIN orders' \cup DOMAIN levels' :
          m \in Nat /\ m < next_market_order_id
  BY <1>1, NamesPositive DEF IInv, Fresh, TypeOK, BookTypeOK
<1>5. Fresh'
  BY <1>1, <1>2, <1>4 DEF Fresh
<1> QED
  BY <1>3, <1>5 DEF IInv

\* The control variables stay as they are, or add() ends: nothing more lives.
LEMMA ControlInv ==
    ASSUME IInv, BookInv', fault' = fault,
           next_market_order_id' = next_market_order_id,
           DOMAIN orders' \subseteq DOMAIN orders,
           DOMAIN levels' \subseteq DOMAIN levels,
           \/ aggressor' = aggressor
           \/ /\ aggressor' \in Aggressor /\ aggressor.active
              /\ aggressor'.moid = aggressor.moid
    PROVE  IInv'
<1>1. aggressor'.active => aggressor.active /\ aggressor'.moid = aggressor.moid
  OBVIOUS
<1>2. TypeOK'
  BY DEF IInv, TypeOK, BookInv
<1>3. Fresh'
  BY <1>1 DEF IInv, Fresh
<1> QED
  BY <1>2, <1>3 DEF IInv

\* An entry of client_orders_ names a live order.
LEMMA EntryLive ==
    ASSUME IInv, NEW c \in Clients, NEW oid \in OrderIds,
           client_orders[c][oid] # 0
    PROVE  client_orders[c][oid] \in DOMAIN orders
BY DEF IInv, BookInv, IndexSound

\* A request to add an order keeps the invariant: it only takes the next id.
LEMMA AddInv ==
    ASSUME IInv, NEW c \in Clients, NEW oid \in OrderIds, NEW side \in Sides,
           NEW price \in Prices, NEW qty \in Quantities,
           Add(c, oid, side, price, qty)
    PROVE  IInv'
<1>1. BookInv' /\ fault' = fault /\ orders' = orders /\ levels' = levels
  BY BookUnchanged DEF Add, IInv, book
<1>2. BeginAdd(c, oid, side, price, qty, <<>>)
  BY DEF Add
<1> QED
  BY <1>1, <1>2, BeginAddInv

\* cancel() keeps the invariant, rejected, faulty or not.
LEMMA CancelInv ==
    ASSUME IInv, NEW c \in Clients, NEW oid \in OrderIds, Cancel(c, oid)
    PROVE  IInv'
<1> DEFINE m == client_orders[c][oid]
<1>1. CASE m = 0
  <2>1. BookInv' /\ orders' = orders /\ levels' = levels
    BY <1>1, BookUnchanged DEF Cancel, IInv, book
  <2> QED BY <1>1, <2>1, ControlInv DEF Cancel
<1>2. CASE m # 0 /\ RemoveIsDefined(m)
  <2>1. m \in DOMAIN orders
    BY <1>2, EntryLive
  <2>2. RemoveOrder(m) /\ UNCHANGED <<next_market_order_id, aggressor, fault>>
    BY <1>2 DEF Cancel
  <2> HIDE DEF m
  <2>3. /\ BookInv'
        /\ DOMAIN orders' \subseteq DOMAIN orders
        /\ DOMAIN levels' \subseteq DOMAIN levels
    BY <1>2, <2>1, <2>2, RemoveKeepsBook DEF IInv
  <2> QED BY <2>2, <2>3, ControlInv
<1>3. CASE m # 0 /\ ~RemoveIsDefined(m)
  <2>1. Fault
    BY <1>3 DEF Cancel
  <2> QED BY <2>1, FaultInv
<1> QED
  BY <1>1, <1>2, <1>3

\* modify() keeps the invariant, in place or as a cancel with an add.
LEMMA ModifyInv ==
    ASSUME IInv, NEW c \in Clients, NEW oid \in OrderIds,
           NEW price \in Prices, NEW qty \in Quantities,
           Modify(c, oid, price, qty)
    PROVE  IInv'
<1> DEFINE m == client_orders[c][oid]
           o == orders[m]
           replace == o.price # price \/ o.qty < qty
<1>1. CASE m = 0
  <2>1. BookInv' /\ orders' = orders /\ levels' = levels
    BY <1>1, BookUnchanged DEF Modify, IInv, book
  <2> QED BY <1>1, <2>1, ControlInv DEF Modify
<1>2. CASE m # 0 /\ replace /\ RemoveIsDefined(m)
  <2>1. m \in DOMAIN orders
    BY <1>2, EntryLive
  <2>2. /\ RemoveOrder(m) /\ fault' = fault
        /\ BeginAdd(c, oid, o.side, price, qty, <<Canceled(m)>>)
    BY <1>2 DEF Modify
  <2>3. o.side \in Sides
    BY <2>1 DEF IInv, BookInv, BookTypeOK, Order
  <2> HIDE DEF m
  <2>4. /\ BookInv'
        /\ DOMAIN orders' \subseteq DOMAIN orders
        /\ DOMAIN levels' \subseteq DOMAIN levels
    BY <1>2, <2>1, <2>2, RemoveKeepsBook DEF IInv
  <2> HIDE DEF o
  <2> QED BY <2>2, <2>3, <2>4, BeginAddInv
<1>3. CASE m # 0 /\ replace /\ ~RemoveIsDefined(m)
  <2>1. Fault
    BY <1>3 DEF Modify
  <2> QED BY <2>1, FaultInv
<1>4. CASE m # 0 /\ ~replace
  <2>1. m \in DOMAIN orders /\ qty \in Nat
    BY <1>4, EntryLive, ConstantsAssumption
  <2>2. /\ orders' = [orders EXCEPT ![m].qty = qty]
        /\ UNCHANGED <<levels, rings, price_levels, client_orders>>
        /\ UNCHANGED <<next_market_order_id, aggressor, fault>>
    BY <1>4 DEF Modify
  <2> HIDE DEF m
  <2>3. BookInv' /\ DOMAIN orders' = DOMAIN orders
    BY <2>1, <2>2, QtyKeepsBook DEF IInv
  <2> QED BY <2>2, <2>3, ControlInv
<1> QED
  BY <1>1, <1>2, <1>3, <1>4

\* One iteration of check_for_match keeps the invariant.
LEMMA MatchInv ==
    ASSUME IInv, Match
    PROVE  IInv'
<1> DEFINE a == aggressor
           m == BestOpposite
           o == orders[m]
           matched == MatchedQty(a.leaves, o.qty)
           leaves  == a.leaves - matched
           left    == o.qty - matched
<1>1. CanMatch /\ a \in Aggressor /\ a.active
  BY ActiveAggressor DEF Match, CanMatch, IInv
<1>2. m \in DOMAIN orders
  BY <1>1, BestOppositeOldest
<1>3. a.leaves \in Nat /\ o.qty \in Nat
  BY <1>1, <1>2 DEF Aggressor, IInv, BookInv, BookTypeOK, Order
<1>4. leaves \in Nat /\ left \in Nat
  BY <1>3 DEF MatchedQty
<1>5. Fault \/ /\ aggressor' = [a EXCEPT !.leaves = leaves]
               /\ UNCHANGED <<next_market_order_id, fault>>
  BY DEF Match
<1>6. \/ /\ orders' = [orders EXCEPT ![m].qty = left]
         /\ UNCHANGED <<levels, rings, price_levels, client_orders>>
      \/ RemoveIsDefined(m) /\ RemoveOrder(m)
      \/ Fault
  BY DEF Match
<1>7. CASE Fault
  BY <1>7, FaultInv
<1>8. CASE ~Fault
  <2>1. aggressor' \in Aggressor /\ aggressor'.moid = aggressor.moid
    BY <1>1, <1>4, <1>5, <1>8 DEF Aggressor
  <2> HIDE DEF m, left
  <2>2. /\ BookInv'
        /\ DOMAIN orders' \subseteq DOMAIN orders
        /\ DOMAIN levels' \subseteq DOMAIN levels
    <3>1. CASE /\ orders' = [orders EXCEPT ![m].qty = left]
               /\ UNCHANGED <<levels, rings, price_levels, client_orders>>
      BY <1>2, <1>4, <3>1, QtyKeepsBook DEF IInv
    <3>2. CASE RemoveIsDefined(m) /\ RemoveOrder(m)
      BY <1>2, <3>2, RemoveKeepsBook DEF IInv
    <3> QED BY <1>6, <1>8, <3>1, <3>2
  <2> QED BY <1>1, <1>5, <1>8, <2>1, <2>2, ControlInv
<1> QED
  BY <1>7, <1>8

\* The priority of a new order is a natural number.
LEMMA PriorityIsNat ==
    ASSUME IInv, NEW side \in Sides, NEW price \in Prices
    PROVE  GetOrderPriorityAtPriceLevel(side, price) \in Nat
<1> DEFINE l == GetPriceLevel(side, price)
           priority == GetOrderPriorityAtPriceLevel(side, price)
<1>1. CASE l = 0
  BY <1>1 DEF GetOrderPriorityAtPriceLevel
<1>2. CASE l # 0
  <2>1. PriceToIndex(price) \in Slots
    BY IndexIsSlot
  <2>2. l \in DOMAIN levels
    BY <1>2, <2>1 DEF GetPriceLevel, IInv, BookInv, SlotsSound
  <2>3. priority = orders[FirstOrder(l)].priority + 1
    BY <1>2 DEF GetOrderPriorityAtPriceLevel
  <2> HIDE DEF l
  <2>4. FirstOrder(l) \in DOMAIN orders
    BY <2>2, FirstOrderOldest DEF IInv
  <2>5. orders[FirstOrder(l)].priority \in Nat
    BY <2>4 DEF IInv, BookInv, BookTypeOK, Order
  <2> QED BY <2>3, <2>5
<1> QED BY <1>1, <1>2

\* The end of add() keeps the invariant: the rest of the order is new to the book.
LEMMA FinishInv ==
    ASSUME IInv, Finish
    PROVE  IInv'
<1> DEFINE a == aggressor
           priority == GetOrderPriorityAtPriceLevel(a.side, a.price)
           new == [client |-> a.client, oid |-> a.oid, side |-> a.side,
                   price |-> a.price, qty |-> a.leaves, priority |-> priority,
                   home |-> 0]
<1>1. a \in Aggressor /\ a.active
  BY ActiveAggressor DEF Finish, IInv
<1>2. priority \in Nat
  BY <1>1, PriorityIsNat DEF Aggressor
<1> HIDE DEF priority
<1>3. CASE /\ aggressor' = NoAggressor
           /\ UNCHANGED <<book, next_market_order_id, fault>>
  <2>1. BookInv' /\ orders' = orders /\ levels' = levels
    BY <1>3, BookUnchanged DEF IInv, book
  <2>2. TypeOK'
    BY <1>3, <2>1 DEF IInv, TypeOK, BookInv
  <2>3. Fresh'
    BY <1>3, <2>1 DEF IInv, Fresh, NoAggressor
  <2> QED BY <2>1, <2>2, <2>3 DEF IInv
<1>4. CASE /\ AddOrder(a.moid, new) /\ aggressor' = NoAggressor
           /\ UNCHANGED <<next_market_order_id, fault>>
  <2>1. /\ new \in [client : Clients, oid : OrderIds, side : Sides,
                     price : Prices, qty : Nat, priority : Nat, home : {0}]
        /\ a.moid \in OrderNames
    BY <1>1, <1>2 DEF Aggressor
  <2>2. /\ \A k \in DOMAIN orders \cup DOMAIN levels : k < a.moid
        /\ \A k \in DOMAIN orders \cup DOMAIN levels : k < next_market_order_id
        /\ a.moid < next_market_order_id
    BY <1>1 DEF IInv, Fresh
  <2> HIDE DEF new
  <2>3. /\ BookInv'
        /\ DOMAIN orders' \subseteq DOMAIN orders \cup {a.moid}
        /\ DOMAIN levels' \subseteq DOMAIN levels \cup {a.moid}
    BY <1>4, <2>1, <2>2, AddKeepsBook DEF IInv
  <2>4. TypeOK'
    BY <1>4, <2>3 DEF IInv, TypeOK, BookInv
  <2>5. Fresh'
    BY <1>4, <2>2, <2>3 DEF Fresh, NoAggressor
  <2> QED BY <2>3, <2>4, <2>5 DEF IInv
<1>5. CASE Fault
  BY <1>5, FaultInv
<1> QED
  BY <1>3, <1>4, <1>5 DEF Finish, priority

\* Every step preserves the invariant.
LEMMA NextInv == IInv /\ [Next]_vars => IInv'
<1> SUFFICES ASSUME IInv, [Next]_vars PROVE IInv'
  OBVIOUS
<1>1. ASSUME NEW c \in Clients, NEW oid \in OrderIds, Cancel(c, oid)
      PROVE  IInv'
  BY <1>1, CancelInv
<1>2. ASSUME NEW c \in Clients, NEW oid \in OrderIds, NEW price \in Prices,
             NEW qty \in Quantities, Modify(c, oid, price, qty)
      PROVE  IInv'
  BY <1>2, ModifyInv
<1>3. ASSUME NEW c \in Clients, NEW oid \in OrderIds, NEW price \in Prices,
             NEW qty \in Quantities, NEW side \in Sides,
             Add(c, oid, side, price, qty)
      PROVE  IInv'
  BY <1>3, AddInv
<1>4. CASE Match
  BY <1>4, MatchInv
<1>5. CASE Finish
  BY <1>5, FinishInv
<1>6. CASE UNCHANGED vars
  <2>1. BookInv' /\ UNCHANGED <<orders, levels>>
    BY <1>6, BookUnchanged DEF vars, IInv, book
  <2> QED BY <1>6, <2>1, ControlInv DEF vars
<1> QED
  BY <1>1, <1>2, <1>3, <1>4, <1>5, <1>6 DEF Next, Request

-----------------------------------------------------------------------------
\* Priorities.

\* The priorities of the orders f along the list q.
Ranked(q, f) ==
    \A i, j \in DOMAIN q : i < j => /\ f[q[i]].priority <= f[q[j]].priority
                                    /\ f[q[j]].priority <= f[q[1]].priority + 1

\* An order that leaves its level leaves the others in their places.
LEMMA RankedRemove ==
    ASSUME NEW S, NEW q \in Seq(S), NEW f, \A x \in S : f[x].priority \in Nat,
           NEW n \in 1 .. Len(q), Ranked(q, f)
    PROVE  Ranked(RemoveAt(q, n), f)
<1> DEFINE r == RemoveAt(q, n)
           p(k) == IF k < n THEN k ELSE k + 1
           v(k) == f[q[k]].priority
<1>1. /\ r \in Seq(S) /\ Len(r) = Len(q) - 1 /\ Len(q) \in Nat
      /\ \A k \in 1 .. Len(q) - 1 : r[k] = q[p(k)]
  BY RemoveAtElements
<1>2. /\ \A k \in 1 .. Len(q) : v(k) \in Nat
      /\ \A i, j \in 1 .. Len(q) : i < j => v(i) <= v(j) /\ v(j) <= v(1) + 1
  BY DEF Ranked
<1> SUFFICES ASSUME NEW i \in 1 .. Len(q) - 1, NEW j \in 1 .. Len(q) - 1, i < j
             PROVE  v(p(i)) <= v(p(j)) /\ v(p(j)) <= v(p(1)) + 1
  <2> HIDE DEF r, p
  <2>1. DOMAIN r = 1 .. Len(q) - 1
    BY <1>1
  <2>2. \A k \in DOMAIN r : f[r[k]].priority = v(p(k))
    BY <1>1, <2>1
  <2> HIDE DEF v
  <2>3. \A i \in DOMAIN r : 1 \in DOMAIN r
    BY <1>1, <2>1
  <2>4. Ranked(r, f)
    BY <2>1, <2>2, <2>3, SMTT(60) DEF Ranked
  <2> QED BY <2>4 DEF r
<1> HIDE DEF v
<1>3. /\ p(i) \in 1 .. Len(q) /\ p(j) \in 1 .. Len(q) /\ p(i) < p(j)
      /\ p(1) \in 1 .. Len(q) /\ (p(1) = 1 \/ 1 < p(1)) /\ 1 \in 1 .. Len(q)
      /\ 1 < p(j)
  BY <1>1
<1> HIDE DEF p
<1>4. v(p(j)) <= v(1) + 1 /\ v(p(i)) <= v(p(j))
  BY <1>2, <1>3
<1>5. v(1) <= v(p(1)) /\ v(1) \in Nat /\ v(p(1)) \in Nat /\ v(p(j)) \in Nat
  <2>1. v(1) \in Nat /\ v(p(1)) \in Nat /\ v(p(j)) \in Nat
    BY <1>2, <1>3
  <2>2. CASE p(1) = 1
    BY <2>1, <2>2
  <2>3. CASE 1 < p(1)
    BY <1>2, <1>3, <2>3
  <2> QED BY <1>3, <2>1, <2>2, <2>3
<1> QED BY <1>4, <1>5

\* A new order gets the first one's priority plus one, and that is as high as any.
LEMMA RankedAppend ==
    ASSUME NEW S, NEW q \in Seq(S), q # <<>>, NEW f, \A x \in S : f[x].priority \in Nat,
           NEW m \in S, f[m].priority = f[q[1]].priority + 1, Ranked(q, f)
    PROVE  Ranked(Append(q, m), f)
<1> DEFINE r == Append(q, m)
           v(k) == f[q[k]].priority
           l == Len(q)
<1>1. /\ l \in Nat \ {0} /\ DOMAIN q = 1 .. l /\ DOMAIN r = 1 .. l + 1
      /\ \A k \in 1 .. l : r[k] = q[k]
      /\ r[l + 1] = m
  <2>1. Len(q) \in Nat \ {0} /\ DOMAIN q = 1 .. Len(q)
    OBVIOUS
  <2>2. /\ r \in Seq(S) /\ Len(r) = Len(q) + 1
        /\ \A k \in 1 .. Len(q) : r[k] = q[k]
        /\ r[Len(q) + 1] = m
    BY AppendProperties
  <2> HIDE DEF r
  <2> QED BY <2>1, <2>2
<1>2. /\ \A k \in 1 .. l : v(k) \in Nat
      /\ \A i, j \in 1 .. l : i < j => v(i) <= v(j) /\ v(j) <= v(1) + 1
      /\ f[m].priority = v(1) + 1
  <2> HIDE DEF r
  <2>1. \A k \in 1 .. l : q[k] \in S
    BY ElementOfSeq
  <2>2. \A k \in 1 .. l : v(k) \in Nat
    BY <2>1
  <2> QED BY <1>1, <2>2 DEF Ranked
<1>3. /\ \A k \in 1 .. l : f[r[k]].priority = v(k)
      /\ f[r[l + 1]].priority = v(1) + 1
  BY <1>1
<1> HIDE DEF r, v, l
<1> SUFFICES ASSUME NEW i \in 1 .. l + 1, NEW j \in 1 .. l + 1, i < j
             PROVE  /\ f[r[i]].priority <= f[r[j]].priority
                    /\ f[r[j]].priority <= f[r[1]].priority + 1
  BY <1>1 DEF Ranked, r
<1>4. 1 \in 1 .. l /\ i \in 1 .. l /\ f[r[1]].priority = v(1) /\ f[r[i]].priority = v(i)
      /\ v(1) \in Nat /\ v(i) \in Nat
  BY <1>1, <1>2, <1>3
<1>5. v(i) <= v(1) + 1
  <2>1. CASE i = 1
    BY <1>4, <2>1
  <2>2. CASE i # 1
    <3>1. 1 < i
      BY <2>2
    <3> QED BY <1>2, <1>4, <3>1
  <2> QED BY <2>1, <2>2
<1>6. CASE j = l + 1
  BY <1>3, <1>4, <1>5, <1>6
<1>7. CASE j # l + 1
  <2>1. j \in 1 .. l
    BY <1>1, <1>7
  <2> QED BY <1>2, <1>3, <1>4, <2>1
<1> QED BY <1>6, <1>7

\* Outside the end of add() a step leaves the book as it is, removes an order or
\* changes the quantity of one.
LEMMA BookSteps ==
    ASSUME IInv, Next
    PROVE  \/ Finish
           \/ UNCHANGED book
           \/ \E m \in DOMAIN orders : RemoveIsDefined(m) /\ RemoveOrder(m)
           \/ \E m \in DOMAIN orders, n \in Nat :
                /\ orders' = [orders EXCEPT ![m].qty = n]
                /\ UNCHANGED <<levels, rings, price_levels, client_orders>>
<1> DEFINE Changed ==
             \/ UNCHANGED book
             \/ \E m \in DOMAIN orders : RemoveIsDefined(m) /\ RemoveOrder(m)
             \/ \E m \in DOMAIN orders, n \in Nat :
                  /\ orders' = [orders EXCEPT ![m].qty = n]
                  /\ UNCHANGED <<levels, rings, price_levels, client_orders>>
<1>1. ASSUME NEW c \in Clients, NEW oid \in OrderIds, Cancel(c, oid)
      PROVE  Changed
  <2> DEFINE m == client_orders[c][oid]
  <2>1. UNCHANGED book \/ (m # 0 /\ RemoveIsDefined(m) /\ RemoveOrder(m))
    BY <1>1 DEF Cancel, Fault
  <2>2. m # 0 => m \in DOMAIN orders
    BY EntryLive
  <2> HIDE DEF m
  <2> QED BY <2>1, <2>2
<1>2. ASSUME NEW c \in Clients, NEW oid \in OrderIds, NEW price \in Prices,
             NEW qty \in Quantities, Modify(c, oid, price, qty)
      PROVE  Changed
  <2>1. qty \in Nat
    BY ConstantsAssumption
  <2> DEFINE m == client_orders[c][oid]
  <2>2. \/ UNCHANGED book
        \/ m # 0 /\ RemoveIsDefined(m) /\ RemoveOrder(m)
        \/ /\ m # 0 /\ orders' = [orders EXCEPT ![m].qty = qty]
           /\ UNCHANGED <<levels, rings, price_levels, client_orders>>
    BY <1>2 DEF Modify, Fault
  <2>3. m # 0 => m \in DOMAIN orders
    BY EntryLive
  <2> HIDE DEF m
  <2> QED BY <2>1, <2>2, <2>3
<1>3. ASSUME NEW c \in Clients, NEW oid \in OrderIds, NEW price \in Prices,
             NEW qty \in Quantities, NEW side \in Sides,
             Add(c, oid, side, price, qty)
      PROVE  Changed
  BY <1>3 DEF Add
<1>4. CASE Match
  <2> DEFINE m == BestOpposite
             n == orders[m].qty - MatchedQty(aggressor.leaves, orders[m].qty)
  <2>1. \/ UNCHANGED book
        \/ RemoveIsDefined(m) /\ RemoveOrder(m)
        \/ /\ orders' = [orders EXCEPT ![m].qty = n]
           /\ UNCHANGED <<levels, rings, price_levels, client_orders>>
    BY <1>4 DEF Match, Fault
  <2>2. m \in DOMAIN orders /\ aggressor \in Aggressor
    BY <1>4, BestOppositeOldest, ActiveAggressor DEF Match, CanMatch, IInv
  <2>3. n \in Nat
    <3>1. aggressor.leaves \in Nat /\ orders[m].qty \in Nat
      BY <2>2 DEF Aggressor, IInv, BookInv, BookTypeOK, Order
    <3> HIDE DEF m
    <3> QED BY <3>1 DEF MatchedQty
  <2> HIDE DEF m, n
  <2> QED BY <2>1, <2>2, <2>3
<1>5. CASE Request
  <2> PICK c \in Clients, oid \in OrderIds :
        \/ Cancel(c, oid)
        \/ \E price \in Prices, qty \in Quantities :
              \/ Modify(c, oid, price, qty)
              \/ \E side \in Sides : Add(c, oid, side, price, qty)
    BY <1>5 DEF Request
  <2>1. CASE Cancel(c, oid)
    BY <1>1, <2>1
  <2>2. CASE \E price \in Prices, qty \in Quantities :
               \/ Modify(c, oid, price, qty)
               \/ \E side \in Sides : Add(c, oid, side, price, qty)
    <3> PICK price \in Prices, qty \in Quantities :
          \/ Modify(c, oid, price, qty)
          \/ \E side \in Sides : Add(c, oid, side, price, qty)
      BY <2>2
    <3>1. CASE Modify(c, oid, price, qty)
      BY <1>2, <3>1
    <3>2. CASE \E side \in Sides : Add(c, oid, side, price, qty)
      BY <1>3, <3>2
    <3> QED BY <3>1, <3>2
  <2> QED BY <2>1, <2>2
<1> QED BY <1>4, <1>5 DEF Next

\* What remove_order leaves of the orders and of the lists in which they stand.
LEMMA RemoveEffect ==
    ASSUME BookInv, NEW m \in DOMAIN orders, RemoveOrder(m)
    PROVE  LET h == orders[m].home
               q == levels[h].queue
           IN  /\ DOMAIN orders' = DOMAIN orders \ {m}
               /\ \A k \in DOMAIN orders' : orders'[k] = orders[k]
               /\ \A l \in DOMAIN levels' :
                    /\ l \in DOMAIN levels
                    /\ levels'[l].side = levels[l].side /\ levels'[l].price = levels[l].price
                    /\ l # h => levels'[l] = levels[l]
                    /\ l = h => /\ IndexOf(q, m) \in 1 .. Len(q)
                                /\ levels'[l].queue = RemoveAt(q, IndexOf(q, m))
<1> DEFINE h == orders[m].home
           q == levels[h].queue
           r == RemoveAt(q, IndexOf(q, m))
<1>1. /\ h \in DOMAIN levels /\ q \in Seq(OrderNames) /\ m \in ToSet(q)
      /\ levels[h] \in Level
  BY OrderInLevel
<1>2. IndexOf(q, m) \in 1 .. Len(q)
  BY <1>1, IndexOfFinds
<1>3. orders' = Without(orders, m)
  BY DEF RemoveOrder
<1>4. /\ DOMAIN orders' = DOMAIN orders \ {m}
      /\ \A k \in DOMAIN orders' : orders'[k] = orders[k]
  BY <1>3 DEF Without
<1>5. levels' = Without(levels, h) \/ levels' = [levels EXCEPT ![h].queue = r]
  BY DEF RemoveOrder
<1>6. CASE levels' = Without(levels, h)
  <2>1. \A l \in DOMAIN levels' : l \in DOMAIN levels /\ l # h /\ levels'[l] = levels[l]
    BY <1>6 DEF Without
  <2> QED BY <1>4, <2>1
<1>7. CASE levels' = [levels EXCEPT ![h].queue = r]
  <2> HIDE DEF r
  <2>1. \A l \in DOMAIN levels' :
          /\ l \in DOMAIN levels
          /\ levels'[l].side = levels[l].side /\ levels'[l].price = levels[l].price
          /\ l # h => levels'[l] = levels[l]
          /\ l = h => levels'[l].queue = r
    BY <1>1, <1>7 DEF BookInv, BookTypeOK, Level
  <2> QED BY <1>2, <1>4, <2>1 DEF r
<1> QED BY <1>5, <1>6, <1>7

\* Every step keeps the priorities in order.
LEMMA PriorityStep ==
    ASSUME IInv, PriorityOrder, Next
    PROVE  PriorityOrder'
<1>0. BookInv
  BY DEF IInv
<1>1. \A l \in DOMAIN levels : Ranked(levels[l].queue, orders)
  BY DEF PriorityOrder, Ranked
<1>2. ASSUME \A l \in DOMAIN levels' : Ranked(levels'[l].queue, orders') PROVE PriorityOrder'
  BY <1>2 DEF PriorityOrder, Ranked
<1>3. /\ \A k \in DOMAIN orders : orders[k].priority \in Nat
      /\ \A l \in DOMAIN levels :
           /\ levels[l].queue \in Seq(OrderNames)
           /\ \A i \in DOMAIN levels[l].queue : levels[l].queue[i] \in DOMAIN orders
  <2>1. \A k \in DOMAIN orders : orders[k].priority \in Nat
    BY <1>0 DEF BookInv, BookTypeOK, Order
  <2>2. \A l \in DOMAIN levels : levels[l].queue \in Seq(OrderNames)
    BY <1>0 DEF BookInv, BookTypeOK, Level
  <2>3. ASSUME NEW l \in DOMAIN levels, NEW i \in DOMAIN levels[l].queue
        PROVE  levels[l].queue[i] \in DOMAIN orders
    <3>1. levels[l].queue[i] \in ToSet(levels[l].queue)
      BY DEF ToSet
    <3> QED BY <1>0, <3>1 DEF BookInv, Linked
  <2> QED BY <2>1, <2>2, <2>3
<1>4. ASSUME NEW m \in DOMAIN orders, RemoveIsDefined(m), RemoveOrder(m)
      PROVE  PriorityOrder'
  <2> DEFINE h == orders[m].home
             q == levels[h].queue
             n == IndexOf(q, m)
  <2>1. /\ DOMAIN orders' = DOMAIN orders \ {m}
        /\ \A k \in DOMAIN orders' : orders'[k] = orders[k]
        /\ \A l \in DOMAIN levels' :
             /\ l \in DOMAIN levels
             /\ l # h => levels'[l] = levels[l]
             /\ l = h => n \in 1 .. Len(q) /\ levels'[l].queue = RemoveAt(q, n)
    BY <1>0, <1>4, RemoveEffect
  <2>2. \A l \in DOMAIN levels' : \A i \in DOMAIN levels'[l].queue :
          levels'[l].queue[i] \in DOMAIN orders'
    <3>1. BookInv'
      BY <1>0, <1>4, RemoveKeepsBook
    <3> SUFFICES ASSUME NEW l \in DOMAIN levels', NEW i \in DOMAIN levels'[l].queue
                 PROVE  levels'[l].queue[i] \in DOMAIN orders'
      OBVIOUS
    <3>2. levels'[l].queue[i] \in ToSet(levels'[l].queue)
      BY DEF ToSet
    <3> QED BY <3>1, <3>2 DEF BookInv, Linked
  <2> SUFFICES ASSUME NEW l \in DOMAIN levels' PROVE Ranked(levels'[l].queue, orders')
    BY <1>2
  <2>3. Ranked(levels'[l].queue, orders)
    <3>1. CASE l # h
      BY <1>1, <2>1, <3>1
    <3>2. CASE l = h
      <4> HIDE DEF n
      <4>1. q \in Seq(DOMAIN orders)
        <5> HIDE DEF q
        <5> QED BY <1>3, <2>1, <3>2 DEF q
      <4>2. Ranked(q, orders) /\ n \in 1 .. Len(q)
        BY <1>1, <2>1, <3>2
      <4> HIDE DEF q
      <4> QED BY <1>3, <2>1, <3>2, <4>1, <4>2, RankedRemove
    <3> QED BY <3>1, <3>2
  <2>4. levels'[l].queue \in Seq(OrderNames)
    <3>1. BookInv'
      BY <1>0, <1>4, RemoveKeepsBook
    <3> QED BY <3>1 DEF BookInv, BookTypeOK, Level
  <2> DEFINE r == levels'[l].queue
  <2>5. /\ DOMAIN r = 1 .. Len(r) /\ Len(r) \in Nat
        /\ \A i \in DOMAIN r : orders'[r[i]] = orders[r[i]]
    BY <2>1, <2>2, <2>4
  <2>6. Ranked(r, orders)
    BY <2>3
  <2> HIDE DEF r
  <2>7. \A i \in DOMAIN r : 1 \in DOMAIN r
    BY <2>5
  <2>8. Ranked(r, orders')
    BY <2>5, <2>6, <2>7 DEF Ranked
  <2> QED BY <2>8 DEF r
<1>5. ASSUME UNCHANGED levels, DOMAIN orders' = DOMAIN orders,
             \A k \in DOMAIN orders : orders'[k].priority = orders[k].priority
      PROVE  PriorityOrder'
  <2> SUFFICES ASSUME NEW l \in DOMAIN levels PROVE Ranked(levels[l].queue, orders')
    BY <1>2, <1>5
  <2> DEFINE q == levels[l].queue
  <2>1. /\ Ranked(q, orders) /\ q \in Seq(OrderNames)
        /\ \A i \in DOMAIN q : q[i] \in DOMAIN orders
    BY <1>1, <1>3
  <2> HIDE DEF q
  <2>2. \A i \in DOMAIN q : 1 \in DOMAIN q
    BY <2>1
  <2>3. \A i \in DOMAIN q : orders'[q[i]].priority = orders[q[i]].priority
    BY <1>5, <2>1
  <2>4. Ranked(q, orders')
    BY <2>1, <2>2, <2>3 DEF Ranked
  <2> QED BY <2>4 DEF q
<1>6. CASE Finish
  <2> DEFINE a == aggressor
             m == a.moid
             l == GetPriceLevel(a.side, a.price)
             p == GetOrderPriorityAtPriceLevel(a.side, a.price)
             new == [client |-> a.client, oid |-> a.oid, side |-> a.side,
                     price |-> a.price, qty |-> a.leaves, priority |-> p, home |-> 0]
             h == IF l = 0 THEN m ELSE l
             oo == [new EXCEPT !.home = h]
  <2>1. CASE UNCHANGED <<orders, levels>>
    BY <1>5, <2>1
  <2>2. CASE AddOrder(m, new)
    <3>1. a \in Aggressor /\ a.active
      BY <1>6, ActiveAggressor DEF Finish, IInv
    <3>2. oo.priority = p
      OBVIOUS
    <3>3. /\ orders' = With(orders, m, oo)
          /\ l = 0 => levels' = With(levels, m,
                        [side |-> new.side, price |-> new.price, queue |-> <<m>>])
          /\ l # 0 => levels' = [levels EXCEPT ![l].queue = Append(@, m)]
      BY <2>2 DEF AddOrder, Enqueue
    <3>4. l # 0 => l \in DOMAIN levels
      <4>1. PriceToIndex(a.price) \in Slots
        BY <3>1, IndexIsSlot DEF Aggressor
      <4> QED BY <1>0, <4>1 DEF GetPriceLevel, BookInv, SlotsSound
    <3>5. /\ m \notin DOMAIN orders /\ m \notin DOMAIN levels
          /\ m \in OrderNames
      <4>1. m \in OrderNames /\ \A k \in DOMAIN orders \cup DOMAIN levels : k < m
        BY <3>1 DEF IInv, Fresh, Aggressor
      <4> HIDE DEF m
      <4>2. m \in Nat
        BY <4>1, NamesPositive
      <4> QED BY <4>1, <4>2
    <3> HIDE DEF oo, new
    <3>6. /\ DOMAIN orders' = DOMAIN orders \cup {m} /\ orders'[m].priority = p
          /\ \A k \in DOMAIN orders : orders'[k] = orders[k]
      BY <3>2, <3>3, <3>5 DEF With
    <3>7. ASSUME NEW k \in DOMAIN levels PROVE Ranked(levels[k].queue, orders')
      <4> DEFINE q == levels[k].queue
      <4>1. /\ Ranked(q, orders) /\ q \in Seq(OrderNames)
            /\ \A i \in DOMAIN q : q[i] \in DOMAIN orders
        BY <1>1, <1>3
      <4> HIDE DEF q
      <4>2. /\ \A i \in DOMAIN q : 1 \in DOMAIN q
            /\ \A i \in DOMAIN q : orders'[q[i]] = orders[q[i]]
        BY <3>6, <4>1
      <4>3. Ranked(q, orders')
        BY <4>1, <4>2 DEF Ranked
      <4> QED BY <4>3 DEF q
    <3>8. CASE l = 0
      <4> SUFFICES ASSUME NEW k \in DOMAIN levels' PROVE Ranked(levels'[k].queue, orders')
        BY <1>2
      <4>1. k = m \/ (k \in DOMAIN levels /\ levels'[k] = levels[k])
        BY <3>3, <3>5, <3>8 DEF With
      <4>2. levels'[m].queue = <<m>>
        BY <3>3, <3>5, <3>8 DEF With
      <4>3. Ranked(<<m>>, orders')
        BY DEF Ranked
      <4> QED BY <3>7, <4>1, <4>2, <4>3
    <3>9. CASE l # 0
      <4> SUFFICES ASSUME NEW k \in DOMAIN levels' PROVE Ranked(levels'[k].queue, orders')
        BY <1>2
      <4>0. l \in DOMAIN levels /\ levels[l] \in Level
        BY <1>0, <3>4, <3>9 DEF BookInv, BookTypeOK
      <4> DEFINE q == levels[l].queue
      <4>p. p = orders[q[1]].priority + 1 /\ q \in Seq(OrderNames) /\ q # <<>>
            /\ q[1] \in DOMAIN orders
        <5>1. p = orders[FirstOrder(l)].priority + 1
          BY <3>9 DEF GetOrderPriorityAtPriceLevel
        <5>2. q # <<>> /\ q \in Seq(OrderNames) /\ \A i \in DOMAIN q : q[i] \in DOMAIN orders
          BY <1>0, <1>3, <4>0 DEF BookInv, Linked
        <5>3. FirstOrder(l) = Head(q)
          BY DEF FirstOrder
        <5> HIDE DEF p, q
        <5>4. Head(q) = q[1] /\ 1 \in DOMAIN q
          BY <5>2
        <5> QED BY <5>1, <5>2, <5>3, <5>4
      <4> HIDE DEF l, p
      <4>1. /\ k \in DOMAIN levels
            /\ k # l => levels'[k] = levels[k]
            /\ k = l => levels'[k].queue = Append(q, m)
        BY <3>3, <3>9, <4>0 DEF Level
      <4>2. Ranked(Append(q, m), orders')
        <5>1. Ranked(q, orders') /\ \A i \in DOMAIN q : q[i] \in DOMAIN orders
          BY <1>3, <3>7, <4>0
        <5> HIDE DEF q
        <5>2. q \in Seq(DOMAIN orders')
          BY <3>6, <4>p, <5>1
        <5>3. \A x \in DOMAIN orders' : orders'[x].priority \in Nat
          BY <1>3, <3>6, <4>p
        <5>4. orders'[m].priority = orders'[q[1]].priority + 1 /\ m \in DOMAIN orders'
          BY <3>6, <4>p
        <5> HIDE DEF m
        <5> QED BY <4>p, <5>1, <5>2, <5>3, <5>4, RankedAppend
      <4> QED BY <3>7, <4>1, <4>2
    <3> QED BY <3>8, <3>9
  <2>3. UNCHANGED <<orders, levels>> \/ AddOrder(m, new)
    BY <1>6 DEF Finish, Fault, book
  <2> HIDE DEF new, m
  <2> QED BY <2>1, <2>2, <2>3
<1>7. ASSUME NEW m \in DOMAIN orders, NEW n, UNCHANGED levels,
             orders' = [orders EXCEPT ![m].qty = n]
      PROVE  PriorityOrder'
  <2>1. DOMAIN orders' = DOMAIN orders
        /\ \A k \in DOMAIN orders : orders'[k].priority = orders[k].priority
    BY <1>0, <1>7 DEF BookInv, BookTypeOK, Order
  <2> QED BY <1>5, <1>7, <2>1
<1>8. \/ Finish
      \/ UNCHANGED <<orders, levels>>
      \/ \E m \in DOMAIN orders : RemoveIsDefined(m) /\ RemoveOrder(m)
      \/ \E m \in DOMAIN orders, n \in Nat :
           orders' = [orders EXCEPT ![m].qty = n] /\ UNCHANGED levels
  BY BookSteps DEF book
<1> QED BY <1>4, <1>5, <1>6, <1>7, <1>8

\* No order is lost from its client's reach: the step that takes its entry is about
\* an order of the same client and client order id.
LEMMA IndexStep ==
    ASSUME IInv, Next
    PROVE  IndexKeptStep
<1>0. BookInv /\ client_orders \in [Clients -> [OrderIds -> {0} \cup OrderNames]]
  BY DEF IInv, BookInv, BookTypeOK
<1>1. \A k \in DOMAIN orders : orders[k].client \in Clients /\ orders[k].oid \in OrderIds
  BY <1>0 DEF BookInv, BookTypeOK, Order
<1> SUFFICES ASSUME NEW m \in DOMAIN orders,
                    client_orders[orders[m].client][orders[m].oid] = m
             PROVE  \/ m \notin DOMAIN orders'
                    \/ client_orders'[orders[m].client][orders[m].oid] = m
                    \/ \E k \in DOMAIN orders' \ DOMAIN orders :
                          /\ k # m /\ orders'[k].client = orders[m].client
                          /\ orders'[k].oid = orders[m].oid
                    \/ \E k \in DOMAIN orders \ DOMAIN orders' :
                          /\ k # m /\ orders[k].client = orders[m].client
                          /\ orders[k].oid = orders[m].oid
  BY DEF IndexKeptStep
<1> DEFINE c == orders[m].client
           oid == orders[m].oid
<1>2. c \in Clients /\ oid \in OrderIds
  BY <1>1
<1>3. CASE UNCHANGED client_orders
  BY <1>3
<1>4. CASE \E k \in DOMAIN orders : RemoveOrder(k)
  <2> PICK k \in DOMAIN orders : RemoveOrder(k)
    BY <1>4
  <2>1. /\ client_orders' = [client_orders EXCEPT ![orders[k].client][orders[k].oid] = 0]
        /\ DOMAIN orders' = DOMAIN orders \ {k}
    BY DEF RemoveOrder, Forget, Without
  <2>2. CASE orders[k].client = c /\ orders[k].oid = oid
    BY <2>1, <2>2
  <2>3. CASE ~(orders[k].client = c /\ orders[k].oid = oid)
    <3>1. client_orders'[c][oid] = client_orders[c][oid]
      BY <1>0, <1>1, <1>2, <2>1, <2>3
    <3> QED BY <3>1
  <2> QED BY <2>2, <2>3
<1>5. CASE Finish
  <2> DEFINE a == aggressor
             k == a.moid
             new == [client |-> a.client, oid |-> a.oid, side |-> a.side,
                     price |-> a.price, qty |-> a.leaves,
                     priority |-> GetOrderPriorityAtPriceLevel(a.side, a.price),
                     home |-> 0]
             l == GetPriceLevel(new.side, new.price)
             oo == [new EXCEPT !.home = IF l = 0 THEN k ELSE l]
  <2>1. UNCHANGED client_orders \/ AddOrder(k, new)
    BY <1>5 DEF Finish, Fault, book
  <2>2. CASE AddOrder(k, new)
    <3>1. a \in Aggressor /\ a.active
      BY <1>5, ActiveAggressor DEF Finish, IInv
    <3>2. k \notin DOMAIN orders
      <4>1. k \in OrderNames /\ \A n \in DOMAIN orders \cup DOMAIN levels : n < k
        BY <3>1 DEF IInv, Fresh, Aggressor
      <4> HIDE DEF k
      <4>2. k \in Nat
        BY <4>1, NamesPositive
      <4> QED BY <4>1, <4>2
    <3>3. orders' = With(orders, k, oo) /\ oo.client = a.client /\ oo.oid = a.oid
          /\ client_orders' = [client_orders EXCEPT ![a.client][a.oid] = k]
      BY <2>2 DEF AddOrder
    <3> HIDE DEF oo, new
    <3>4. k \in DOMAIN orders' \ DOMAIN orders /\ k # m /\ orders'[k] = oo
      BY <3>2, <3>3 DEF With
    <3>5. CASE a.client = c /\ a.oid = oid
      BY <3>3, <3>4, <3>5
    <3>6. CASE ~(a.client = c /\ a.oid = oid)
      <4>1. a.client \in Clients /\ a.oid \in OrderIds
        BY <3>1 DEF Aggressor
      <4>2. client_orders'[c][oid] = client_orders[c][oid]
        BY <1>0, <1>2, <3>3, <3>6, <4>1
      <4> QED BY <4>2
    <3> QED BY <3>5, <3>6
  <2> HIDE DEF new, k
  <2> QED BY <1>3, <2>1, <2>2
<1> QED BY <1>3, <1>4, <1>5, BookSteps DEF book

\* Only match() reports two fills, the second one of the order it traded with.
LEMMA TradeStep ==
    ASSUME IInv, Next
    PROVE  (Len(responses') = 2 /\ responses'[2].type = "FILLED") =>
              Match /\ responses'[2].moid = BestOpposite
<1>1. ASSUME NEW c \in Clients, NEW oid \in OrderIds, Cancel(c, oid)
      PROVE  Len(responses') # 2
  BY <1>1 DEF Cancel, Fault
<1>2. ASSUME NEW c \in Clients, NEW oid \in OrderIds, NEW price \in Prices,
             NEW qty \in Quantities, Modify(c, oid, price, qty)
      PROVE  Len(responses') # 2 \/ responses'[2].type # "FILLED"
  <2>1. \/ \E r : responses' = <<r>>
        \/ responses' = <<>>
        \/ \E r, m, side : responses' = Append(<<r>>,
              Response("ACCEPTED", c, oid, m, side, price, 0, qty))
    BY <1>2 DEF Modify, Fault, BeginAdd
  <2>2. CASE \E r : responses' = <<r>>
    BY <2>2
  <2>3. ASSUME NEW r, NEW m, NEW side, responses' = Append(<<r>>,
                 Response("ACCEPTED", c, oid, m, side, price, 0, qty))
        PROVE  responses'[2].type # "FILLED"
    <3> DEFINE a == Response("ACCEPTED", c, oid, m, side, price, 0, qty)
    <3>1. a.type = "ACCEPTED"
      BY DEF Response
    <3> HIDE DEF a
    <3>2. responses'[2] = a
      BY <2>3 DEF a
    <3> QED BY <3>1, <3>2
  <2>4. CASE responses' = <<>>
    BY <2>4
  <2> QED BY <2>1, <2>2, <2>3, <2>4, Zenon
<1>3. ASSUME NEW c \in Clients, NEW oid \in OrderIds, NEW price \in Prices,
             NEW qty \in Quantities, NEW side \in Sides,
             Add(c, oid, side, price, qty)
      PROVE  Len(responses') # 2
  <2>1. \E r : responses' = Append(<<>>, r)
    BY <1>3 DEF Add, BeginAdd
  <2> QED BY <2>1
<1>4. ASSUME Match PROVE responses' = <<>> \/ responses'[2].moid = BestOpposite
  BY <1>4 DEF Match, Fault, Response
<1>5. ASSUME Finish PROVE responses' = <<>>
  BY <1>5 DEF Finish, Fault
<1>6. Len(<<>>) = 0
  OBVIOUS
<1> QED
  BY <1>1, <1>2, <1>3, <1>4, <1>5, <1>6 DEF Next, Request

-----------------------------------------------------------------------------
\* Price order.  The book is right as long as no two prices share a slot and no side
\* has more than three levels; with a fourth one add_price_level may link a level
\* behind the last without comparing them.

Unshared == \A p, q \in Prices : PriceToIndex(p) = PriceToIndex(q) => p = q
FewLevels == \A side \in Sides : Len(rings[side]) <= 3

\* A level is found through the slot of its price, orders stand at their own price,
\* prices get worse along a side, and no bid level meets an ask level.
Found == \A l \in DOMAIN levels : price_levels[PriceToIndex(levels[l].price)] = l
OwnPrice == \A m \in DOMAIN orders : orders[m].price = levels[orders[m].home].price
Apart == \A b, s \in DOMAIN levels :
            levels[b].side = "BUY" /\ levels[s].side = "SELL"
              => levels[b].price < levels[s].price
Tidy == Found /\ OwnPrice /\ BookSorted /\ Apart

\* The levels f along the list r, from the best price on.
Descending(side, r, f) ==
    \A i, j \in DOMAIN r : i < j => Better(side, f[r[i]].price, f[r[j]].price)

\* comparison_func is a strict order of the prices.
LEMMA BetterIsOrder ==
    ASSUME NEW side \in Sides
    PROVE  /\ \A p, q, r \in Prices :
                Better(side, p, q) /\ Better(side, q, r) => Better(side, p, r)
           /\ \A p \in Prices : ~Better(side, p, p)
           /\ \A p, q \in Prices : p # q => Better(side, p, q) \/ Better(side, q, p)
<1>1. \A p \in Prices : p \in Int
  BY ConstantsAssumption
<1>2. CASE side = "BUY"
  BY <1>1, <1>2 DEF Better
<1>3. CASE side # "BUY"
  BY <1>1, <1>3 DEF Better
<1> QED BY <1>2, <1>3

\* A level that leaves leaves the others in their order.
LEMMA DescendingRemove ==
    ASSUME NEW S, NEW r \in Seq(S), NEW f, NEW side, NEW n \in 1 .. Len(r),
           Descending(side, r, f)
    PROVE  Descending(side, RemoveAt(r, n), f)
<1> DEFINE t == RemoveAt(r, n)
           p(k) == IF k < n THEN k ELSE k + 1
<1>1. /\ t \in Seq(S) /\ Len(t) = Len(r) - 1 /\ Len(r) \in Nat
      /\ \A k \in 1 .. Len(r) - 1 : t[k] = r[p(k)]
  <2>1. Len(r) \in Nat
    BY LenProperties
  <2> QED BY <2>1, RemoveAtElements
<1> HIDE DEF t
<1>2. DOMAIN t = 1 .. Len(r) - 1 /\ DOMAIN r = 1 .. Len(r)
  BY <1>1
<1> SUFFICES ASSUME NEW i \in DOMAIN t, NEW j \in DOMAIN t, i < j
             PROVE  Better(side, f[t[i]].price, f[t[j]].price)
  BY DEF Descending, t
<1>3. p(i) \in DOMAIN r /\ p(j) \in DOMAIN r /\ p(i) < p(j)
  BY <1>1, <1>2
<1>4. t[i] = r[p(i)] /\ t[j] = r[p(j)]
  BY <1>1, <1>2
<1> HIDE DEF p
<1> QED BY <1>3, <1>4 DEF Descending

\* A level that is worse than all before it and better than all behind it.
LEMMA DescendingInsert ==
    ASSUME NEW S, NEW r \in Seq(S), NEW f, NEW side, NEW m \in S,
           NEW n \in 1 .. Len(r) + 1, Descending(side, r, f),
           \A i \in 1 .. n - 1 : Better(side, f[r[i]].price, f[m].price),
           \A i \in n .. Len(r) : Better(side, f[m].price, f[r[i]].price)
    PROVE  Descending(side, InsertAt(r, n, m), f)
<1> DEFINE t == InsertAt(r, n, m)
<1>1. /\ t \in Seq(S) /\ Len(t) = Len(r) + 1 /\ Len(r) \in Nat
      /\ \A k \in 1 .. Len(r) + 1 :
           t[k] = IF k < n THEN r[k] ELSE IF k = n THEN m ELSE r[k - 1]
  <2>1. Len(r) \in Nat
    BY LenProperties
  <2>2. Inserted(t, S, r, n, m)
    BY InsertAtElements
  <2> HIDE DEF t
  <2> QED BY <2>1, <2>2 DEF Inserted
<1> HIDE DEF t
<1>2. DOMAIN t = 1 .. Len(r) + 1 /\ DOMAIN r = 1 .. Len(r)
  BY <1>1
<1> SUFFICES ASSUME NEW i \in DOMAIN t, NEW j \in DOMAIN t, i < j
             PROVE  Better(side, f[t[i]].price, f[t[j]].price)
  BY DEF Descending, t
<1>3. CASE i < n /\ j < n
  <2>1. i \in DOMAIN r /\ j \in DOMAIN r /\ t[i] = r[i] /\ t[j] = r[j]
    BY <1>1, <1>2, <1>3
  <2> QED BY <2>1 DEF Descending
<1>4. CASE i < n /\ j = n
  <2>1. i \in 1 .. n - 1 /\ t[i] = r[i] /\ t[j] = m
    BY <1>1, <1>2, <1>4
  <2> QED BY <2>1
<1>5. CASE i < n /\ j > n
  <2>1. i \in DOMAIN r /\ j - 1 \in DOMAIN r /\ i < j - 1 /\ t[i] = r[i] /\ t[j] = r[j - 1]
    BY <1>1, <1>2, <1>5
  <2> QED BY <2>1 DEF Descending
<1>6. CASE i = n
  <2>1. j - 1 \in n .. Len(r) /\ t[i] = m /\ t[j] = r[j - 1]
    BY <1>1, <1>2, <1>6
  <2> QED BY <2>1
<1>7. CASE i > n
  <2>1. /\ i - 1 \in DOMAIN r /\ j - 1 \in DOMAIN r /\ i - 1 < j - 1
        /\ t[i] = r[i - 1] /\ t[j] = r[j - 1]
    BY <1>1, <1>2, <1>7
  <2> QED BY <2>1 DEF Descending
<1> QED BY <1>2, <1>3, <1>4, <1>5, <1>6, <1>7

\* In a tidy book remove_order finds the level of every order.
LEMMA TidyRemovable ==
    ASSUME BookInv, Tidy, NEW m \in DOMAIN orders
    PROVE  RemoveIsDefined(m) /\ GetPriceLevel(orders[m].side, orders[m].price) = orders[m].home
<1> DEFINE h == orders[m].home
<1>1. h \in DOMAIN levels /\ levels[h].side = orders[m].side /\ h # 0
  <2>1. h \in DOMAIN levels /\ levels[h].side = orders[m].side
    BY DEF BookInv, Linked
  <2>2. h \in OrderNames
    BY <2>1 DEF BookInv, BookTypeOK
  <2> QED BY <2>1, <2>2, NamesPositive
<1>2. orders[m].price = levels[h].price
  BY DEF Tidy, OwnPrice
<1>3. price_levels[PriceToIndex(orders[m].price)] = h
  BY <1>1, <1>2 DEF Tidy, Found
<1>4. GetPriceLevel(orders[m].side, orders[m].price) = h
  BY <1>1, <1>3 DEF GetPriceLevel
<1> QED BY <1>4 DEF RemoveIsDefined

\* In a sorted list only the first level has the first price: remove_price_level
\* takes out the level and turns nothing round.
LEMMA SortedUnlinked ==
    ASSUME BookInv, BookSorted, NEW side \in Sides, NEW l \in DOMAIN levels,
           levels[l].side = side
    PROVE  /\ IndexOf(rings[side], l) \in 1 .. Len(rings[side])
           /\ Unlinked(side, l) = RemoveAt(rings[side], IndexOf(rings[side], l))
<1> DEFINE ring == rings[side]
           i == IndexOf(ring, l)
           before == SubSeq(ring, 1, i - 1)
           after  == SubSeq(ring, i + 1, Len(ring))
<1>1. ring \in Seq(OrderNames) /\ l \in ToSet(ring)
      /\ ToSet(ring) = {k \in DOMAIN levels : levels[k].side = side}
  BY DEF BookInv, BookTypeOK, Linked
<1>2. i \in 1 .. Len(ring) /\ ring[i] = l
  BY <1>1, IndexOfFinds
<1>3. RemoveAt(ring, i) = before \o after
  BY DEF RemoveAt
<1>4. CASE levels[ring[1]].price = levels[l].price
  <2>1. i = 1
    <3> SUFFICES ASSUME i # 1 PROVE FALSE
      OBVIOUS
    <3> HIDE DEF ring, i
    <3>1. 1 \in DOMAIN ring /\ i \in DOMAIN ring /\ 1 < i
      BY <1>1, <1>2
    <3>2. Better(side, levels[ring[1]].price, levels[ring[i]].price)
      BY <3>1 DEF BookSorted, ring
    <3>3. levels[l].price \in Prices
      BY DEF BookInv, BookTypeOK, Level
    <3> QED BY <1>2, <1>4, <3>2, <3>3, BetterIsOrder
  <2>2. Unlinked(side, l) = after \o before
    BY <1>4 DEF Unlinked
  <2> HIDE DEF ring, i
  <2>3. before = <<>> /\ after \in Seq(OrderNames)
    BY <1>1, <1>2, <2>1
  <2>4. after \o <<>> = after /\ <<>> \o after = after
    <3> HIDE DEF after, before
    <3> QED BY <2>3
  <2> QED BY <1>2, <1>3, <2>2, <2>3, <2>4 DEF ring, i
<1>5. CASE levels[ring[1]].price # levels[l].price
  <2>1. Unlinked(side, l) = before \o after
    BY <1>5 DEF Unlinked
  <2> QED BY <1>2, <1>3, <2>1
<1> QED BY <1>4, <1>5

\* remove_order leaves a tidy book tidy.
LEMMA TidyRemove ==
    ASSUME BookInv, Tidy, NEW m \in DOMAIN orders, RemoveOrder(m), BookInv'
    PROVE  Tidy'
<1> DEFINE o == orders[m]
           h == o.home
           q == levels[h].queue
           x == PriceToIndex(o.price)
<1>1. /\ DOMAIN orders' = DOMAIN orders \ {m}
      /\ \A k \in DOMAIN orders' : orders'[k] = orders[k]
      /\ \A l \in DOMAIN levels' :
           /\ l \in DOMAIN levels
           /\ levels'[l].side = levels[l].side /\ levels'[l].price = levels[l].price
  BY RemoveEffect
<1>2. o \in Order /\ h \in DOMAIN levels /\ levels[h].side = o.side
  BY OrderInLevel
<1>3. levels[h].price = o.price /\ price_levels[x] = h
  BY <1>2 DEF Tidy, OwnPrice, Found
<1>4. OwnPrice'
  <2> SUFFICES ASSUME NEW k \in DOMAIN orders'
               PROVE  orders'[k].price = levels'[orders'[k].home].price
    BY DEF OwnPrice
  <2>1. orders'[k] = orders[k] /\ k \in DOMAIN orders
    BY <1>1
  <2>2. orders[k].home \in DOMAIN levels'
    BY <2>1 DEF BookInv, Linked
  <2> QED BY <1>1, <2>1, <2>2 DEF Tidy, OwnPrice
<1>5. Apart'
  BY <1>1 DEF Tidy, Apart
<1>6. CASE Len(q) = 1
  <2>1. /\ levels' = Without(levels, h)
        /\ rings' = [rings EXCEPT ![o.side] = Unlinked(o.side, h)]
        /\ price_levels' = [price_levels EXCEPT ![x] = 0]
    BY <1>6 DEF RemoveOrder
  <2>2. \A l \in DOMAIN levels' : l # h
    BY <2>1 DEF Without
  <2>3. Found'
    <3> SUFFICES ASSUME NEW l \in DOMAIN levels'
                 PROVE  price_levels'[PriceToIndex(levels'[l].price)] = l
      BY DEF Found, PriceToIndex
    <3>1. price_levels[PriceToIndex(levels[l].price)] = l /\ l # h
      BY <1>1, <2>2 DEF Tidy, Found
    <3>2. PriceToIndex(levels[l].price) # x
      BY <1>3, <3>1
    <3>3. PriceToIndex(levels[l].price) \in Slots
      <4>1. levels[l].price \in Prices
        BY <1>1 DEF BookInv, BookTypeOK, Level
      <4> QED BY <4>1, IndexIsSlot
    <3>4. price_levels \in [Slots -> {0} \cup OrderNames]
      BY DEF BookInv, BookTypeOK
    <3> QED BY <1>1, <2>1, <3>1, <3>2, <3>3, <3>4
  <2>4. BookSorted'
    <3> SUFFICES ASSUME NEW side \in Sides PROVE Descending(side, rings'[side], levels')
      BY DEF BookSorted, Descending, Better
    <3>1. /\ rings[side] \in Seq(OrderNames) /\ Descending(side, rings[side], levels)
          /\ rings \in [Sides -> Seq(OrderNames)]
      BY DEF Tidy, BookSorted, Descending, BookInv, BookTypeOK
    <3>2. Descending(side, rings'[side], levels)
      <4>1. CASE side # o.side
        BY <2>1, <3>1, <4>1
      <4>2. CASE side = o.side
        <5> DEFINE n == IndexOf(rings[side], h)
        <5>1. n \in 1 .. Len(rings[side]) /\ Unlinked(side, h) = RemoveAt(rings[side], n)
          BY <1>2, <4>2, SortedUnlinked DEF Tidy
        <5>2. rings'[side] = RemoveAt(rings[side], n)
          BY <2>1, <3>1, <4>2, <5>1
        <5> HIDE DEF n
        <5> QED BY <3>1, <5>1, <5>2, DescendingRemove
      <4> QED BY <4>1, <4>2
    <3>3. \A i \in DOMAIN rings'[side] : levels'[rings'[side][i]].price = levels[rings'[side][i]].price
      <4> SUFFICES ASSUME NEW i \in DOMAIN rings'[side]
                   PROVE  rings'[side][i] \in DOMAIN levels'
        BY <1>1
      <4>1. rings'[side][i] \in ToSet(rings'[side])
        BY DEF ToSet
      <4> QED BY <4>1 DEF BookInv, Linked
    <3> QED BY <3>2, <3>3 DEF Descending
  <2> QED BY <1>4, <1>5, <2>3, <2>4 DEF Tidy
<1>7. CASE Len(q) # 1
  <2>1. UNCHANGED <<rings, price_levels>>
    BY <1>7 DEF RemoveOrder
  <2>2. Found'
    BY <1>1, <2>1 DEF Tidy, Found
  <2>3. BookSorted'
    <3> SUFFICES ASSUME NEW side \in Sides, NEW i \in DOMAIN rings[side], NEW j \in DOMAIN rings[side],
                        i < j
                 PROVE  Better(side, levels'[rings[side][i]].price, levels'[rings[side][j]].price)
      BY <2>1 DEF BookSorted, Better
    <3>1. rings[side][i] \in ToSet(rings'[side]) /\ rings[side][j] \in ToSet(rings'[side])
      BY <2>1 DEF ToSet
    <3>2. rings[side][i] \in DOMAIN levels' /\ rings[side][j] \in DOMAIN levels'
      BY <3>1 DEF BookInv, Linked
    <3>3. Better(side, levels[rings[side][i]].price, levels[rings[side][j]].price)
      BY DEF Tidy, BookSorted
    <3> QED BY <1>1, <3>2, <3>3
  <2> QED BY <1>4, <1>5, <2>2, <2>3 DEF Tidy
<1> QED BY <1>6, <1>7

\* No level of a tidy book is better than the best one, whose first order has its price.
LEMMA BestIsBest ==
    ASSUME BookInv, Tidy, NEW side \in Sides, rings[side] # <<>>
    PROVE  LET b == rings[side][1]
           IN  /\ b \in DOMAIN levels /\ levels[b].side = side
               /\ FirstOrder(b) \in DOMAIN orders /\ orders[FirstOrder(b)].home = b
               /\ orders[FirstOrder(b)].price = levels[b].price
               /\ \A l \in DOMAIN levels : levels[l].side = side /\ l # b =>
                    Better(side, levels[b].price, levels[l].price)
<1> DEFINE r == rings[side]
           b == r[1]
<1>1. r \in Seq(OrderNames) /\ ToSet(r) = {l \in DOMAIN levels : levels[l].side = side}
  BY DEF BookInv, BookTypeOK, Linked
<1>2. \A i, j \in DOMAIN r : i < j => Better(side, levels[r[i]].price, levels[r[j]].price)
  BY DEF Tidy, BookSorted
<1>3. r # <<>>
  OBVIOUS
<1> HIDE DEF r
<1>4. 1 \in DOMAIN r /\ \A i \in DOMAIN r : i = 1 \/ 1 < i
  BY <1>1, <1>3
<1>5. b \in DOMAIN levels /\ levels[b].side = side
  BY <1>1, <1>4 DEF ToSet
<1>6. \A l \in DOMAIN levels : levels[l].side = side /\ l # b =>
        Better(side, levels[b].price, levels[l].price)
  BY <1>1, <1>2, <1>4 DEF ToSet
<1> HIDE DEF b
<1>7. /\ FirstOrder(b) \in DOMAIN orders /\ orders[FirstOrder(b)].home = b
      /\ orders[FirstOrder(b)].price = levels[b].price
  BY <1>5, FirstOrderOldest DEF Tidy, OwnPrice
<1> QED BY <1>5, <1>6, <1>7 DEF b, r

\* When matching has come to its end, no opposite level meets what is left.
LEMMA NoOpposite ==
    ASSUME IInv, Tidy, aggressor.active, aggressor.leaves > 0, ~CanMatch,
           NEW l \in DOMAIN levels, levels[l].side = Opposite(aggressor.side)
    PROVE  Better(Opposite(aggressor.side), aggressor.price, levels[l].price)
<1> DEFINE side == Opposite(aggressor.side)
           b == rings[side][1]
<1>0. BookInv
  BY DEF IInv
<1>1. aggressor \in Aggressor
  BY ActiveAggressor DEF IInv
<1>2. side \in Sides /\ aggressor.price \in Prices
  BY <1>1 DEF Aggressor, Opposite, Sides
<1>3. rings[side] # <<>>
  <2>1. l \in ToSet(rings[side])
    BY <1>0, <1>2 DEF BookInv, Linked
  <2> QED BY <2>1 DEF ToSet
<1>4. Better(side, aggressor.price, orders[FirstOrder(b)].price)
  BY <1>3 DEF CanMatch, BestOpposite
<1> HIDE DEF side
<1>5. /\ b \in DOMAIN levels
      /\ orders[FirstOrder(b)].price = levels[b].price
      /\ levels[l].side = side /\ l # b => Better(side, levels[b].price, levels[l].price)
  BY <1>0, <1>2, <1>3, BestIsBest
<1> HIDE DEF b
<1>6. \A k \in DOMAIN levels : levels[k].price \in Prices
  BY <1>0 DEF BookInv, BookTypeOK, Level
<1>7. Better(side, aggressor.price, levels[b].price)
  BY <1>4, <1>5
<1>8. CASE l = b
  BY <1>7, <1>8 DEF side
<1>9. CASE l # b
  <2>1. Better(side, levels[b].price, levels[l].price)
    BY <1>5, <1>9 DEF side
  <2>2. Better(side, aggressor.price, levels[l].price)
    BY <1>2, <1>5, <1>6, <1>7, <2>1, BetterIsOrder
  <2> QED BY <2>2 DEF side
<1> QED BY <1>8, <1>9

\* With two levels at most the walk of add_price_level compares them all: the levels
\* before the place it finds are better than the new price, the others worse.
LEMMA RingPositionSorted ==
    ASSUME BookInv, BookSorted, NEW side \in Sides, NEW price \in Prices,
           Len(rings[side]) <= 2,
           \A l \in DOMAIN levels : levels[l].side = side => levels[l].price # price
    PROVE  LET r == rings[side]
               n == RingPosition(side, price)
           IN  /\ n \in 1 .. Len(r) + 1
               /\ \A i \in 1 .. n - 1 : Better(side, levels[r[i]].price, price)
               /\ \A i \in n .. Len(r) : Better(side, price, levels[r[i]].price)
<1> DEFINE r == rings[side]
           k == Len(r)
           worse == {i \in 1 .. k : Better(side, price, levels[r[i]].price)}
           n == RingPosition(side, price)
           p(i) == levels[r[i]].price
<1>1. k \in Nat /\ DOMAIN r = 1 .. k
  BY DEF BookInv, BookTypeOK
<1>2. \A i \in 1 .. k : p(i) \in Prices /\ p(i) # price
  <2> SUFFICES ASSUME NEW i \in 1 .. k PROVE p(i) \in Prices /\ p(i) # price
    OBVIOUS
  <2>1. r[i] \in ToSet(r)
    BY <1>1 DEF ToSet
  <2>2. r[i] \in DOMAIN levels /\ levels[r[i]].side = side
    BY <2>1 DEF BookInv, Linked
  <2> QED BY <2>2 DEF BookInv, BookTypeOK, Level
<1>3. \A i, j \in 1 .. k : i < j => Better(side, p(i), p(j))
  BY <1>1 DEF BookSorted
<1>4. n = IF worse = {} THEN k + 1 ELSE CHOOSE i \in worse : \A j \in worse : i <= j
  BY DEF RingPosition
<1>5. n \in 1 .. k + 1
  BY RingPositionInRange
<1>6. \A i \in 1 .. k : i \in worse <=> Better(side, price, p(i))
  OBVIOUS
<1>7. worse \subseteq Nat
  BY <1>1
<1> HIDE DEF r, k, n, worse, p
<1>8. CASE worse = {}
  <2>1. \A i \in 1 .. k : Better(side, p(i), price)
    BY <1>2, <1>6, <1>8, BetterIsOrder
  <2> QED BY <1>1, <1>4, <1>8, <2>1 DEF p, k, r, n
<1>9. CASE worse # {}
  <2>1. \E i \in worse : \A j \in worse : i <= j
    BY <1>7, <1>9, LeastElement
  <2>2. n \in worse /\ \A j \in worse : n <= j
    BY <1>4, <1>9, <2>1
  <2>3. n \in 1 .. k /\ Better(side, price, p(n))
    BY <2>2 DEF worse, p, k, r
  <2>4. ASSUME NEW i \in 1 .. n - 1 PROVE Better(side, p(i), price)
    <3>1. i \in 1 .. k /\ i \notin worse
      BY <1>1, <2>2, <2>3
    <3> QED BY <1>2, <1>6, <3>1, BetterIsOrder
  <2>5. ASSUME NEW i \in n .. k PROVE Better(side, price, p(i))
    <3>1. CASE i = n
      BY <2>3, <3>1
    <3>2. CASE i # n
      <4>1. n < i /\ i \in 1 .. k
        BY <1>1, <2>3, <3>2
      <4>2. Better(side, p(n), p(i))
        BY <1>3, <2>3, <4>1
      <4> QED BY <1>2, <2>3, <4>1, <4>2, BetterIsOrder
    <3> QED BY <3>1, <3>2
  <2> QED BY <1>5, <2>4, <2>5 DEF p, k, r, n
<1> QED BY <1>8, <1>9

\* The level that add_order finds has the order's price, and if it finds none then no
\* level has the order's slot.
LEMMA LevelAtPrice ==
    ASSUME BookInv, Unshared, Tidy, NEW side \in Sides, NEW price \in Prices,
           \A l \in DOMAIN levels : levels[l].side = Opposite(side) =>
              Better(Opposite(side), price, levels[l].price)
    PROVE  LET l == GetPriceLevel(side, price)
           IN  /\ l # 0 => /\ l \in DOMAIN levels
                           /\ levels[l].side = side /\ levels[l].price = price
               /\ l = 0 => \A k \in DOMAIN levels :
                              /\ PriceToIndex(levels[k].price) # PriceToIndex(price)
                              /\ levels[k].price # price
<1> DEFINE l == GetPriceLevel(side, price)
           x == PriceToIndex(price)
<1>1. x \in Slots
  BY IndexIsSlot
<1>2. \A k \in DOMAIN levels : levels[k].price \in Prices /\ levels[k].side \in Sides /\ k # 0
  BY NamesPositive DEF BookInv, BookTypeOK, Level
<1>3. ASSUME l # 0
      PROVE  l \in DOMAIN levels /\ levels[l].side = side /\ levels[l].price = price
  <2>1. l = price_levels[x] /\ levels[l].side = side
    BY <1>3 DEF GetPriceLevel
  <2>2. l \in DOMAIN levels /\ PriceToIndex(levels[l].price) = x
    BY <1>1, <1>3, <2>1 DEF BookInv, SlotsSound
  <2> HIDE DEF l
  <2> QED BY <1>2, <2>1, <2>2 DEF Unshared
<1>4. ASSUME l = 0, NEW k \in DOMAIN levels PROVE PriceToIndex(levels[k].price) # x
  <2> SUFFICES ASSUME PriceToIndex(levels[k].price) = x PROVE FALSE
    OBVIOUS
  <2>1. levels[k].price = price
    BY <1>2 DEF Unshared
  <2>2. price_levels[x] = k
    BY DEF Tidy, Found
  <2>3. levels[k].side # side
    BY <1>2, <1>4, <2>2 DEF GetPriceLevel
  <2>4. levels[k].side = Opposite(side) /\ Opposite(side) \in Sides
    BY <1>2, <2>3 DEF Sides, Opposite
  <2> QED BY <2>1, <2>4, BetterIsOrder
<1> QED BY <1>3, <1>4

\* What is left of an order that meets nothing leaves a tidy book tidy.
LEMMA TidyAdd ==
    ASSUME BookInv, Unshared, Tidy, NEW m \in OrderNames,
           m \notin DOMAIN orders, m \notin DOMAIN levels,
           NEW o \in [client : Clients, oid : OrderIds, side : Sides,
                       price : Prices, qty : Nat, priority : Nat, home : {0}],
           \A l \in DOMAIN levels : levels[l].side = Opposite(o.side) =>
              Better(Opposite(o.side), o.price, levels[l].price),
           AddOrder(m, o), BookInv', FewLevels'
    PROVE  Tidy'
<1> DEFINE l == GetPriceLevel(o.side, o.price)
           x == PriceToIndex(o.price)
           h == IF l = 0 THEN m ELSE l
           oo == [o EXCEPT !.home = h]
<1>0. o.side \in Sides /\ o.price \in Prices
  OBVIOUS
<1>1. /\ l # 0 => l \in DOMAIN levels /\ levels[l].side = o.side /\ levels[l].price = o.price
      /\ l = 0 => \A k \in DOMAIN levels :
                     PriceToIndex(levels[k].price) # x /\ levels[k].price # o.price
  BY <1>0, LevelAtPrice
<1>2. orders' = With(orders, m, oo)
  BY DEF AddOrder
<1>3. oo.price = o.price /\ oo.home = h
  OBVIOUS
<1> HIDE DEF oo
<1>4. /\ DOMAIN orders' = DOMAIN orders \cup {m} /\ orders'[m] = oo
      /\ \A k \in DOMAIN orders : orders'[k] = orders[k]
  BY <1>2 DEF With
<1>5. \A k \in DOMAIN orders : orders[k].home \in DOMAIN levels
  BY DEF BookInv, Linked
<1>6. /\ \A s \in Sides : rings[s] \in Seq(OrderNames)
      /\ \A s \in Sides : Descending(s, rings[s], levels)
      /\ rings \in [Sides -> Seq(OrderNames)]
      /\ price_levels \in [Slots -> {0} \cup OrderNames]
  BY DEF Tidy, BookSorted, Descending, BookInv, BookTypeOK
<1>7. \A s \in Sides : \A i \in DOMAIN rings[s] : rings[s][i] \in DOMAIN levels
  <2> SUFFICES ASSUME NEW s \in Sides, NEW i \in DOMAIN rings[s]
               PROVE  rings[s][i] \in DOMAIN levels
    OBVIOUS
  <2>1. rings[s][i] \in ToSet(rings[s])
    BY DEF ToSet
  <2> QED BY <2>1 DEF BookInv, Linked
<1>8. CASE l # 0
  <2>1. /\ levels' = [levels EXCEPT ![l].queue = Enqueue(@, m)]
        /\ UNCHANGED <<price_levels, rings>>
    BY <1>8 DEF AddOrder
  <2>2. l \in DOMAIN levels /\ levels[l].price = o.price /\ h = l
    BY <1>1, <1>8
  <2> HIDE DEF l, h
  <2>3. /\ DOMAIN levels' = DOMAIN levels
        /\ \A k \in DOMAIN levels :
             levels'[k].side = levels[k].side /\ levels'[k].price = levels[k].price
    <3> DEFINE q == Enqueue(levels[l].queue, m)
    <3>1. levels' = [levels EXCEPT ![l].queue = q]
      BY <2>1
    <3> HIDE DEF q
    <3> QED BY <2>2, <3>1 DEF BookInv, BookTypeOK, Level
  <2>4. Found'
    BY <2>1, <2>3 DEF Tidy, Found
  <2>5. OwnPrice'
    BY <1>3, <1>4, <1>5, <2>2, <2>3 DEF Tidy, OwnPrice
  <2>6. BookSorted'
    BY <1>7, <2>1, <2>3 DEF Tidy, BookSorted
  <2>7. Apart'
    BY <2>3 DEF Tidy, Apart
  <2> QED BY <2>4, <2>5, <2>6, <2>7 DEF Tidy
<1>9. CASE l = 0
  <2> DEFINE new == [side |-> o.side, price |-> o.price, queue |-> <<m>>]
             n == RingPosition(o.side, o.price)
  <2>1. /\ levels' = With(levels, m, new)
        /\ price_levels' = [price_levels EXCEPT ![x] = m]
        /\ rings' = [rings EXCEPT ![o.side] = InsertAt(@, n, m)]
    BY <1>9 DEF AddOrder
  <2>2. new.side = o.side /\ new.price = o.price /\ h = m
    BY <1>9
  <2> HIDE DEF new
  <2>3. /\ DOMAIN levels' = DOMAIN levels \cup {m} /\ levels'[m] = new
        /\ \A k \in DOMAIN levels : levels'[k] = levels[k]
    BY <2>1 DEF With
  <2>4. Found'
    <3> SUFFICES ASSUME NEW k \in DOMAIN levels'
                 PROVE  price_levels'[PriceToIndex(levels'[k].price)] = k
      BY DEF Found, PriceToIndex
    <3>1. x \in Slots
      BY <1>0, IndexIsSlot
    <3>2. CASE k = m
      BY <1>6, <2>1, <2>2, <2>3, <3>1, <3>2
    <3>3. CASE k # m
      <4>1. k \in DOMAIN levels /\ levels'[k] = levels[k]
        BY <2>3, <3>3
      <4>2. PriceToIndex(levels[k].price) # x
        BY <1>1, <1>9, <4>1
      <4>3. levels[k].price \in Prices
        BY <4>1 DEF BookInv, BookTypeOK, Level
      <4>4. PriceToIndex(levels[k].price) \in Slots
        BY <4>3, IndexIsSlot
      <4>5. price_levels[PriceToIndex(levels[k].price)] = k
        BY <4>1 DEF Tidy, Found
      <4> QED BY <1>6, <2>1, <4>1, <4>2, <4>4, <4>5
    <3> QED BY <3>2, <3>3
  <2>5. OwnPrice'
    BY <1>3, <1>4, <1>5, <2>2, <2>3 DEF Tidy, OwnPrice
  <2>6. BookSorted'
    <3> SUFFICES ASSUME NEW s \in Sides PROVE Descending(s, rings'[s], levels')
      BY DEF BookSorted, Descending, Better
    <3>1. Descending(s, rings[s], levels')
      BY <1>6, <1>7, <2>3 DEF Descending
    <3>2. CASE s # o.side
      BY <1>6, <2>1, <3>1, <3>2
    <3>3. CASE s = o.side
      <4> DEFINE r == rings[s]
      <4>1. n \in 1 .. Len(r) + 1
        BY <1>0, <3>3, RingPositionInRange
      <4>2. rings'[s] = InsertAt(r, n, m)
        BY <1>6, <2>1, <3>3
      <4>3. r \in Seq(OrderNames) /\ Len(r) \in Nat
        BY <1>6
      <4>4. Len(InsertAt(r, n, m)) = Len(r) + 1
        <5> HIDE DEF r, n
        <5>1. m \in OrderNames
          OBVIOUS
        <5> HIDE DEF l, x, h
        <5>2. Inserted(InsertAt(r, n, m), OrderNames, r, n, m)
          BY <4>1, <4>3, <5>1, InsertAtElements
        <5> QED BY <5>2 DEF Inserted
      <4>5. Len(rings'[s]) <= 3
        BY DEF FewLevels
      <4>6. Len(r) <= 2
        <5> HIDE DEF r, n
        <5> QED BY <4>2, <4>3, <4>4, <4>5
      <4>7. /\ \A i \in 1 .. n - 1 : Better(s, levels[r[i]].price, o.price)
            /\ \A i \in n .. Len(r) : Better(s, o.price, levels[r[i]].price)
        BY <1>0, <1>1, <1>9, <3>3, <4>6, RingPositionSorted DEF Tidy
      <4>8. \A i \in DOMAIN r : levels'[r[i]] = levels[r[i]]
        BY <1>7, <2>3
      <4> HIDE DEF r, n
      <4>9. /\ \A i \in 1 .. n - 1 : Better(s, levels'[r[i]].price, levels'[m].price)
            /\ \A i \in n .. Len(r) : Better(s, levels'[m].price, levels'[r[i]].price)
        <5>1. DOMAIN r = 1 .. Len(r)
          BY <4>3
        <5>2. (\A i \in 1 .. n - 1 : i \in DOMAIN r) /\ (\A i \in n .. Len(r) : i \in DOMAIN r)
          BY <4>1, <4>3, <5>1
        <5>3. levels'[m].price = o.price
          BY <2>2, <2>3
        <5> QED BY <4>7, <4>8, <5>2, <5>3
      <4>10. Descending(s, r, levels')
        BY <3>1 DEF r
      <4> QED BY <4>1, <4>2, <4>3, <4>9, <4>10, DescendingInsert
    <3> QED BY <3>2, <3>3
  <2>7. Apart'
    <3> SUFFICES ASSUME NEW b \in DOMAIN levels', NEW s \in DOMAIN levels',
                        levels'[b].side = "BUY", levels'[s].side = "SELL"
                 PROVE  levels'[b].price < levels'[s].price
      BY DEF Apart
    <3>1. CASE b # m /\ s # m
      BY <2>3, <3>1 DEF Tidy, Apart
    <3>2. CASE b = m
      <4>1. s # m /\ s \in DOMAIN levels /\ levels'[s] = levels[s] /\ o.side = "BUY"
            /\ levels'[b].price = o.price
        BY <2>2, <2>3, <3>2
      <4>2. Better("SELL", o.price, levels[s].price)
        BY <4>1 DEF Opposite
      <4> QED BY <4>1, <4>2 DEF Better
    <3>3. CASE s = m
      <4>1. b # m /\ b \in DOMAIN levels /\ levels'[b] = levels[b] /\ o.side = "SELL"
            /\ levels'[s].price = o.price
        BY <2>2, <2>3, <3>3
      <4>2. Better("BUY", o.price, levels[b].price)
        BY <4>1 DEF Opposite
      <4>3. o.price \in Int /\ levels[b].price \in Int
        BY <1>0, <4>1, ConstantsAssumption DEF BookInv, BookTypeOK, Level
      <4> QED BY <4>1, <4>2, <4>3 DEF Better
    <3> QED BY <3>1, <3>2, <3>3
  <2> QED BY <2>4, <2>5, <2>6, <2>7 DEF Tidy
<1> QED BY <1>8, <1>9

\* As many numbers as there are below a bound, as many blocks are enough.
LEMMA Counted ==
    ASSUME NEW S, NEW n \in Nat \ {0}, S \subseteq 1 .. n - 1
    PROVE  Cardinality(S) \in Nat /\ Cardinality(S) < n
<1>1. IsFiniteSet(1 .. n - 1) /\ Cardinality(1 .. n - 1) = n - 1
  BY FS_Interval
<1>2. IsFiniteSet(S) /\ Cardinality(S) <= Cardinality(1 .. n - 1)
  BY <1>1, FS_Subset
<1>3. Cardinality(S) \in Nat
  BY <1>2, FS_CardinalityType
<1> QED BY <1>1, <1>2, <1>3

\* The pools never run out: every level has a slot of its own, and a new one, for
\* which no level was found, a free slot.
LEMMA EnoughRoom ==
    ASSUME IInv, Unshared, Tidy, MaxMarketOrders <= MaxNumOrders, aggressor.active,
           \A l \in DOMAIN levels : levels[l].side = Opposite(aggressor.side) =>
              Better(Opposite(aggressor.side), aggressor.price, levels[l].price)
    PROVE  HasRoom(aggressor.side, aggressor.price)
<1> DEFINE a == aggressor
           x == PriceToIndex(a.price)
<1>0. BookInv
  BY DEF IInv
<1>1. a \in Aggressor
  BY ActiveAggressor DEF IInv
<1>2. a.moid \in OrderNames /\ a.side \in Sides /\ a.price \in Prices
  BY <1>1 DEF Aggressor
<1>3. Cardinality(DOMAIN orders) < MaxNumOrders
  <2>1. \A k \in DOMAIN orders : k \in OrderNames /\ k < a.moid
    BY <1>0 DEF IInv, Fresh, BookInv, BookTypeOK
  <2> DEFINE n == a.moid
  <2>2. n \in Nat \ {0} /\ n <= MaxMarketOrders
    BY <1>2, ConstantsAssumption DEF OrderNames
  <2>3. DOMAIN orders \subseteq 1 .. n - 1
    BY <2>1, <2>2 DEF OrderNames
  <2> HIDE DEF n
  <2>4. Cardinality(DOMAIN orders) \in Nat /\ Cardinality(DOMAIN orders) < n
    BY <2>2, <2>3, Counted
  <2> QED BY <2>2, <2>4, ConstantsAssumption
<1>4. ASSUME GetPriceLevel(a.side, a.price) = 0
      PROVE  Cardinality(DOMAIN levels) < MaxPriceLevels
  <2> DEFINE T == Slots \ {x}
             S == DOMAIN levels
             f == [k \in S |-> PriceToIndex(levels[k].price)]
  <2>1. x \in Slots
    BY <1>2, IndexIsSlot
  <2>2. \A k \in S : PriceToIndex(levels[k].price) # x
    BY <1>0, <1>2, <1>4, LevelAtPrice
  <2>3. \A k \in S : PriceToIndex(levels[k].price) \in Slots
    BY <1>0, IndexIsSlot DEF BookInv, BookTypeOK, Level
  <2>4. f \in [S -> T]
    BY <2>2, <2>3
  <2>5. ASSUME NEW j \in S, NEW k \in S, f[j] = f[k] PROVE j = k
    <3>1. /\ price_levels[PriceToIndex(levels[j].price)] = j
          /\ price_levels[PriceToIndex(levels[k].price)] = k
      BY DEF Tidy, Found
    <3> QED BY <2>5, <3>1
  <2>6. f \in Injection(S, T)
    BY <2>4, <2>5 DEF Injection, IsInjective
  <2>7. IsFiniteSet(Slots) /\ Cardinality(Slots) = MaxPriceLevels
    <3>1. 0 \in Int /\ MaxPriceLevels - 1 \in Int /\ 0 <= MaxPriceLevels - 1
      BY ConstantsAssumption
    <3> QED BY <3>1, FS_Interval, ConstantsAssumption DEF Slots
  <2>8. IsFiniteSet(T) /\ Cardinality(T) = MaxPriceLevels - 1
    BY <2>1, <2>7, FS_RemoveElement
  <2> HIDE DEF T, S, f
  <2>9. IsFiniteSet(S) /\ Cardinality(S) <= Cardinality(T)
    BY <2>6, <2>8, FS_Injection
  <2>10. Cardinality(S) \in Nat
    BY <2>9, FS_CardinalityType
  <2> QED BY <2>8, <2>9, <2>10, ConstantsAssumption DEF S
<1> QED BY <1>3, <1>4 DEF HasRoom

\* Every step leaves a tidy book tidy that does not take a side to a fourth level.
LEMMA TidyStep ==
    ASSUME IInv, Unshared, Tidy, Next, FewLevels'
    PROVE  Tidy'
<1>0. BookInv /\ BookInv'
  BY NextInv DEF IInv
<1>1. ASSUME UNCHANGED book PROVE Tidy'
  BY <1>1 DEF book, Tidy, Found, OwnPrice, BookSorted, Apart
<1>2. ASSUME NEW m \in DOMAIN orders, RemoveOrder(m) PROVE Tidy'
  BY <1>0, <1>2, TidyRemove
<1>3. ASSUME NEW m \in DOMAIN orders, NEW n \in Nat,
             orders' = [orders EXCEPT ![m].qty = n],
             UNCHANGED <<levels, rings, price_levels>>
      PROVE  Tidy'
  <2>1. /\ DOMAIN orders' = DOMAIN orders
        /\ \A k \in DOMAIN orders :
             orders'[k].price = orders[k].price /\ orders'[k].home = orders[k].home
    BY <1>0, <1>3 DEF BookInv, BookTypeOK, Order
  <2>2. OwnPrice'
    BY <1>3, <2>1 DEF Tidy, OwnPrice
  <2> QED BY <1>3, <2>2 DEF Tidy, Found, BookSorted, Apart
<1>4. CASE Finish
  <2> DEFINE a == aggressor
             priority == GetOrderPriorityAtPriceLevel(a.side, a.price)
             new == [client |-> a.client, oid |-> a.oid, side |-> a.side,
                     price |-> a.price, qty |-> a.leaves, priority |-> priority,
                     home |-> 0]
  <2>1. UNCHANGED book \/ (a.leaves > 0 /\ AddOrder(a.moid, new))
    BY <1>4 DEF Finish, Fault
  <2>2. a \in Aggressor /\ a.active /\ ~CanMatch
    BY <1>4, ActiveAggressor DEF Finish, IInv
  <2>3. CASE a.leaves > 0 /\ AddOrder(a.moid, new)
    <3>1. priority \in Nat
      BY <2>2, PriorityIsNat DEF Aggressor
    <3> HIDE DEF priority
    <3>2. /\ new \in [client : Clients, oid : OrderIds, side : Sides,
                       price : Prices, qty : Nat, priority : Nat, home : {0}]
          /\ a.moid \in OrderNames
          /\ new.side = a.side /\ new.price = a.price
      BY <2>2, <3>1 DEF Aggressor
    <3> HIDE DEF new
    <3>3. a.moid \notin DOMAIN orders /\ a.moid \notin DOMAIN levels
      <4>1. a.moid \in Nat
        BY <3>2, NamesPositive
      <4> QED BY <2>2, <4>1 DEF IInv, Fresh
    <3>4. \A l \in DOMAIN levels : levels[l].side = Opposite(new.side) =>
            Better(Opposite(new.side), new.price, levels[l].price)
      BY <2>2, <2>3, <3>2, NoOpposite
    <3> HIDE DEF a
    <3> QED BY <1>0, <2>3, <3>2, <3>3, <3>4, TidyAdd
  <2> QED BY <1>1, <2>1, <2>3
<1> QED BY <1>1, <1>2, <1>3, <1>4, BookSteps

\* In a tidy book no step runs into undefined behaviour, if there are as many blocks
\* for orders as orders will be sent.
LEMMA FaultlessStep ==
    ASSUME IInv, Unshared, Tidy, MaxMarketOrders <= MaxNumOrders, Next, ~fault
    PROVE  ~fault'
<1>0. BookInv
  BY DEF IInv
<1>1. ASSUME NEW c \in Clients, NEW oid \in OrderIds, Cancel(c, oid)
      PROVE  ~fault'
  <2> DEFINE m == client_orders[c][oid]
  <2>1. fault' = fault \/ (m # 0 /\ ~RemoveIsDefined(m))
    BY <1>1 DEF Cancel
  <2>2. m # 0 => RemoveIsDefined(m)
    BY <1>0, EntryLive, TidyRemovable
  <2> QED BY <2>1, <2>2
<1>2. ASSUME NEW c \in Clients, NEW oid \in OrderIds, NEW price \in Prices,
             NEW qty \in Quantities, Modify(c, oid, price, qty)
      PROVE  ~fault'
  <2> DEFINE m == client_orders[c][oid]
  <2>1. fault' = fault \/ (m # 0 /\ ~RemoveIsDefined(m))
    BY <1>2 DEF Modify
  <2>2. m # 0 => RemoveIsDefined(m)
    BY <1>0, EntryLive, TidyRemovable
  <2> QED BY <2>1, <2>2
<1>3. ASSUME NEW c \in Clients, NEW oid \in OrderIds, NEW price \in Prices,
             NEW qty \in Quantities, NEW side \in Sides,
             Add(c, oid, side, price, qty)
      PROVE  ~fault'
  BY <1>3 DEF Add
<1>4. CASE Match
  <2>1. fault' = fault \/ ~RemoveIsDefined(BestOpposite)
    BY <1>4 DEF Match
  <2>2. RemoveIsDefined(BestOpposite)
    BY <1>0, <1>4, BestOppositeOldest, TidyRemovable DEF Match
  <2> QED BY <2>1, <2>2
<1>5. CASE Finish
  <2>1. /\ aggressor.active /\ ~CanMatch
        /\ \/ fault' = fault
           \/ aggressor.leaves > 0 /\ ~HasRoom(aggressor.side, aggressor.price)
    BY <1>5 DEF Finish
  <2>2. aggressor.leaves > 0 => HasRoom(aggressor.side, aggressor.price)
    BY <2>1, NoOpposite, EnoughRoom
  <2> QED BY <2>1, <2>2
<1> QED BY <1>1, <1>2, <1>3, <1>4, <1>5 DEF Next, Request

\* A trade in a tidy book is with the best order there is.
LEMMA PriceTimeStep ==
    ASSUME IInv, Tidy, Next
    PROVE  PriceTimePriorityStep
<1> SUFFICES ASSUME Match, responses'[2].moid = BestOpposite
             PROVE  LET m == BestOpposite
                    IN  \A k \in DOMAIN orders \ {m} :
                           orders[k].side = orders[m].side =>
                              \/ Better(orders[m].side, orders[m].price, orders[k].price)
                              \/ orders[m].price = orders[k].price /\ m < k
  BY TradeStep DEF PriceTimePriorityStep
<1> DEFINE side == Opposite(aggressor.side)
           b == rings[side][1]
           m == BestOpposite
<1>0. BookInv
  BY DEF IInv
<1>1. CanMatch /\ rings[side] # <<>>
  BY DEF Match, CanMatch
<1>2. side \in Sides
  BY <1>1, ActiveAggressor DEF CanMatch, IInv, Aggressor, Opposite, Sides
<1>3. m = FirstOrder(b)
  BY DEF BestOpposite
<1>4. /\ m \in DOMAIN orders
      /\ \A k \in DOMAIN orders : orders[k].home = orders[m].home => m <= k
  BY <1>1, BestOppositeOldest
<1> HIDE DEF side, m
<1>5. /\ orders[m].home = b /\ orders[m].price = levels[b].price
      /\ \A l \in DOMAIN levels : levels[l].side = side /\ l # b =>
           Better(side, levels[b].price, levels[l].price)
      /\ levels[b].side = side
  BY <1>0, <1>1, <1>2, <1>3, BestIsBest
<1> HIDE DEF b
<1> SUFFICES ASSUME NEW k \in DOMAIN orders, k # m, orders[k].side = orders[m].side
             PROVE  \/ Better(orders[m].side, orders[m].price, orders[k].price)
                    \/ orders[m].price = orders[k].price /\ m < k
  BY DEF m
<1>6. /\ orders[k].home \in DOMAIN levels /\ levels[orders[k].home].side = orders[k].side
      /\ levels[b].side = orders[m].side
  BY <1>0, <1>4, <1>5 DEF BookInv, Linked
<1>7. orders[k].price = levels[orders[k].home].price
  BY DEF Tidy, OwnPrice
<1>8. CASE orders[k].home = b
  <2>1. m \in Nat /\ k \in Nat
    BY <1>0, <1>4, NamesPositive DEF BookInv, BookTypeOK
  <2> QED BY <1>4, <1>5, <1>7, <1>8, <2>1
<1>9. CASE orders[k].home # b
  BY <1>5, <1>6, <1>7, <1>9
<1> QED BY <1>8, <1>9

-----------------------------------------------------------------------------
\* The theorems.

\* All of the inductive invariant holds in every reachable state.
THEOREM Invariance == Spec => []IInv
BY InitInv, NextInv, PTL DEF Spec

\* The book's variables keep their types, through every request, fill and
\* modification: no quantity ever wraps below zero.
THEOREM TypeCorrect == Spec => []TypeOK
<1>1. IInv => TypeOK
  BY DEF IInv
<1> QED
  BY <1>1, Invariance, PTL

\* client_orders_ never dangles, whatever ids clients reuse.
THEOREM IndexIsSound == Spec => []IndexSound
<1>1. IInv => IndexSound
  BY DEF IInv, BookInv
<1> QED
  BY <1>1, Invariance, PTL

\* The lists of the book hold exactly what is live, until a removal goes to
\* the wrong level.
THEOREM BookIsLinked == Spec => []Linked
<1>1. IInv => Linked
  BY DEF IInv, BookInv
<1> QED
  BY <1>1, Invariance, PTL

\* price_levels_ never dangles, also where levels push each other out of their
\* slots.
THEOREM SlotsAreSound == Spec => []SlotsSound
<1>1. IInv => SlotsSound
  BY DEF IInv, BookInv
<1> QED
  BY <1>1, Invariance, PTL

\* No market order id is handed out twice.
THEOREM NamesAreFresh == Spec => []Fresh
<1>1. IInv => Fresh
  BY DEF IInv
<1> QED
  BY <1>1, Invariance, PTL

\* A resting order that client_orders_ names stays within its client's reach.
THEOREM IndexIsKept == Spec => IndexKept
<1>1. IInv /\ [Next]_vars => [IndexKeptStep]_vars
  BY IndexStep
<1> QED
  BY <1>1, Invariance, PTL DEF IndexKept, Spec

\* Orders of a level stand in the order of their arrival.
THEOREM LevelsAreFifo == Spec => []ArrivalOrder
<1>1. IInv => ArrivalOrder
  BY DEF IInv, BookInv
<1> QED
  BY <1>1, Invariance, PTL

\* Published priorities never contradict the places in a level.
THEOREM PrioritiesAreOrdered == Spec => []PriorityOrder
<1>1. Init => PriorityOrder
  BY DEF Init, PriorityOrder
<1>2. IInv /\ PriorityOrder /\ [Next]_vars => PriorityOrder'
  <2> SUFFICES ASSUME IInv, PriorityOrder, [Next]_vars PROVE PriorityOrder'
    OBVIOUS
  <2>1. CASE UNCHANGED vars
    BY <2>1 DEF PriorityOrder, vars, book
  <2> QED BY <2>1, PriorityStep
<1> QED
  BY <1>1, <1>2, Invariance, PTL DEF Spec

\* Every trade is with the order of its level that arrived first.
THEOREM TradesAreFifo == Spec => TimePriority
<1>1. IInv /\ [Next]_vars => [TimePriorityStep]_vars
  <2> SUFFICES ASSUME IInv, Next, Len(responses') = 2, responses'[2].type = "FILLED"
               PROVE  LET m == responses'[2].moid
                      IN  /\ m \in DOMAIN orders
                          /\ \A k \in DOMAIN orders :
                                orders[k].home = orders[m].home => m <= k
    BY DEF TimePriorityStep
  <2>1. Match /\ responses'[2].moid = BestOpposite
    BY TradeStep
  <2> QED BY <2>1, BestOppositeOldest DEF Match
<1> QED
  BY <1>1, Invariance, PTL DEF TimePriority, Spec

\* As long as no two prices share a slot and no side has more than three levels, the
\* book stays tidy.
THEOREM BookStaysTidy ==
    ASSUME Unshared
    PROVE  Spec /\ []FewLevels => []Tidy
<1>1. Init => Tidy
  BY DEF Init, Tidy, Found, OwnPrice, BookSorted, Apart
<1>2. IInv /\ Tidy /\ FewLevels' /\ [Next]_vars => Tidy'
  <2> SUFFICES ASSUME IInv, Tidy, FewLevels', [Next]_vars PROVE Tidy'
    OBVIOUS
  <2>1. CASE UNCHANGED vars
    BY <2>1 DEF vars, book, Tidy, Found, OwnPrice, BookSorted, Apart
  <2> QED BY <2>1, TidyStep
<1> QED
  BY <1>1, <1>2, Invariance, PTL DEF Spec

\* Then prices get worse along each side, as to_string() checks.
THEOREM BookIsSorted ==
    ASSUME Unshared
    PROVE  Spec /\ []FewLevels => []BookSorted
<1>1. Tidy => BookSorted
  BY DEF Tidy
<1> QED
  BY <1>1, BookStaysTidy, PTL

\* Then no resting bid meets a resting ask.
THEOREM BookIsUncrossed ==
    ASSUME Unshared
    PROVE  Spec /\ []FewLevels => []Uncrossed
<1>1. IInv /\ Tidy => Uncrossed
  <2> SUFFICES ASSUME BookInv, Tidy, NEW b \in DOMAIN orders, NEW s \in DOMAIN orders,
                      orders[b].side = "BUY", orders[s].side = "SELL"
               PROVE  orders[b].price < orders[s].price
    BY DEF IInv, Uncrossed
  <2>1. /\ orders[b].home \in DOMAIN levels /\ levels[orders[b].home].side = "BUY"
        /\ orders[s].home \in DOMAIN levels /\ levels[orders[s].home].side = "SELL"
    BY DEF BookInv, Linked
  <2>2. /\ orders[b].price = levels[orders[b].home].price
        /\ orders[s].price = levels[orders[s].home].price
    BY DEF Tidy, OwnPrice
  <2> QED BY <2>1, <2>2 DEF Tidy, Apart
<1> QED
  BY <1>1, Invariance, BookStaysTidy, PTL

\* Then no request leads into undefined behaviour: remove_order finds the level of
\* every order, and the pools have a block for every order and level.
THEOREM BookIsFaultless ==
    ASSUME Unshared, MaxMarketOrders <= MaxNumOrders
    PROVE  Spec /\ []FewLevels => []NoFault
<1>1. Init => NoFault
  BY DEF Init, NoFault
<1>2. IInv /\ Tidy /\ NoFault /\ [Next]_vars => NoFault'
  <2> SUFFICES ASSUME IInv, Tidy, NoFault, [Next]_vars PROVE NoFault'
    OBVIOUS
  <2>1. CASE UNCHANGED vars
    BY <2>1 DEF vars, NoFault
  <2> QED BY <2>1, FaultlessStep DEF NoFault
<1> QED
  BY <1>1, <1>2, Invariance, BookStaysTidy, PTL DEF Spec

\* Then every trade is with the best-priced resting order of the other side and, at
\* the same price, with the one that arrived first.
THEOREM TradesFollowPriceAndTime ==
    ASSUME Unshared
    PROVE  Spec /\ []FewLevels => PriceTimePriority
<1>1. IInv /\ Tidy /\ [Next]_vars => [PriceTimePriorityStep]_vars
  BY PriceTimeStep
<1> QED
  BY <1>1, Invariance, BookStaysTidy, PTL DEF PriceTimePriority, Spec
=============================================================================
