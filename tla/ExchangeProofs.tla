---------------------------- MODULE ExchangeProofs ----------------------------
(***************************************************************************)
(* Proofs about what becomes of the book's market updates: in the          *)
(* publisher and the synthesizer (Exchange), for any book, any number of   *)
(* instruments, any sizes of the tables and of a datagram, and in a        *)
(* client's copy of the book (ClientBook), as long as the book is tidy.    *)
(***************************************************************************)
EXTENDS Exchange, ClientBook, OrderBookProofs

\* The folds over updates: the synthesizer's, and a client's.
U == INSTANCE StreamLemmas WITH op <- MD!StoredAfter, Parts <- 1
C == INSTANCE StreamLemmas WITH op <- M!OnMarketUpdate, Parts <- 1

-----------------------------------------------------------------------------
\* The numbers of the messages.

\* A sequence of anything.
IsSequence(s) == \E S : s \in Seq(S)

\* The queue to the synthesizer and the publisher's buffer hold messages.
Streams ==
    /\ next_inc_seq_num \in Nat /\ last_inc_seq_num \in Nat
    /\ IsSequence(snapshot_updates)
    /\ IsSequence(buffer)

NumbersInv == Streams /\ NumbersAgree

-----------------------------------------------------------------------------
\* A message at the end of a sequence, and one taken from its start.
LEMMA AppendIs ==
    ASSUME NEW s, IsSequence(s), NEW m
    PROVE  /\ IsSequence(Append(s, m))
           /\ Len(s) \in Nat /\ Len(Append(s, m)) = Len(s) + 1
           /\ DOMAIN s = 1 .. Len(s) /\ DOMAIN Append(s, m) = 1 .. Len(s) + 1
           /\ Append(s, m)[Len(s) + 1] = m
           /\ \A k \in 1 .. Len(s) : Append(s, m)[k] = s[k]
<1>1. PICK S : s \in Seq(S)
  BY DEF IsSequence
<1> DEFINE T == S \cup {m}
<1>2. s \in Seq(T) /\ m \in T
  BY <1>1
<1> HIDE DEF T
<1>3. Append(s, m) \in Seq(T)
  BY <1>2
<1> QED BY <1>2, <1>3 DEF IsSequence

\* What is left of a queue when its head is taken.
LEMMA TailIs ==
    ASSUME NEW s, IsSequence(s), s # <<>>
    PROVE  /\ IsSequence(Tail(s))
           /\ Len(s) \in Nat \ {0} /\ Len(Tail(s)) = Len(s) - 1
           /\ DOMAIN s = 1 .. Len(s) /\ DOMAIN Tail(s) = 1 .. Len(s) - 1
           /\ Head(s) = s[1]
           /\ \A k \in 1 .. Len(s) - 1 : Tail(s)[k] = s[k + 1]
<1>1. PICK S : s \in Seq(S)
  BY DEF IsSequence
<1>2. Tail(s) \in Seq(S)
  BY <1>1
<1> QED BY <1>1, <1>2 DEF IsSequence

\* The publisher numbers an update and hands it on.
LEMMA PublishNumbers ==
    ASSUME NumbersInv, MD!Publish
    PROVE  NumbersInv'
<1> DEFINE m == [seq |-> next_inc_seq_num, upd |-> Head(market_updates)]
           n == next_inc_seq_num
           l == last_inc_seq_num
           a == Len(snapshot_updates)
           b == Len(buffer)
<1>1. /\ buffer' = Append(buffer, m) /\ snapshot_updates' = Append(snapshot_updates, m)
      /\ next_inc_seq_num' = n + 1 /\ last_inc_seq_num' = l
  BY DEF MD!Publish, MD!synthesizer
<1>2. m.seq = n
  OBVIOUS
<1> HIDE DEF m
<1>3. /\ IsSequence(snapshot_updates')
      /\ a \in Nat /\ Len(snapshot_updates') = a + 1
      /\ DOMAIN snapshot_updates = 1 .. a /\ DOMAIN snapshot_updates' = 1 .. a + 1
      /\ snapshot_updates'[a + 1] = m
      /\ \A k \in 1 .. a : snapshot_updates'[k] = snapshot_updates[k]
  BY <1>1, AppendIs DEF NumbersInv, Streams
<1>4. /\ IsSequence(buffer')
      /\ b \in Nat /\ Len(buffer') = b + 1
      /\ DOMAIN buffer = 1 .. b /\ DOMAIN buffer' = 1 .. b + 1
      /\ buffer'[b + 1] = m
      /\ \A k \in 1 .. b : buffer'[k] = buffer[k]
  BY <1>1, AppendIs DEF NumbersInv, Streams
<1>5. /\ n \in Nat /\ l \in Nat /\ n = l + a + 1
      /\ \A k \in 1 .. a : snapshot_updates[k].seq = l + k
      /\ \A k \in 1 .. b : buffer[k].seq = n - b + k - 1
  BY <1>3, <1>4 DEF NumbersInv, Streams, NumbersAgree
<1> HIDE DEF n, l, a, b
<1>6. \A k \in 1 .. a + 1 : snapshot_updates'[k].seq = l + k
  <2>1. \A k \in 1 .. a + 1 : k = a + 1 \/ k \in 1 .. a
    BY <1>3
  <2>2. m.seq = l + (a + 1)
    BY <1>2, <1>3, <1>5
  <2> QED BY <1>3, <1>5, <2>1, <2>2
<1>7. \A k \in 1 .. b + 1 : buffer'[k].seq = (n + 1) - (b + 1) + k - 1
  <2>1. \A k \in 1 .. b + 1 : k = b + 1 \/ k \in 1 .. b
    BY <1>4
  <2>2. m.seq = (n + 1) - (b + 1) + (b + 1) - 1
    BY <1>2, <1>4, <1>5
  <2>3. \A k \in 1 .. b : n - b + k - 1 = (n + 1) - (b + 1) + k - 1
    BY <1>4, <1>5
  <2> QED BY <1>4, <1>5, <2>1, <2>2, <2>3
<1>8. n + 1 = l + (a + 1) + 1 /\ n + 1 \in Nat
  BY <1>3, <1>5
<1> QED BY <1>1, <1>3, <1>4, <1>5, <1>6, <1>7, <1>8 DEF NumbersInv, Streams, NumbersAgree

\* The synthesizer takes an update, or stops at it.
LEMMA AddToSnapshotNumbers ==
    ASSUME NumbersInv, MD!AddToSnapshot
    PROVE  NumbersInv'
<1> DEFINE l == last_inc_seq_num
           a == Len(snapshot_updates)
           m == Head(snapshot_updates)
<1>1. /\ snapshot_updates # <<>>
      /\ \/ /\ m.seq = l + 1 /\ last_inc_seq_num' = m.seq
            /\ snapshot_updates' = Tail(snapshot_updates)
         \/ UNCHANGED <<last_inc_seq_num, snapshot_updates>>
      /\ UNCHANGED <<next_inc_seq_num, buffer>>
  BY DEF MD!AddToSnapshot, MD!publisher
<1>2. CASE UNCHANGED <<last_inc_seq_num, snapshot_updates>>
  BY <1>1, <1>2 DEF NumbersInv, Streams, NumbersAgree
<1>3. CASE /\ m.seq = l + 1 /\ last_inc_seq_num' = m.seq
           /\ snapshot_updates' = Tail(snapshot_updates)
  <2>1. /\ IsSequence(snapshot_updates')
        /\ a \in Nat \ {0} /\ Len(snapshot_updates') = a - 1
        /\ DOMAIN snapshot_updates = 1 .. a /\ DOMAIN snapshot_updates' = 1 .. a - 1
        /\ \A k \in 1 .. a - 1 : snapshot_updates'[k] = snapshot_updates[k + 1]
    BY <1>1, <1>3, TailIs DEF NumbersInv, Streams
  <2>2. /\ l \in Nat /\ next_inc_seq_num = l + a + 1
        /\ \A k \in 1 .. a : snapshot_updates[k].seq = l + k
    BY <2>1 DEF NumbersInv, Streams, NumbersAgree
  <2>3. last_inc_seq_num' = l + 1
    BY <1>3
  <2> HIDE DEF l, a, m
  <2>4. \A k \in 1 .. a - 1 : snapshot_updates'[k].seq = (l + 1) + k
    <3>1. \A k \in 1 .. a - 1 : k + 1 \in 1 .. a /\ l + (k + 1) = (l + 1) + k
      BY <2>1, <2>2
    <3> QED BY <2>1, <2>2, <3>1
  <2>5. next_inc_seq_num = (l + 1) + (a - 1) + 1 /\ l + 1 \in Nat
    BY <2>1, <2>2
  <2> QED BY <1>1, <2>1, <2>3, <2>4, <2>5 DEF NumbersInv, Streams, NumbersAgree
<1> QED BY <1>1, <1>2, <1>3

\* The numbers agree from the start on.
LEMMA NumbersInit == XInit => NumbersInv
<1> SUFFICES ASSUME XInit PROVE NumbersInv
  OBVIOUS
<1>1. /\ snapshot_updates = <<>> /\ buffer = <<>> /\ next_inc_seq_num = 1
      /\ last_inc_seq_num = 0
  BY DEF XInit, MD!MDInit
<1>2. <<>> \in Seq({}) /\ Len(<<>>) = 0 /\ DOMAIN <<>> = {}
  OBVIOUS
<1> QED BY <1>1, <1>2 DEF NumbersInv, Streams, IsSequence, NumbersAgree

\* Every step keeps the numbers in agreement.
LEMMA NumbersNext == NumbersInv /\ [XNext]_xvars => NumbersInv'
<1> SUFFICES ASSUME NumbersInv, [XNext]_xvars PROVE NumbersInv'
  OBVIOUS
<1>1. CASE UNCHANGED <<next_inc_seq_num, last_inc_seq_num, snapshot_updates, buffer>>
  BY <1>1 DEF NumbersInv, Streams, NumbersAgree
<1>2. CASE MD!Publish
  BY <1>2, PublishNumbers
<1>3. CASE MD!AddToSnapshot
  BY <1>3, AddToSnapshotNumbers
<1>4. CASE MD!SendData
  <2>1. /\ buffer' = <<>>
        /\ UNCHANGED <<next_inc_seq_num, last_inc_seq_num, snapshot_updates>>
    BY <1>4 DEF MD!SendData, MD!synthesizer
  <2>2. buffer' \in Seq({}) /\ DOMAIN buffer' = {}
    BY <2>1
  <2> QED BY <2>1, <2>2 DEF NumbersInv, Streams, IsSequence, NumbersAgree
<1>5. CASE MD!PublishSnapshot
  <2>1. UNCHANGED <<next_inc_seq_num, last_inc_seq_num, snapshot_updates, buffer>>
    BY <1>5 DEF MD!PublishSnapshot, MD!publisher, MD!synthesizer
  <2> QED BY <1>1, <2>1
<1>6. CASE Engine
  <2>1. UNCHANGED <<next_inc_seq_num, last_inc_seq_num, snapshot_updates, buffer>>
    BY <1>6 DEF Engine
  <2> QED BY <1>1, <2>1
<1>7. CASE UNCHANGED xvars
  <2>1. UNCHANGED <<next_inc_seq_num, last_inc_seq_num, snapshot_updates, buffer>>
    BY <1>7 DEF xvars
  <2> QED BY <1>1, <2>1
<1> QED BY <1>2, <1>3, <1>4, <1>5, <1>6, <1>7 DEF XNext, Publisher, Synthesizer

-----------------------------------------------------------------------------
\* What a step of the book tells the market.

\* Updates as the book makes them.
Updates ==
    [type : {"ADD", "MODIFY", "CANCEL", "TRADE"}, moid : OrderNames \cup {INVALID},
     side : Sides, price : Prices, qty : Nat, priority : Nat \cup {INVALID}]

\* The fields the market knows of order m agree with update u.
SameOrder(u, o) ==
    /\ u.side = o.side /\ u.price = o.price /\ u.qty = o.qty /\ u.priority = o.priority

\* The update u tells how the orders f became g.
Tells(u, f, g) ==
    /\ u.moid \in OrderNames
    /\ \A k \in DOMAIN f \ {u.moid} : k \in DOMAIN g /\ g[k] = f[k]
    /\ \A k \in DOMAIN g \ {u.moid} : k \in DOMAIN f
    /\ \/ /\ u.type = "ADD" /\ u.moid \notin DOMAIN f
          /\ u.moid \in DOMAIN g /\ SameOrder(u, g[u.moid])
       \/ /\ u.type = "MODIFY" /\ u.moid \in DOMAIN f /\ u.moid \in DOMAIN g
          /\ g[u.moid] = [f[u.moid] EXCEPT !.qty = u.qty] /\ SameOrder(u, g[u.moid])
       \/ /\ u.type = "CANCEL" /\ u.moid \in DOMAIN f /\ u.moid \notin DOMAIN g
          /\ u.side = f[u.moid].side

\* The updates of a step: none, one, or a trade and one.
Told ==
    \/ updates' = <<>> /\ orders' = orders
    \/ \E u \in Updates : Tells(u, orders, orders') /\ updates' = <<u>>
    \/ \E t \in Updates, u \in Updates :
         t.type = "TRADE" /\ Tells(u, orders, orders') /\ updates' = <<t, u>>

\* The quantity of order m changes.
LEMMA TellsModify ==
    ASSUME BookInv, NEW m \in DOMAIN orders, NEW n \in Nat,
           orders' = [orders EXCEPT ![m].qty = n]
    PROVE  UpdateOf("MODIFY", m, n) \in Updates /\ Tells(UpdateOf("MODIFY", m, n), orders, orders')
<1> DEFINE u == UpdateOf("MODIFY", m, n)
<1>1. orders \in [DOMAIN orders -> Order] /\ m \in OrderNames /\ orders[m] \in Order
  BY DEF BookInv, BookTypeOK
<1>2. u = Update("MODIFY", m, orders[m].side, orders[m].price, n, orders[m].priority)
  BY DEF UpdateOf
<1>3. /\ u.type = "MODIFY" /\ u.moid = m /\ u.side = orders[m].side
      /\ u.price = orders[m].price /\ u.qty = n /\ u.priority = orders[m].priority
      /\ u \in Updates
  BY <1>1, <1>2 DEF Update, Updates, Order
<1> HIDE DEF u
<1>4. /\ DOMAIN orders' = DOMAIN orders /\ orders'[m] = [orders[m] EXCEPT !.qty = n]
      /\ \A k \in DOMAIN orders \ {m} : orders'[k] = orders[k]
  BY <1>1
<1>5. SameOrder(u, orders'[m])
  BY <1>1, <1>3, <1>4 DEF SameOrder, Order
<1> QED BY <1>1, <1>3, <1>4, <1>5 DEF Tells, u

\* Order m leaves.
LEMMA TellsCancel ==
    ASSUME BookInv, NEW m \in DOMAIN orders, NEW n \in Nat, RemoveOrder(m)
    PROVE  UpdateOf("CANCEL", m, n) \in Updates /\ Tells(UpdateOf("CANCEL", m, n), orders, orders')
<1> DEFINE u == UpdateOf("CANCEL", m, n)
<1>1. orders \in [DOMAIN orders -> Order] /\ m \in OrderNames /\ orders[m] \in Order
  BY DEF BookInv, BookTypeOK
<1>2. u = Update("CANCEL", m, orders[m].side, orders[m].price, n, orders[m].priority)
  BY DEF UpdateOf
<1>3. u.type = "CANCEL" /\ u.moid = m /\ u.side = orders[m].side /\ u \in Updates
  BY <1>1, <1>2 DEF Update, Updates, Order
<1> HIDE DEF u
<1>4. /\ DOMAIN orders' = DOMAIN orders \ {m}
      /\ \A k \in DOMAIN orders' : orders'[k] = orders[k]
  BY RemoveEffect
<1> QED BY <1>1, <1>3, <1>4 DEF Tells, u

\* The rest of an order joins the book.
LEMMA TellsAdd ==
    ASSUME IInv, Finish, aggressor.leaves > 0, ~Fault
    PROVE  \E u \in Updates : Tells(u, orders, orders') /\ updates' = <<u>>
<1> DEFINE a == aggressor
           priority == GetOrderPriorityAtPriceLevel(a.side, a.price)
           new == [client |-> a.client, oid |-> a.oid, side |-> a.side,
                   price |-> a.price, qty |-> a.leaves, priority |-> priority,
                   home |-> 0]
           u == Update("ADD", a.moid, a.side, a.price, a.leaves, priority)
<1>1. a \in Aggressor /\ a.active
  BY ActiveAggressor DEF Finish, IInv
<1>2. priority \in Nat
  BY <1>1, PriorityIsNat DEF Aggressor
<1> HIDE DEF priority
<1>3. AddOrder(a.moid, new) /\ updates' = <<u>>
  <2>1. a.leaves # 0
    BY <1>1 DEF Aggressor
  <2> QED BY <2>1 DEF Finish, priority
<1>4. /\ a.moid \in OrderNames /\ a.moid \notin DOMAIN orders
  <2>1. a.moid \in OrderNames /\ a.moid \in Int
    BY <1>1 DEF Aggressor, OrderNames
  <2> QED BY <1>1, <2>1 DEF IInv, Fresh
<1>5. \E home : orders' = With(orders, a.moid, [new EXCEPT !.home = home])
  BY <1>3 DEF AddOrder
<1>6. PICK home : orders' = With(orders, a.moid, [new EXCEPT !.home = home])
  BY <1>5
<1>7. /\ DOMAIN orders' = DOMAIN orders \cup {a.moid}
      /\ \A k \in DOMAIN orders \ {a.moid} : orders'[k] = orders[k]
      /\ orders'[a.moid] = [new EXCEPT !.home = home]
  BY <1>6 DEF With
<1>8. /\ u.type = "ADD" /\ u.moid = a.moid /\ u \in Updates
      /\ SameOrder(u, orders'[a.moid])
  BY <1>1, <1>2, <1>7 DEF Update, Updates, Aggressor, SameOrder
<1> HIDE DEF u
<1>9. Tells(u, orders, orders')
  BY <1>4, <1>7, <1>8 DEF Tells
<1> QED BY <1>3, <1>8, <1>9

\* Every step tells the market what it does to the orders.
LEMMA StepTold ==
    ASSUME IInv, Next
    PROVE  Told
<1>0. BookInv
  BY DEF IInv
<1>1. ASSUME Fault PROVE Told
  BY <1>1 DEF Fault, Told, book
<1>2. ASSUME NEW c \in Clients, NEW oid \in OrderIds, Cancel(c, oid)
      PROVE  Told
  <2> DEFINE m == client_orders[c][oid]
  <2>1. \/ updates' = <<>> /\ UNCHANGED book
        \/ m # 0 /\ RemoveOrder(m) /\ updates' = <<UpdateOf("CANCEL", m, 0)>>
        \/ Fault
    BY <1>2 DEF Cancel
  <2>2. m # 0 => m \in DOMAIN orders
    BY EntryLive
  <2> HIDE DEF m
  <2>3. ASSUME m # 0, RemoveOrder(m), updates' = <<UpdateOf("CANCEL", m, 0)>> PROVE Told
    BY <1>0, <2>2, <2>3, TellsCancel DEF Told
  <2> QED BY <1>1, <2>1, <2>3 DEF Told, book
<1>3. ASSUME NEW c \in Clients, NEW oid \in OrderIds, NEW price \in Prices,
             NEW qty \in Quantities, Modify(c, oid, price, qty)
      PROVE  Told
  <2>1. qty \in Nat
    BY ConstantsAssumption
  <2> DEFINE m == client_orders[c][oid]
  <2>2. \/ updates' = <<>> /\ UNCHANGED book
        \/ m # 0 /\ RemoveOrder(m) /\ updates' = <<UpdateOf("CANCEL", m, 0)>>
        \/ Fault
        \/ m # 0 /\ orders' = [orders EXCEPT ![m].qty = qty]
           /\ updates' = <<UpdateOf("MODIFY", m, qty)>>
    BY <1>3 DEF Modify
  <2>3. m # 0 => m \in DOMAIN orders
    BY EntryLive
  <2> HIDE DEF m
  <2>4. ASSUME m # 0, RemoveOrder(m), updates' = <<UpdateOf("CANCEL", m, 0)>> PROVE Told
    BY <1>0, <2>3, <2>4, TellsCancel DEF Told
  <2>5. ASSUME m # 0, orders' = [orders EXCEPT ![m].qty = qty],
               updates' = <<UpdateOf("MODIFY", m, qty)>>
        PROVE  Told
    BY <1>0, <2>1, <2>3, <2>5, TellsModify DEF Told
  <2> QED BY <1>1, <2>2, <2>4, <2>5 DEF Told, book
<1>4. ASSUME NEW c \in Clients, NEW oid \in OrderIds, NEW price \in Prices,
             NEW qty \in Quantities, NEW side \in Sides, Add(c, oid, side, price, qty)
      PROVE  Told
  BY <1>4 DEF Add, Told, book
<1>5. CASE Match
  <2> DEFINE a == aggressor
             m == BestOpposite
             o == orders[m]
             matched == MatchedQty(a.leaves, o.qty)
             left == o.qty - matched
             trade == Update("TRADE", INVALID, a.side, o.price, matched, INVALID)
  <2>1. m \in DOMAIN orders /\ a \in Aggressor
    BY <1>5, BestOppositeOldest, ActiveAggressor DEF Match, CanMatch, IInv
  <2>2. \/ /\ orders' = [orders EXCEPT ![m].qty = left]
           /\ updates' = <<trade, UpdateOf("MODIFY", m, left)>>
        \/ RemoveOrder(m) /\ updates' = <<trade, UpdateOf("CANCEL", m, o.qty)>>
        \/ Fault
    BY <1>5 DEF Match
  <2>3. /\ a.leaves \in Nat /\ o.qty \in Nat /\ a.side \in Sides /\ o.price \in Prices
    BY <1>0, <2>1 DEF Aggressor, BookInv, BookTypeOK, Order
  <2> HIDE DEF m, o, a
  <2>4. matched \in Nat /\ left \in Nat
    BY <2>3 DEF MatchedQty
  <2> HIDE DEF matched, left
  <2>5. trade \in Updates /\ trade.type = "TRADE"
    BY <2>3, <2>4 DEF Update, Updates
  <2> HIDE DEF trade
  <2>6. ASSUME orders' = [orders EXCEPT ![m].qty = left],
               updates' = <<trade, UpdateOf("MODIFY", m, left)>>
        PROVE  Told
    BY <1>0, <2>1, <2>4, <2>5, <2>6, TellsModify DEF Told
  <2>7. ASSUME RemoveOrder(m), updates' = <<trade, UpdateOf("CANCEL", m, o.qty)>>
        PROVE  Told
    BY <1>0, <2>1, <2>3, <2>5, <2>7, TellsCancel DEF Told
  <2> QED BY <1>1, <2>2, <2>6, <2>7
<1>6. CASE Finish
  <2>1. CASE Fault
    BY <1>1, <2>1
  <2>2. CASE aggressor.leaves > 0 /\ ~Fault
    BY <1>6, <2>2, TellsAdd DEF Told
  <2>3. CASE ~(aggressor.leaves > 0) /\ ~Fault
    BY <1>6, <2>3 DEF Finish, Told, book
  <2> QED BY <2>1, <2>2, <2>3
<1>7. CASE Request
  <2> PICK c \in Clients, oid \in OrderIds :
        \/ Cancel(c, oid)
        \/ \E price \in Prices, qty \in Quantities :
              \/ Modify(c, oid, price, qty)
              \/ \E side \in Sides : Add(c, oid, side, price, qty)
    BY <1>7 DEF Request
  <2>1. CASE Cancel(c, oid)
    BY <1>2, <2>1
  <2>2. CASE \E price \in Prices, qty \in Quantities :
               \/ Modify(c, oid, price, qty)
               \/ \E side \in Sides : Add(c, oid, side, price, qty)
    BY <1>3, <1>4, <2>2
  <2> QED BY <2>1, <2>2
<1> QED BY <1>5, <1>6, <1>7 DEF Next

-----------------------------------------------------------------------------
\* The synthesizer's table of the instrument.

\* The messages of the instrument, and the tables they lead to.
Messages ==
    [type : {"ADD", "MODIFY", "CANCEL", "TRADE"}, instrument : {Instrument},
     moid : OrderNames \cup {INVALID}, side : Sides, price : Prices, qty : Nat,
     priority : Nat \cup {INVALID}]

IsTable(t) == DOMAIN t \subseteq OrderNames /\ t \in [DOMAIN t -> Messages]

\* add_to_snapshot finds what it expects in t: no entry to add to, an entry of the
\* same side to change.
Fits(t, u) ==
    /\ u.type = "ADD" => u.moid \in OrderNames \ DOMAIN t
    /\ u.type \in {"MODIFY", "CANCEL"} => u.moid \in DOMAIN t /\ t[u.moid].side = u.side

\* The table t shows the orders f.
Shows(t, f) == DOMAIN t = DOMAIN f /\ \A m \in DOMAIN f : SameOrder(t[m], f[m])

\* The tables h[0], h[1], ... the synthesizer runs through from t on with the
\* messages p, which all fit.
Runs(h, t, p) ==
    /\ h[0] = t
    /\ \A i \in 0 .. Len(p) : IsTable(h[i])
    /\ \A i \in 1 .. Len(p) : Fits(h[i - 1], p[i]) /\ h[i] = MD!StoredAfter(h[i - 1], p[i])

\* With the messages p, which all fit, the table t becomes z.
Reaches(t, p, z) == \E h : Runs(h, t, p) /\ h[Len(p)] = z

\* A message that fits leads to a table.
LEMMA StoredTable ==
    ASSUME NEW t, IsTable(t), NEW u \in Messages, Fits(t, u)
    PROVE  IsTable(MD!StoredAfter(t, u))
<1> DEFINE z == MD!StoredAfter(t, u)
<1>0. t \in [DOMAIN t -> Messages] /\ DOMAIN t \subseteq OrderNames
  BY DEF IsTable
<1>1. CASE u.type = "ADD"
  <2>1. z = MD!With(t, u.moid, u) /\ u.moid \in OrderNames
    BY <1>1 DEF MD!StoredAfter, Fits
  <2>2. z = [y \in DOMAIN t \cup {u.moid} |-> IF y = u.moid THEN u ELSE t[y]]
    BY <2>1 DEF MD!With
  <2> QED BY <1>0, <2>1, <2>2 DEF IsTable
<1>2. CASE u.type = "MODIFY"
  <2>1. z = [t EXCEPT ![u.moid].qty = u.qty, ![u.moid].price = u.price]
    BY <1>2 DEF MD!StoredAfter
  <2>2. u.moid \in DOMAIN t /\ u.qty \in Nat /\ u.price \in Prices
    BY <1>2 DEF Fits, Messages
  <2>3. z \in [DOMAIN t -> Messages]
    BY <1>0, <2>1, <2>2 DEF Messages
  <2> QED BY <1>0, <2>3 DEF IsTable
<1>3. CASE u.type = "CANCEL"
  <2>1. z = [y \in DOMAIN t \ {u.moid} |-> t[y]]
    BY <1>3 DEF MD!StoredAfter, MD!Restrict, Restrict
  <2> QED BY <1>0, <2>1 DEF IsTable
<1>4. CASE u.type = "TRADE"
  <2>1. z = t
    BY <1>4 DEF MD!StoredAfter
  <2> QED BY <2>1
<1> QED BY <1>1, <1>2, <1>3, <1>4 DEF Messages

\* A trade changes no table.
LEMMA StoredTrade ==
    ASSUME NEW t, NEW u, u.type = "TRADE"
    PROVE  MD!StoredAfter(t, u) = t /\ Fits(t, u)
BY DEF MD!StoredAfter, Fits

\* An update that tells what became of the orders brings the table up to date.
LEMMA StoredShows ==
    ASSUME NEW t, IsTable(t), NEW f, NEW g, Shows(t, f), NEW u \in Updates, Tells(u, f, g)
    PROVE  /\ Fits(t, MarketUpdate(u))
           /\ Shows(MD!StoredAfter(t, MarketUpdate(u)), g)
<1> DEFINE v == MarketUpdate(u)
           m == u.moid
           z == MD!StoredAfter(t, v)
<1>0. /\ v.type = u.type /\ v.moid = m /\ v.side = u.side /\ v.price = u.price
      /\ v.qty = u.qty /\ v.priority = u.priority
  BY DEF MarketUpdate
<1>1. /\ t \in [DOMAIN t -> Messages] /\ DOMAIN t = DOMAIN f
      /\ \A k \in DOMAIN f : SameOrder(t[k], f[k])
  BY DEF IsTable, Shows
<1>2. /\ m \in OrderNames
      /\ \A k \in DOMAIN f \ {m} : k \in DOMAIN g /\ g[k] = f[k]
      /\ \A k \in DOMAIN g \ {m} : k \in DOMAIN f
  BY DEF Tells
<1> HIDE DEF v
<1>3. CASE u.type = "ADD"
  <2>1. m \notin DOMAIN f /\ m \in DOMAIN g /\ SameOrder(u, g[m])
    BY <1>3 DEF Tells
  <2>2. z = [y \in DOMAIN t \cup {m} |-> IF y = m THEN v ELSE t[y]]
    BY <1>0, <1>3 DEF MD!StoredAfter, MD!With
  <2>3. Fits(t, v)
    BY <1>0, <1>1, <1>2, <1>3, <2>1 DEF Fits
  <2>4. DOMAIN z = DOMAIN g
    BY <1>1, <1>2, <2>1, <2>2
  <2>5. ASSUME NEW k \in DOMAIN g PROVE SameOrder(z[k], g[k])
    <3>1. CASE k = m
      BY <1>0, <2>1, <2>2, <3>1 DEF SameOrder
    <3>2. CASE k # m
      BY <1>1, <1>2, <2>2, <3>2
    <3> QED BY <3>1, <3>2
  <2> QED BY <2>3, <2>4, <2>5 DEF Shows, v
<1>4. CASE u.type = "MODIFY"
  <2>1. /\ m \in DOMAIN f /\ m \in DOMAIN g
        /\ g[m] = [f[m] EXCEPT !.qty = u.qty] /\ SameOrder(u, g[m])
    BY <1>4 DEF Tells
  <2>2. z = [t EXCEPT ![m].qty = v.qty, ![m].price = v.price]
    BY <1>0, <1>4 DEF MD!StoredAfter
  <2>3. g[m].side = f[m].side /\ g[m].priority = f[m].priority
    BY <2>1
  <2>4. Fits(t, v)
    BY <1>0, <1>1, <1>4, <2>1, <2>3 DEF Fits, SameOrder
  <2>5. DOMAIN z = DOMAIN t /\ \A k \in DOMAIN t \ {m} : z[k] = t[k]
    BY <2>2
  <2>6. /\ z[m].qty = v.qty /\ z[m].price = v.price /\ z[m].side = t[m].side
        /\ z[m].priority = t[m].priority
    <3>1. t[m] \in Messages /\ m \in DOMAIN t
      BY <1>1, <2>1
    <3>2. z[m] = [t[m] EXCEPT !.qty = v.qty, !.price = v.price]
      BY <2>2, <3>1
    <3> QED BY <3>1, <3>2 DEF Messages
  <2>7. ASSUME NEW k \in DOMAIN g PROVE SameOrder(z[k], g[k])
    <3>1. CASE k = m
      BY <1>0, <1>1, <2>1, <2>3, <2>6, <3>1 DEF SameOrder
    <3>2. CASE k # m
      BY <1>1, <1>2, <2>5, <3>2
    <3> QED BY <3>1, <3>2
  <2>8. DOMAIN z = DOMAIN g
    BY <1>1, <1>2, <2>1, <2>5
  <2> QED BY <2>4, <2>7, <2>8 DEF Shows, v
<1>5. CASE u.type = "CANCEL"
  <2>1. m \in DOMAIN f /\ m \notin DOMAIN g /\ u.side = f[m].side
    BY <1>5 DEF Tells
  <2>2. z = [y \in DOMAIN t \ {m} |-> t[y]]
    BY <1>0, <1>5 DEF MD!StoredAfter, MD!Restrict, Restrict
  <2>3. Fits(t, v)
    BY <1>0, <1>1, <1>5, <2>1 DEF Fits, SameOrder
  <2>4. DOMAIN z = DOMAIN g
    BY <1>1, <1>2, <2>1, <2>2
  <2>5. \A k \in DOMAIN g : SameOrder(z[k], g[k])
    BY <1>1, <1>2, <2>1, <2>2
  <2> QED BY <2>3, <2>4, <2>5 DEF Shows, v
<1> QED BY <1>3, <1>4, <1>5 DEF Tells

-----------------------------------------------------------------------------
\* Without messages nothing changes.
LEMMA ReachesNone ==
    ASSUME NEW t, IsTable(t)
    PROVE  Reaches(t, <<>>, t)
<1> DEFINE h == [i \in {0} |-> t]
<1>1. h[0] = t /\ Len(<<>>) = 0 /\ 0 .. 0 = {0} /\ 1 .. 0 = {}
  OBVIOUS
<1> HIDE DEF h
<1>2. Runs(h, t, <<>>)
  BY <1>1 DEF Runs
<1> QED BY <1>1, <1>2 DEF Reaches

\* One more message that fits.
LEMMA ReachesAppend ==
    ASSUME NEW t, NEW p \in Seq(Messages), NEW z, Reaches(t, p, z),
           NEW u \in Messages, Fits(z, u)
    PROVE  Reaches(t, Append(p, u), MD!StoredAfter(z, u)) /\ IsTable(MD!StoredAfter(z, u))
<1> DEFINE n == Len(p)
           q == Append(p, u)
           y == MD!StoredAfter(z, u)
<1>1. PICK h : Runs(h, t, p) /\ h[n] = z
  BY DEF Reaches
<1> DEFINE g == [i \in 0 .. n + 1 |-> IF i = n + 1 THEN y ELSE h[i]]
<1>2. /\ n \in Nat /\ Len(q) = n + 1 /\ q[n + 1] = u /\ \A i \in 1 .. n : q[i] = p[i]
  OBVIOUS
<1>3. /\ h[0] = t
      /\ \A i \in 0 .. n : IsTable(h[i])
      /\ \A i \in 1 .. n : Fits(h[i - 1], p[i]) /\ h[i] = MD!StoredAfter(h[i - 1], p[i])
  BY <1>1 DEF Runs
<1> HIDE DEF n, q
<1>4. IsTable(z)
  BY <1>1, <1>2, <1>3
<1>5. IsTable(y)
  BY <1>4, StoredTable
<1> HIDE DEF y
<1>6. /\ g[n + 1] = y /\ \A i \in 0 .. n : g[i] = h[i]
  BY <1>2
<1> HIDE DEF g
<1>7. g[0] = t
  BY <1>2, <1>3, <1>6
<1>8. \A i \in 0 .. n + 1 : IsTable(g[i])
  <2>1. \A i \in 0 .. n + 1 : i = n + 1 \/ i \in 0 .. n
    BY <1>2
  <2> QED BY <1>3, <1>5, <1>6, <2>1
<1>9. ASSUME NEW i \in 1 .. n + 1
      PROVE  Fits(g[i - 1], q[i]) /\ g[i] = MD!StoredAfter(g[i - 1], q[i])
  <2>1. CASE i = n + 1
    <3>1. i - 1 = n /\ n \in 0 .. n
      BY <1>2, <2>1
    <3> QED BY <1>1, <1>2, <1>6, <2>1, <3>1 DEF y
  <2>2. CASE i # n + 1
    <3>1. i \in 1 .. n /\ i \in 0 .. n /\ i - 1 \in 0 .. n
      BY <1>2, <2>2
    <3> QED BY <1>2, <1>3, <1>6, <3>1
  <2> QED BY <2>1, <2>2
<1>10. Runs(g, t, q)
  BY <1>2, <1>7, <1>8, <1>9 DEF Runs
<1>11. Reaches(t, q, y)
  BY <1>2, <1>6, <1>10 DEF Reaches
<1> QED BY <1>5, <1>11 DEF q, y

\* The first message fits, and the others lead on from there.
LEMMA ReachesTail ==
    ASSUME NEW t, NEW p \in Seq(Messages), p # <<>>, NEW z, Reaches(t, p, z)
    PROVE  /\ Fits(t, Head(p))
           /\ Reaches(MD!StoredAfter(t, Head(p)), Tail(p), z)
           /\ IsTable(MD!StoredAfter(t, Head(p)))
<1> DEFINE n == Len(p)
           q == Tail(p)
<1>1. PICK h : Runs(h, t, p) /\ h[n] = z
  BY DEF Reaches
<1> DEFINE g == [i \in 0 .. n - 1 |-> h[i + 1]]
<1>2. /\ n \in Nat \ {0} /\ Len(q) = n - 1 /\ Head(p) = p[1]
      /\ \A i \in 1 .. n - 1 : q[i] = p[i + 1]
  OBVIOUS
<1>3. /\ h[0] = t
      /\ \A i \in 0 .. n : IsTable(h[i])
      /\ \A i \in 1 .. n : Fits(h[i - 1], p[i]) /\ h[i] = MD!StoredAfter(h[i - 1], p[i])
  BY <1>1 DEF Runs
<1> HIDE DEF n, q
<1>4. /\ 1 \in 1 .. n /\ 1 - 1 = 0 /\ 1 \in 0 .. n
  BY <1>2
<1>5. Fits(t, Head(p)) /\ h[1] = MD!StoredAfter(t, Head(p)) /\ IsTable(h[1])
  BY <1>2, <1>3, <1>4
<1>6. \A i \in 0 .. n - 1 : g[i] = h[i + 1]
  OBVIOUS
<1> HIDE DEF g
<1>7. g[0] = h[1] /\ g[n - 1] = z
  <2>1. 0 \in 0 .. n - 1 /\ n - 1 \in 0 .. n - 1 /\ 0 + 1 = 1 /\ (n - 1) + 1 = n
    BY <1>2
  <2> QED BY <1>1, <1>6, <2>1
<1>8. \A i \in 0 .. n - 1 : IsTable(g[i])
  <2>1. \A i \in 0 .. n - 1 : i + 1 \in 0 .. n
    BY <1>2
  <2> QED BY <1>3, <1>6, <2>1
<1>9. ASSUME NEW i \in 1 .. n - 1
      PROVE  Fits(g[i - 1], q[i]) /\ g[i] = MD!StoredAfter(g[i - 1], q[i])
  <2>1. /\ i \in 0 .. n - 1 /\ i - 1 \in 0 .. n - 1 /\ (i - 1) + 1 = i
        /\ i + 1 \in 1 .. n /\ (i + 1) - 1 = i
    BY <1>2
  <2>2. g[i] = h[i + 1] /\ g[i - 1] = h[i]
    BY <1>6, <2>1
  <2>3. Fits(h[(i + 1) - 1], p[i + 1]) /\ h[i + 1] = MD!StoredAfter(h[(i + 1) - 1], p[i + 1])
    BY <1>3, <2>1
  <2> QED BY <1>2, <2>1, <2>2, <2>3
<1>10. Runs(g, h[1], q)
  BY <1>2, <1>7, <1>8, <1>9 DEF Runs
<1> QED BY <1>2, <1>5, <1>7, <1>10 DEF Reaches, q

\* What is reached is what the fold computes.
LEMMA ReachesFold ==
    ASSUME NEW t, NEW p \in Seq(Messages), NEW z, Reaches(t, p, z)
    PROVE  FoldLeft(MD!StoredAfter, t, p) = z
<1> DEFINE n == Len(p)
<1>1. PICK h : Runs(h, t, p) /\ h[n] = z
  BY DEF Reaches
<1>2. U!FoldLeft(MD!StoredAfter, t, p) = FoldLeft(MD!StoredAfter, t, p)
  BY DEF U!FoldLeft, U!MapThenFoldSet, U!Max, FoldLeft, MapThenFoldSet, Max
<1>3. \E g : /\ g[0] = t
             /\ \A i \in 1 .. Len(p) : g[i] = MD!StoredAfter(g[i - 1], p[i])
             /\ U!FoldLeft(MD!StoredAfter, t, p) = g[Len(p)]
  <2>1. 1 \in Nat \ {0}
    OBVIOUS
  <2> QED BY <2>1, U!FoldSteps, Zenon
<1>4. PICK g : /\ g[0] = t
               /\ \A i \in 1 .. n : g[i] = MD!StoredAfter(g[i - 1], p[i])
               /\ FoldLeft(MD!StoredAfter, t, p) = g[n]
  BY <1>2, <1>3
<1>5. h[0] = t /\ \A i \in 1 .. n : h[i] = MD!StoredAfter(h[i - 1], p[i])
  BY <1>1 DEF Runs
<1>6. n \in Nat
  OBVIOUS
<1> HIDE DEF n
<1> DEFINE T == {i \in 0 .. n : g[i] # h[i]}
<1>7. T = {}
  <2> SUFFICES ASSUME T # {} PROVE FALSE
    OBVIOUS
  <2>1. PICK i \in T : \A j \in T : i <= j
    <3>1. T \subseteq Nat
      OBVIOUS
    <3> QED BY <3>1, LeastElement
  <2>2. i # 0
    BY <1>4, <1>5
  <2>3. i \in 1 .. n /\ i - 1 \in 0 .. n /\ i - 1 \notin T
    BY <1>6, <2>1, <2>2
  <2>4. g[i - 1] = h[i - 1]
    BY <2>3
  <2>5. g[i] = h[i]
    BY <1>4, <1>5, <2>3, <2>4
  <2> QED BY <2>5
<1>8. g[n] = h[n]
  BY <1>6, <1>7
<1> QED BY <1>1, <1>4, <1>8

-----------------------------------------------------------------------------
\* The updates on their way.

\* What the publisher hands to the synthesizer.
Stamped == [seq : Nat, upd : Messages]

\* The synthesizer's entries of the instrument.
Table == updates_by_instrument[Instrument]

\* The updates on their way to the synthesizer, the next one first.
Pending == [k \in DOMAIN snapshot_updates |-> snapshot_updates[k].upd] \o market_updates

\* Only the table of the instrument is used, and the updates on the way fit
\* one after the other and lead from it to the orders of the book.
LostInv ==
    /\ snapshot_updates \in Seq(Stamped)
    /\ market_updates \in Seq(Messages)
    /\ updates_by_instrument = [i \in MD!Instruments |-> updates_by_instrument[i]]
    /\ \A i \in MD!Instruments \ {Instrument} : DOMAIN updates_by_instrument[i] = {}
    /\ IsTable(Table)
    /\ \E z : Reaches(Table, Pending, z) /\ Shows(z, orders)

\* The messages of a queue whose elements carry them.
LEMMA Carried ==
    ASSUME NEW s \in Seq(Stamped),
           NEW q, q = [k \in DOMAIN s |-> s[k].upd]
    PROVE  q \in Seq(Messages) /\ Len(q) = Len(s) /\ \A k \in 1 .. Len(s) : q[k] = s[k].upd
<1>1. DOMAIN s = 1 .. Len(s) /\ Len(s) \in Nat /\ \A k \in 1 .. Len(s) : s[k] \in Stamped
  OBVIOUS
<1>2. \A k \in 1 .. Len(s) : s[k].upd \in Messages
  BY <1>1 DEF Stamped
<1>3. q = [k \in 1 .. Len(s) |-> s[k].upd]
  BY <1>1
<1> QED BY <1>1, <1>2, <1>3

\* What is reached is a table.
LEMMA ReachesTable ==
    ASSUME NEW t, NEW p \in Seq(Messages), NEW z, Reaches(t, p, z)
    PROVE  IsTable(z)
<1>1. PICK h : Runs(h, t, p) /\ h[Len(p)] = z
  BY DEF Reaches
<1>2. Len(p) \in 0 .. Len(p)
  OBVIOUS
<1> QED BY <1>1, <1>2 DEF Runs

\* The updates on the way are messages.
LEMMA PendingSeq ==
    ASSUME LostInv
    PROVE  Pending \in Seq(Messages)
<1> DEFINE sent == [k \in DOMAIN snapshot_updates |-> snapshot_updates[k].upd]
<1>1. sent \in Seq(Messages)
  BY Carried DEF LostInv
<1>2. Pending = sent \o market_updates /\ market_updates \in Seq(Messages)
  BY DEF Pending, LostInv
<1> QED BY <1>1, <1>2

\* The matching engine adds the updates of a step.
LEMMA EngineLost ==
    ASSUME IInv, LostInv, Engine
    PROVE  LostInv'
<1> DEFINE mq == market_updates
           new == [k \in DOMAIN updates' |-> MarketUpdate(updates'[k])]
           sent == [k \in DOMAIN snapshot_updates |-> snapshot_updates[k].upd]
           p == Pending
           t == Table
<1>1. /\ mq' = mq \o new
      /\ UNCHANGED <<snapshot_updates, updates_by_instrument>>
      /\ Told
  BY StepTold DEF Engine, SendMarketUpdates
<1>2. t' = t /\ sent' = sent
  BY <1>1 DEF Table
<1>3. PICK z : Reaches(t, p, z) /\ Shows(z, orders)
  BY DEF LostInv
<1>4. mq \in Seq(Messages) /\ sent \in Seq(Messages) /\ p \in Seq(Messages) /\ IsTable(t)
  BY Carried, PendingSeq DEF LostInv
<1>5. IsTable(z)
  BY <1>3, <1>4, ReachesTable
<1>6. \A u \in Updates : MarketUpdate(u) \in Messages
  BY DEF MarketUpdate, Updates, Messages
<1>7. \A u \in Updates : MarketUpdate(u).type = u.type
  BY DEF MarketUpdate
<1>8. p = sent \o mq /\ p' = sent \o mq'
  BY <1>1 DEF Pending
<1> SUFFICES mq' \in Seq(Messages) /\ \E y : Reaches(t, p', y) /\ Shows(y, orders')
  BY <1>1, <1>2 DEF LostInv, Table
<1> HIDE DEF mq, sent, p, t
<1>9. CASE updates' = <<>> /\ orders' = orders
  <2>1. new = <<>>
    BY <1>9
  <2>2. mq' = mq
    BY <1>1, <1>4, <2>1
  <2> QED BY <1>3, <1>4, <1>8, <1>9, <2>2
<1>10. ASSUME NEW u \in Updates, Tells(u, orders, orders'), updates' = <<u>>
       PROVE  mq' \in Seq(Messages) /\ \E y : Reaches(t, p', y) /\ Shows(y, orders')
  <2> DEFINE v == MarketUpdate(u)
  <2>1. new = <<v>>
    BY <1>10
  <2>2. v \in Messages
    BY <1>6
  <2>3. Fits(z, v) /\ Shows(MD!StoredAfter(z, v), orders')
    BY <1>3, <1>5, <1>10, StoredShows
  <2> HIDE DEF v
  <2>4. mq' = Append(mq, v)
    BY <1>1, <1>4, <2>1, <2>2
  <2>5. p' = Append(p, v)
    BY <1>4, <1>8, <2>2, <2>4
  <2>6. Reaches(t, Append(p, v), MD!StoredAfter(z, v))
    BY <1>3, <1>4, <2>2, <2>3, ReachesAppend
  <2> QED BY <1>4, <2>2, <2>3, <2>4, <2>5, <2>6
<1>11. ASSUME NEW w \in Updates, NEW u \in Updates, w.type = "TRADE",
              Tells(u, orders, orders'), updates' = <<w, u>>
       PROVE  mq' \in Seq(Messages) /\ \E y : Reaches(t, p', y) /\ Shows(y, orders')
  <2> DEFINE v == MarketUpdate(u)
             x == MarketUpdate(w)
  <2>1. new = <<x, v>>
    BY <1>11
  <2>2. v \in Messages /\ x \in Messages /\ x.type = "TRADE"
    BY <1>6, <1>7, <1>11
  <2>3. Fits(z, v) /\ Shows(MD!StoredAfter(z, v), orders')
    BY <1>3, <1>5, <1>11, StoredShows
  <2> HIDE DEF v, x
  <2>4. mq' = Append(Append(mq, x), v)
    BY <1>1, <1>4, <2>1, <2>2
  <2>5. p' = Append(Append(p, x), v)
    <3>1. sent \o Append(Append(mq, x), v) = Append(sent \o Append(mq, x), v)
      BY <1>4, <2>2
    <3>2. sent \o Append(mq, x) = Append(sent \o mq, x)
      BY <1>4, <2>2
    <3> QED BY <1>8, <2>4, <3>1, <3>2
  <2>6. MD!StoredAfter(z, x) = z /\ Fits(z, x)
    BY <2>2, StoredTrade
  <2>7. Reaches(t, Append(p, x), z)
    BY <1>3, <1>4, <2>2, <2>6, ReachesAppend
  <2>8. Append(p, x) \in Seq(Messages)
    BY <1>4, <2>2
  <2>9. Reaches(t, Append(Append(p, x), v), MD!StoredAfter(z, v))
    BY <2>2, <2>3, <2>7, <2>8, ReachesAppend
  <2> QED BY <1>4, <2>2, <2>3, <2>4, <2>5, <2>9
<1> QED BY <1>1, <1>9, <1>10, <1>11 DEF Told

\* The publisher hands an update on.
LEMMA PublishLost ==
    ASSUME LostInv, NumbersInv, MD!Publish, UNCHANGED vars
    PROVE  LostInv'
<1> DEFINE mq == market_updates
           s == snapshot_updates
           u == Head(mq)
           m == [seq |-> next_inc_seq_num, upd |-> u]
           sent == [k \in DOMAIN s |-> s[k].upd]
<1>1. /\ mq # <<>> /\ mq' = Tail(mq) /\ s' = Append(s, m)
      /\ updates_by_instrument' = updates_by_instrument /\ orders' = orders
  BY DEF MD!Publish, MD!synthesizer, vars, book
<1>2. mq \in Seq(Messages) /\ s \in Seq(Stamped) /\ next_inc_seq_num \in Nat
  BY DEF LostInv, NumbersInv, Streams
<1>3. u \in Messages /\ mq' \in Seq(Messages) /\ mq = <<u>> \o Tail(mq)
  BY <1>1, <1>2
<1>4. m \in Stamped /\ m.upd = u
  BY <1>2, <1>3 DEF Stamped
<1> HIDE DEF u, m
<1>5. s' \in Seq(Stamped) /\ Len(s') = Len(s) + 1
      /\ s'[Len(s) + 1] = m /\ \A k \in 1 .. Len(s) : s'[k] = s[k]
  BY <1>1, <1>2, <1>4
<1>6. sent \in Seq(Messages) /\ Len(sent) = Len(s) /\ \A k \in 1 .. Len(s) : sent[k] = s[k].upd
  BY <1>2, Carried
<1>7. /\ sent' \in Seq(Messages) /\ Len(sent') = Len(s')
      /\ \A k \in 1 .. Len(s') : sent'[k] = s'[k].upd
  <2>1. s' \in Seq(Stamped)
    BY <1>5
  <2> QED BY <2>1, Carried
<1>8. Pending = sent \o mq /\ Pending' = sent' \o mq'
  BY DEF Pending
<1> HIDE DEF sent
<1>9. sent' = Append(sent, u)
  <2>1. Len(Append(sent, u)) = Len(s) + 1 /\ Append(sent, u) \in Seq(Messages)
    BY <1>3, <1>6
  <2>2. \A k \in 1 .. Len(s) + 1 : sent'[k] = Append(sent, u)[k]
    <3>1. Len(s) \in Nat /\ \A k \in 1 .. Len(s) + 1 : k = Len(s) + 1 \/ k \in 1 .. Len(s)
      BY <1>2
    <3>2. /\ Append(sent, u)[Len(s) + 1] = u
          /\ \A k \in 1 .. Len(s) : Append(sent, u)[k] = sent[k]
      BY <1>3, <1>6
    <3>3. sent'[Len(s) + 1] = u
      BY <1>4, <1>5, <1>7, <3>1
    <3>4. \A k \in 1 .. Len(s) : sent'[k] = sent[k]
      BY <1>5, <1>6, <1>7, <3>1
    <3> QED BY <3>1, <3>2, <3>3, <3>4
  <2> QED BY <1>5, <1>7, <2>1, <2>2
<1>10. Pending' = Pending
  <2>1. Append(sent, u) \o Tail(mq) = sent \o mq
    <3>1. Append(sent, u) = sent \o <<u>>
      BY <1>3, <1>6
    <3>2. (sent \o <<u>>) \o Tail(mq) = sent \o (<<u>> \o Tail(mq))
      BY <1>1, <1>3, <1>6
    <3> QED BY <1>3, <3>1, <3>2
  <2> QED BY <1>1, <1>8, <1>9, <2>1
<1> QED BY <1>1, <1>3, <1>5, <1>10 DEF LostInv, Table

\* The synthesizer takes an update, or stops at it.
LEMMA AddToSnapshotLost ==
    ASSUME LostInv, MD!AddToSnapshot, UNCHANGED vars
    PROVE  LostInv'
<1> DEFINE s == snapshot_updates
           u == Head(s).upd
           sent == [k \in DOMAIN s |-> s[k].upd]
<1>1. /\ s # <<>> /\ orders' = orders /\ market_updates' = market_updates
      /\ \/ UNCHANGED <<updates_by_instrument, s>>
         \/ /\ updates_by_instrument' =
                 [updates_by_instrument EXCEPT ![u.instrument] = MD!StoredAfter(@, u)]
            /\ s' = Tail(s)
  BY DEF MD!AddToSnapshot, MD!publisher, vars, book
<1>2. CASE UNCHANGED <<updates_by_instrument, s>>
  BY <1>1, <1>2 DEF LostInv, Table, Pending
<1>3. CASE /\ updates_by_instrument' =
                [updates_by_instrument EXCEPT ![u.instrument] = MD!StoredAfter(@, u)]
           /\ s' = Tail(s)
  <2>1. s \in Seq(Stamped) /\ market_updates \in Seq(Messages)
    BY DEF LostInv
  <2>2. /\ s' \in Seq(Stamped) /\ Len(s) \in Nat \ {0}
        /\ Len(s') = Len(s) - 1 /\ s[1].upd = u /\ u \in Messages
        /\ \A k \in 1 .. Len(s) - 1 : s'[k] = s[k + 1]
    <3>1. s[1] \in Stamped /\ Head(s) = s[1]
      BY <1>1, <2>1
    <3>2. /\ Tail(s) \in Seq(Stamped) /\ Len(s) \in Nat \ {0} /\ Len(Tail(s)) = Len(s) - 1
          /\ \A k \in 1 .. Len(s) - 1 : Tail(s)[k] = s[k + 1]
      BY <1>1, <2>1
    <3> QED BY <1>3, <3>1, <3>2 DEF Stamped
  <2>3. sent \in Seq(Messages) /\ Len(sent) = Len(s) /\ \A k \in 1 .. Len(s) : sent[k] = s[k].upd
    BY <2>1, Carried
  <2>4. /\ sent' \in Seq(Messages) /\ Len(sent') = Len(s')
        /\ \A k \in 1 .. Len(s') : sent'[k] = s'[k].upd
    BY <2>2, Carried
  <2>5. Pending = sent \o market_updates /\ Pending' = sent' \o market_updates
    BY <1>1 DEF Pending
  <2> HIDE DEF sent, u
  <2>6. sent # <<>> /\ Head(sent) = u /\ sent' = Tail(sent)
    <3>1. sent # <<>> /\ Head(sent) = u
      BY <2>2, <2>3
    <3>2. /\ Tail(sent) \in Seq(Messages) /\ Len(Tail(sent)) = Len(s) - 1
          /\ \A k \in 1 .. Len(s) - 1 : Tail(sent)[k] = sent[k + 1]
      BY <2>3, <3>1
    <3>3. \A k \in 1 .. Len(s) - 1 : sent'[k] = Tail(sent)[k]
      <4>1. \A k \in 1 .. Len(s) - 1 : k + 1 \in 1 .. Len(s)
        BY <2>2
      <4> QED BY <2>2, <2>3, <2>4, <3>2, <4>1
    <3>4. Len(sent') = Len(s) - 1
      BY <2>2, <2>4
    <3>5. sent' = Tail(sent)
      <4>1. /\ sent' \in Seq(Messages) /\ Len(sent') = Len(Tail(sent))
            /\ \A k \in 1 .. Len(sent') : sent'[k] = Tail(sent)[k]
        BY <2>4, <3>2, <3>3, <3>4
      <4>2. Tail(sent) \in Seq(Messages)
        BY <3>2
      <4> HIDE DEF Messages
      <4> QED BY <4>1, <4>2, SeqEqual
    <3> QED BY <3>1, <3>5
  <2>7. /\ Pending \in Seq(Messages) /\ Pending # <<>> /\ Head(Pending) = u
        /\ Pending' = Tail(Pending)
    <3> DEFINE q == sent \o market_updates
    <3>1. q \in Seq(Messages) /\ q # <<>> /\ Head(q) = Head(sent)
      BY <2>1, <2>3, <2>6
    <3>2. Tail(q) = Tail(sent) \o market_updates
      BY <2>1, <2>3, <2>6
    <3> QED BY <2>5, <2>6, <3>1, <3>2
  <2>8. PICK z : Reaches(Table, Pending, z) /\ Shows(z, orders)
    BY DEF LostInv
  <2>9. /\ Reaches(MD!StoredAfter(Table, u), Pending', z)
        /\ IsTable(MD!StoredAfter(Table, u))
    BY <2>7, <2>8, ReachesTail
  <2>10. Instrument \in MD!Instruments /\ u.instrument = Instrument
    BY <2>2, ExchangeAssumption DEF MD!Instruments, Messages
  <2>11. /\ updates_by_instrument = [i \in MD!Instruments |-> updates_by_instrument[i]]
         /\ \A i \in MD!Instruments \ {Instrument} : DOMAIN updates_by_instrument[i] = {}
    BY DEF LostInv
  <2>12. /\ updates_by_instrument' = [i \in MD!Instruments |-> updates_by_instrument'[i]]
         /\ Table' = MD!StoredAfter(Table, u)
         /\ \A i \in MD!Instruments \ {Instrument} : DOMAIN updates_by_instrument'[i] = {}
    BY <1>3, <2>10, <2>11 DEF Table
  <2> QED BY <1>1, <2>1, <2>2, <2>8, <2>9, <2>12 DEF LostInv
<1> QED BY <1>1, <1>2, <1>3

\* What the invariant says of the state the runs look at.
LEMMA LostInvSays ==
    ASSUME LostInv
    PROVE  NothingLost
<1>1. PICK z : Reaches(Table, Pending, z) /\ Shows(z, orders)
  BY DEF LostInv
<1>2. FoldLeft(MD!StoredAfter, Table, Pending) = z
  BY <1>1, PendingSeq, ReachesFold
<1>3. Upcoming = z
  BY <1>2 DEF Upcoming, Table, Pending
<1> QED BY <1>1, <1>3 DEF NothingLost, Shows, SameOrder

\* The synthesizer never fails where it has room for all the orders the book
\* may name.
LEMMA NoFailure ==
    ASSUME LostInv, NumbersInv, MaxMarketOrders < TableSize, MD!AddToSnapshot
    PROVE  failed' = failed
<1> DEFINE s == snapshot_updates
           u == Head(s).upd
           used == UNION {{i} \X DOMAIN updates_by_instrument[i] : i \in MD!Instruments}
<1>1. s # <<>> /\ s \in Seq(Stamped) /\ market_updates \in Seq(Messages)
  BY DEF MD!AddToSnapshot, LostInv
<1>2. Head(s) \in Stamped /\ Head(s) = s[1] /\ 1 \in DOMAIN s
  BY <1>1
<1>3. u \in Messages /\ u.instrument = Instrument
  BY <1>2 DEF Stamped, Messages
<1>4. Head(s).seq = last_inc_seq_num + 1
  BY <1>2 DEF NumbersInv, NumbersAgree
<1>5. Fits(Table, u)
  <2> DEFINE sent == [k \in DOMAIN s |-> s[k].upd]
  <2>1. sent \in Seq(Messages) /\ Len(sent) = Len(s) /\ \A k \in 1 .. Len(s) : sent[k] = s[k].upd
    BY <1>1, Carried
  <2>2. Pending = sent \o market_updates
    BY DEF Pending
  <2>3. sent # <<>> /\ Head(sent) = u
    BY <1>1, <1>2, <2>1
  <2> HIDE DEF sent, u
  <2>4. Pending # <<>> /\ Head(Pending) = u /\ Pending \in Seq(Messages)
    BY <1>1, <2>1, <2>2, <2>3
  <2>5. PICK z : Reaches(Table, Pending, z)
    BY DEF LostInv
  <2> QED BY <2>4, <2>5, ReachesTail
<1>6. MD!Cardinality(used) < TableSize
  <2> DEFINE first == [x \in used |-> x[2]]
  <2>1. \A x \in used : x = <<Instrument, x[2]>> /\ x[2] \in OrderNames
    <3>1. /\ \A i \in MD!Instruments \ {Instrument} : DOMAIN updates_by_instrument[i] = {}
          /\ DOMAIN updates_by_instrument[Instrument] \subseteq OrderNames
      BY DEF LostInv, IsTable, Table
    <3> SUFFICES ASSUME NEW x \in used
                 PROVE  x = <<Instrument, x[2]>> /\ x[2] \in OrderNames
      OBVIOUS
    <3>2. PICK i \in MD!Instruments : x \in {i} \X DOMAIN updates_by_instrument[i]
      OBVIOUS
    <3>3. i = Instrument
      BY <3>1, <3>2
    <3> QED BY <3>1, <3>2, <3>3
  <2> HIDE DEF used
  <2>2. first \in [used -> OrderNames] /\ \A x, y \in used : first[x] = first[y] => x = y
    BY <2>1
  <2>3. first \in Injection(used, OrderNames)
    BY <2>2 DEF Injection, IsInjective
  <2>4. IsFiniteSet(OrderNames) /\ Cardinality(OrderNames) = MaxMarketOrders
    BY FS_Interval, ConstantsAssumption DEF OrderNames
  <2>5. IsFiniteSet(used) /\ Cardinality(used) <= MaxMarketOrders
    BY <2>3, <2>4, FS_Injection
  <2>6. Cardinality(used) < TableSize
    BY <2>5, FS_CardinalityType, ConstantsAssumption, ExchangeAssumption
  <2> QED BY <2>6 DEF MD!Cardinality, Cardinality
<1>7. MD!Accepts(updates_by_instrument, u)
  <2>1. u.type = "ADD" => u.moid \in 0 .. TableSize - 1
    BY <1>5, ConstantsAssumption, ExchangeAssumption DEF Fits, OrderNames
  <2> QED BY <1>3, <1>5, <1>6, <2>1 DEF MD!Accepts, Fits, Table
<1> QED BY <1>4, <1>7 DEF MD!AddToSnapshot

-----------------------------------------------------------------------------
\* The invariant of the composition.
XInv == IInv /\ NumbersInv /\ LostInv

\* A step of the composition is a step of the book, or leaves it alone.
LEMMA BookStep == [XNext]_xvars => [Next]_vars
<1> SUFFICES ASSUME [XNext]_xvars PROVE Next \/ UNCHANGED vars
  OBVIOUS
<1>1. CASE XNext
  BY <1>1 DEF XNext, Engine, Publisher, Synthesizer
<1>2. CASE UNCHANGED xvars
  BY <1>2 DEF xvars
<1> QED BY <1>1, <1>2

\* Before the first request there is nothing to lose.
LEMMA LostInit == XInit => LostInv
<1> SUFFICES ASSUME XInit PROVE LostInv
  OBVIOUS
<1>1. /\ snapshot_updates = <<>> /\ market_updates = <<>>
      /\ updates_by_instrument = [i \in MD!Instruments |-> <<>>]
      /\ orders = <<>>
  BY DEF XInit, MD!MDInit, Init
<1>2. Instrument \in MD!Instruments
  BY ExchangeAssumption DEF MD!Instruments
<1>3. Table = <<>> /\ Pending = <<>>
  BY <1>1, <1>2 DEF Table, Pending
<1>4. IsTable(<<>>) /\ Shows(<<>>, <<>>)
  BY DEF IsTable, Shows
<1>5. Reaches(<<>>, <<>>, <<>>)
  BY <1>4, ReachesNone
<1>6. /\ snapshot_updates \in Seq(Stamped) /\ market_updates \in Seq(Messages)
      /\ updates_by_instrument = [i \in MD!Instruments |-> updates_by_instrument[i]]
      /\ \A i \in MD!Instruments : DOMAIN updates_by_instrument[i] = {}
  BY <1>1
<1> QED BY <1>1, <1>3, <1>4, <1>5, <1>6 DEF LostInv

\* No step of the three threads loses an update.
LEMMA LostNext == XInv /\ [XNext]_xvars => LostInv'
<1> SUFFICES ASSUME XInv, [XNext]_xvars PROVE LostInv'
  OBVIOUS
<1>0. IInv /\ NumbersInv /\ LostInv
  BY DEF XInv
<1>1. CASE UNCHANGED <<snapshot_updates, market_updates, updates_by_instrument, orders>>
  BY <1>0, <1>1 DEF LostInv, Table, Pending
<1>2. CASE Engine
  BY <1>0, <1>2, EngineLost
<1>3. CASE MD!Publish /\ UNCHANGED vars
  BY <1>0, <1>3, PublishLost
<1>4. CASE MD!AddToSnapshot /\ UNCHANGED vars
  BY <1>0, <1>4, AddToSnapshotLost
<1>5. CASE MD!SendData /\ UNCHANGED vars
  BY <1>1, <1>5 DEF MD!SendData, MD!synthesizer, vars, book
<1>6. CASE MD!PublishSnapshot /\ UNCHANGED vars
  BY <1>1, <1>6 DEF MD!PublishSnapshot, MD!synthesizer, vars, book
<1>7. CASE UNCHANGED xvars
  BY <1>1, <1>7 DEF xvars, vars, book
<1> QED BY <1>2, <1>3, <1>4, <1>5, <1>6, <1>7 DEF XNext, Publisher, Synthesizer

\* The composition keeps its invariant.
LEMMA XInvariance == XSpec => []XInv
<1>1. XInit => XInv
  BY InitInv, NumbersInit, LostInit DEF XInit, XInv
<1>2. XInv /\ [XNext]_xvars => XInv'
  <2> SUFFICES ASSUME XInv, [XNext]_xvars PROVE XInv'
    OBVIOUS
  <2>1. IInv'
    BY BookStep, NextInv DEF XInv
  <2>2. NumbersInv'
    BY NumbersNext DEF XInv
  <2>3. LostInv'
    BY LostNext
  <2> QED BY <2>1, <2>2, <2>3 DEF XInv
<1> QED BY <1>1, <1>2, PTL DEF XSpec

-----------------------------------------------------------------------------
\* The numbers of the messages that are sent, buffered or on their way to the
\* synthesizer agree, for any behaviour of the matching engine.
THEOREM ExchangeNumbersAgree == XSpec => []NumbersAgree
<1>1. XInv => NumbersAgree
  BY DEF XInv, NumbersInv
<1> QED BY <1>1, XInvariance, PTL

\* No add, modify or cancel is lost, reordered or wrong on its way from the book
\* through send_market_update, process_and_publish and add_to_snapshot.
THEOREM ExchangeNothingLost == XSpec => []NothingLost
<1>1. XInv => NothingLost
  BY LostInvSays DEF XInv
<1> QED BY <1>1, XInvariance, PTL

\* add_to_snapshot never fails an assertion and no .at() throws, where the table
\* of an instrument has room for every order id the book gives out.
THEOREM ExchangeSynthesizerSound ==
    ASSUME MaxMarketOrders < TableSize
    PROVE  XSpec => []SynthesizerSound
<1>1. XInit => SynthesizerSound
  BY DEF XInit, MD!MDInit, SynthesizerSound
<1>2. XInv /\ SynthesizerSound /\ [XNext]_xvars => SynthesizerSound'
  <2> SUFFICES ASSUME XInv, SynthesizerSound, [XNext]_xvars PROVE failed' = failed
    BY DEF SynthesizerSound
  <2>1. CASE MD!AddToSnapshot
    BY <2>1, NoFailure DEF XInv
  <2>2. CASE Engine \/ MD!Publish \/ MD!SendData \/ MD!PublishSnapshot
    BY <2>2 DEF Engine, MD!Publish, MD!SendData, MD!PublishSnapshot, MD!synthesizer
  <2>3. CASE UNCHANGED xvars
    BY <2>3 DEF xvars
  <2> QED BY <2>1, <2>2, <2>3 DEF XNext, Publisher, Synthesizer
<1> QED BY <1>1, <1>2, XInvariance, PTL DEF XSpec

-----------------------------------------------------------------------------
\* A client's copy of the book, which the updates keep.

\* A step of the book without an update, with one, and with a trade and one.
LEMMA UpdatesApplied ==
    ASSUME NEW b, NEW u
    PROVE  /\ FoldLeft(M!OnMarketUpdate, b, <<>>) = b
           /\ FoldLeft(M!OnMarketUpdate, b, <<u>>) = M!OnMarketUpdate(b, u)
           /\ \A t : t.type = "TRADE" =>
                FoldLeft(M!OnMarketUpdate, b, <<t, u>>) = M!OnMarketUpdate(b, u)
<1>0. 1 \in Nat \ {0}
  OBVIOUS
<1>1. C!FoldLeft(M!OnMarketUpdate, b, <<>>) = FoldLeft(M!OnMarketUpdate, b, <<>>)
  BY Zenon DEF C!FoldLeft, C!MapThenFoldSet, C!Max, FoldLeft, MapThenFoldSet, Max
<1>2. C!FoldLeft(M!OnMarketUpdate, b, <<u>>) = FoldLeft(M!OnMarketUpdate, b, <<u>>)
  BY Zenon DEF C!FoldLeft, C!MapThenFoldSet, C!Max, FoldLeft, MapThenFoldSet, Max
<1>3. \A t : C!FoldLeft(M!OnMarketUpdate, b, <<t, u>>) = FoldLeft(M!OnMarketUpdate, b, <<t, u>>)
  BY Zenon DEF C!FoldLeft, C!MapThenFoldSet, C!Max, FoldLeft, MapThenFoldSet, Max
<1>4. \A t : t.type = "TRADE" => M!OnMarketUpdate(b, t) = b
  BY DEF M!OnMarketUpdate
<1>5. C!FoldLeft(M!OnMarketUpdate, b, <<>>) = b
  BY <1>0, C!FoldShort, Zenon
<1>6. C!FoldLeft(M!OnMarketUpdate, b, <<u>>) = M!OnMarketUpdate(b, u)
  BY <1>0, C!FoldShort, Zenon
<1>7. ASSUME NEW t, t.type = "TRADE"
      PROVE  C!FoldLeft(M!OnMarketUpdate, b, <<t, u>>) = M!OnMarketUpdate(b, u)
  <2> DEFINE p == <<t, u>>
  <2>1. p \in Seq({t, u}) /\ Len(p) = 2 /\ p[1] = t /\ p[2] = u
    OBVIOUS
  <2> HIDE DEF p
  <2>2. \E h : /\ h[0] = b
               /\ \A i \in 1 .. Len(p) : h[i] = M!OnMarketUpdate(h[i - 1], p[i])
               /\ C!FoldLeft(M!OnMarketUpdate, b, p) = h[Len(p)]
    BY <1>0, <2>1, C!FoldSteps, Zenon
  <2>3. PICK h : /\ h[0] = b
                 /\ \A i \in 1 .. 2 : h[i] = M!OnMarketUpdate(h[i - 1], p[i])
                 /\ C!FoldLeft(M!OnMarketUpdate, b, p) = h[2]
    BY <2>1, <2>2
  <2>4. h[1] = M!OnMarketUpdate(h[0], p[1]) /\ h[2] = M!OnMarketUpdate(h[1], p[2])
    BY <2>3
  <2>5. C!FoldLeft(M!OnMarketUpdate, b, p) = M!OnMarketUpdate(b, u)
    BY <1>4, <1>7, <2>1, <2>3, <2>4
  <2> QED BY <2>5, Zenon DEF p
<1> QED BY <1>1, <1>2, <1>3, <1>5, <1>6, <1>7, Zenon

-----------------------------------------------------------------------------
\* Copies of the book.

\* What a market_order has of an order, and a market_order_book by its members.
View(o) == [side |-> o.side, price |-> o.price, qty |-> o.qty, priority |-> o.priority]
Views(f) == [m \in DOMAIN f |-> View(f[m])]
Members(o, l, r, p, q) ==
    [orders |-> o, levels |-> l, rings |-> r, price_levels |-> p, bbo |-> q, failed |-> FALSE]

\* The best bid and offer of b are those of its lists, or absent.
BboFits(b) == \A side \in Sides : b.bbo[side] \in {M!NoQuote, M!Quote(b, side)}

\* b has these members, and a best bid and offer that fit.
Holds(b, o, l, r, p) == b = Members(o, l, r, p, b.bbo) /\ BboFits(b)

\* b is a book with the orders f and the lists and slots l, r and p.
Copies(b, f, l, r, p) == Holds(b, Views(f), l, r, p)

\* What an update does before the best bid and offer are updated.
Changed(b, u) ==
    CASE u.type = "ADD" ->
           M!AddOrder(b, u.moid, [side |-> u.side, price |-> u.price, qty |-> u.qty,
                                  priority |-> u.priority])
      [] u.type = "MODIFY" -> M!ModifyOrder(b, u.moid, u.price, u.qty)
      [] OTHER -> M!RemoveOrder(b, u.moid)

\* A side with a price, that the update does not touch, has the quote it had.
QuoteStands(b, u, side) ==
    M!Touches(b, side, u) \/ b.rings[side] = <<>> \/ M!Quote(Changed(b, u), side) = M!Quote(b, side)

\* An update changes the lists, and then the quote of a side it touches; the quote
\* of another side must be as it was.
LEMMA QuotesUpdated ==
    ASSUME NEW b, Holds(b, b.orders, b.levels, b.rings, b.price_levels), NEW u,
           u.type \in {"ADD", "MODIFY", "CANCEL"},
           NEW o, NEW l, NEW r, NEW p, Changed(b, u) = Members(o, l, r, p, b.bbo),
           \A side \in Sides : QuoteStands(b, u, side)
    PROVE  Holds(M!OnMarketUpdate(b, u), o, l, r, p)
<1> DEFINE e == Changed(b, u)
<1> DEFINE c == M!OnMarketUpdate(b, u)
           touched == {side \in Sides : M!Touches(b, side, u)}
           quotes == [side \in Sides |-> IF side \in touched THEN M!Quote(e, side)
                                                             ELSE b.bbo[side]]
<1>0. e = Members(o, l, r, p, b.bbo) /\ b.failed = FALSE /\ BboFits(b)
  BY DEF Holds, Members
<1> HIDE DEF e
<1>1. e.failed = FALSE /\ e.bbo = b.bbo /\ e.orders = o /\ e.levels = l /\ e.rings = r
  BY <1>0 DEF Members
<1>2. c = M!UpdateBbo(e, touched)
  <2>1. M!Sides = Sides
    BY DEF M!Sides, Sides
  <2> HIDE DEF touched
  <2>2. touched = {side \in M!Sides : M!Touches(b, side, u)}
    BY <2>1 DEF touched
  <2>3. e.failed = FALSE => c = M!UpdateBbo(e, {side \in M!Sides : M!Touches(b, side, u)})
    BY <1>0 DEF M!OnMarketUpdate, Changed, e
  <2> QED BY <1>1, <2>2, <2>3
<1>3. c = [e EXCEPT !.bbo = quotes]
  BY <1>1, <1>2 DEF M!UpdateBbo, M!Sides, Sides
<1> HIDE DEF c, quotes
<1>4. c = Members(o, l, r, p, quotes)
  BY <1>0, <1>3 DEF Members
<1>5. c.bbo = quotes /\ c.orders = o /\ c.levels = l /\ c.rings = r
  BY <1>4 DEF Members
<1>6. \A side \in Sides : M!Quote(c, side) = M!Quote(e, side)
  BY <1>1, <1>5 DEF M!Quote
<1>7. ASSUME NEW side \in Sides
      PROVE  c.bbo[side] \in {M!NoQuote, M!Quote(c, side)}
  <2>1. CASE side \in touched
    BY <1>5, <1>6, <2>1 DEF quotes
  <2>2. CASE side \notin touched
    <3>1. c.bbo[side] = b.bbo[side] /\ b.bbo[side] \in {M!NoQuote, M!Quote(b, side)}
      BY <1>0, <1>5, <2>2 DEF quotes, BboFits
    <3>2. b.rings[side] = <<>> => M!Quote(b, side) = M!NoQuote
      BY DEF M!Quote
    <3>3. b.rings[side] = <<>> \/ M!Quote(c, side) = M!Quote(b, side)
      BY <1>6, <2>2 DEF QuoteStands, e
    <3> QED BY <3>1, <3>2, <3>3
  <2> QED BY <2>1, <2>2
<1> QED BY <1>4, <1>5, <1>7 DEF Holds, BboFits, c

\* The quote of a side depends on its best level and the quantities there.
LEMMA QuoteKept ==
    ASSUME NEW b, NEW e, NEW side, NEW h,
           b.rings[side] # <<>>, e.rings[side] # <<>>,
           Head(b.rings[side]) = h, Head(e.rings[side]) = h, e.levels[h] = b.levels[h],
           \A m \in ToSet(b.levels[h].queue) : e.orders[m].qty = b.orders[m].qty
    PROVE  M!Quote(e, side) = M!Quote(b, side)
<1> DEFINE q == b.levels[h].queue
           s == [i \in DOMAIN q |-> b.orders[q[i]].qty]
           t == [i \in DOMAIN q |-> e.orders[q[i]].qty]
<1>1. s = t
  BY DEF ToSet
<1>2. M!Quote(b, side) = [price |-> b.levels[h].price, qty |-> M!Total(s)]
  BY DEF M!Quote
<1>3. M!Quote(e, side) = [price |-> b.levels[h].price, qty |-> M!Total(t)]
  BY DEF M!Quote
<1> HIDE DEF s, t
<1> QED BY <1>1, <1>2, <1>3

\* The best level of a side of a tidy book, and its orders: an order at a worse price
\* is not one of them.
LEMMA BestLevel ==
    ASSUME BookInv, Tidy, NEW side \in Sides, rings[side] # <<>>
    PROVE  LET h == Head(rings[side])
           IN  /\ h = rings[side][1] /\ h \in DOMAIN levels /\ levels[h].side = side
               /\ levels[h].price \in Prices
               /\ ToSet(levels[h].queue) = {m \in DOMAIN orders : orders[m].home = h}
               /\ \A m \in DOMAIN orders :
                    orders[m].side # side \/ Better(side, levels[h].price, orders[m].price)
                      => orders[m].home # h
<1> DEFINE h == rings[side][1]
<1>1. rings[side] \in Seq(OrderNames)
  BY DEF BookInv, BookTypeOK
<1>2. Head(rings[side]) = h
  BY <1>1
<1>3. h \in DOMAIN levels /\ levels[h].side = side
  BY BestIsBest
<1> HIDE DEF h
<1>4. levels[h].price \in Prices /\ ToSet(levels[h].queue) = {m \in DOMAIN orders : orders[m].home = h}
  BY <1>3 DEF BookInv, BookTypeOK, Level, Linked
<1>5. ASSUME NEW m \in DOMAIN orders, orders[m].home = h
      PROVE  orders[m].side = side /\ ~Better(side, levels[h].price, orders[m].price)
  <2>1. orders[m].side = side /\ orders[m].price = levels[h].price
    BY <1>3, <1>5 DEF BookInv, Linked, Tidy, OwnPrice
  <2> QED BY <1>4, <2>1, BetterIsOrder
<1> QED BY <1>2, <1>3, <1>4, <1>5 DEF h

\* The operators of a copy are those of the book.
LEMMA SameOperators ==
    /\ \A f, x : M!Without(f, x) = Without(f, x)
    /\ \A f, x, v : M!With(f, x, v) = With(f, x, v)
    /\ \A s, x : M!IndexOf(s, x) = IndexOf(s, x)
    /\ \A s, i : M!RemoveAt(s, i) = RemoveAt(s, i)
    /\ \A s, i, x : M!InsertAt(s, i, x) = InsertAt(s, i, x)
    /\ \A side, x, y : M!Better(side, x, y) = Better(side, x, y)
    /\ \A price : M!PriceToIndex(price) = PriceToIndex(price)
BY Zenon DEF M!Without, Without, M!With, With, M!IndexOf, IndexOf, M!RemoveAt, RemoveAt,
             M!InsertAt, InsertAt, M!Better, Better, M!PriceToIndex, PriceToIndex

\* What the three changes of a copy make of its members.
Requoted(x, price, qty) == [x EXCEPT !.price = price, !.qty = qty]
Modified(o, m, price, qty) == [o EXCEPT ![m] = Requoted(@, price, qty)]
Shortened(l, h, m) == [l EXCEPT ![h].queue = RemoveAt(@, IndexOf(@, m))]
Lengthened(l, h, m) == [l EXCEPT ![h].queue = Append(@, m)]
LeftBy(r, side, h) == [r EXCEPT ![side] = RemoveAt(@, IndexOf(@, h))]
JoinedBy(r, side, n, h) == [r EXCEPT ![side] = InsertAt(@, n, h)]
SlotSet(p, price, h) == [p EXCEPT ![PriceToIndex(price)] = h]
NewLevel(m, side, price) == [side |-> side, price |-> price, queue |-> <<m>>]

\* MODIFY changes the orders alone.
LEMMA ModifyMembers ==
    ASSUME NEW o, NEW l, NEW r, NEW p, NEW q, NEW b, b = Members(o, l, r, p, q),
           NEW m \in DOMAIN o, NEW price, NEW qty
    PROVE  M!ModifyOrder(b, m, price, qty) = Members(Modified(o, m, price, qty), l, r, p, q)
<1> DEFINE g == [o EXCEPT ![m].price = price, ![m].qty = qty]
<1>1. b.orders = o
  BY DEF Members
<1>2. M!ModifyOrder(b, m, price, qty) = [b EXCEPT !.orders = g]
  BY <1>1 DEF M!ModifyOrder
<1> HIDE DEF g
<1>3. M!ModifyOrder(b, m, price, qty) = Members(g, l, r, p, q)
  BY <1>2 DEF Members
<1>4. g = Modified(o, m, price, qty)
  BY DEF g, Modified, Requoted
<1> QED BY <1>3, <1>4

\* CANCEL takes the order out, and its level with the last one.
LEMMA RemoveMembers ==
    ASSUME NEW o, NEW l, NEW r, NEW p, NEW q, NEW b, b = Members(o, l, r, p, q),
           NEW m \in DOMAIN o, NEW h, p[PriceToIndex(o[m].price)] = h, l[h].side = o[m].side
    PROVE  M!RemoveOrder(b, m) =
             IF Len(l[h].queue) = 1
             THEN Members(Without(o, m), Without(l, h), LeftBy(r, o[m].side, h),
                          SlotSet(p, o[m].price, 0), q)
             ELSE Members(Without(o, m), Shortened(l, h, m), r, p, q)
<1> DEFINE f == Without(o, m)
<1>1. b.orders = o /\ b.levels = l /\ b.rings = r /\ b.price_levels = p
  BY DEF Members
<1>2. M!GetPriceLevel(b, o[m].price) = h
  BY <1>1, SameOperators DEF M!GetPriceLevel
<1> DEFINE c == IF Len(l[h].queue) = 1
                THEN M!RemoveOrderAtPrice(b, h, o[m].side, o[m].price)
                ELSE [b EXCEPT !.levels[h].queue = M!RemoveAt(@, M!IndexOf(@, m))]
<1>3. M!RemoveOrder(b, m) = [c EXCEPT !.orders = M!Without(@, m)]
  BY <1>1, <1>2 DEF M!RemoveOrder
<1> HIDE DEF c
<1>4. CASE Len(l[h].queue) = 1
  <2> DEFINE k == Without(l, h)
             s == [r EXCEPT ![o[m].side] = RemoveAt(@, IndexOf(@, h))]
             t == [p EXCEPT ![PriceToIndex(o[m].price)] = 0]
             b1 == [b EXCEPT !.levels = k]
             b2 == [b1 EXCEPT !.rings = s]
             b3 == [b2 EXCEPT !.price_levels = t]
  <2>1. c = [b EXCEPT !.levels = M!Without(@, h),
                      !.rings[o[m].side] = M!RemoveAt(@, M!IndexOf(@, h)),
                      !.price_levels[M!PriceToIndex(o[m].price)] = 0]
    BY <1>1, <1>4 DEF c, M!RemoveOrderAtPrice
  <2>2. c = [b EXCEPT !.levels = k, !.rings = s, !.price_levels = t]
    BY <1>1, <2>1, SameOperators DEF Members
  <2> HIDE DEF k, s, t
  <2>3. c = Members(o, k, s, t, q)
    BY <2>2 DEF Members
  <2>4. M!RemoveOrder(b, m) = [c EXCEPT !.orders = f]
    BY <1>3, <2>3, SameOperators DEF Members
  <2> HIDE DEF f
  <2>5. M!RemoveOrder(b, m) = Members(f, k, s, t, q)
    BY <2>3, <2>4 DEF Members
  <2> QED BY <1>4, <2>5 DEF f, k, s, t, LeftBy, SlotSet
<1>5. CASE Len(l[h].queue) # 1
  <2> DEFINE k == [l EXCEPT ![h].queue = RemoveAt(@, IndexOf(@, m))]
  <2>1. c = [b EXCEPT !.levels[h].queue = M!RemoveAt(@, M!IndexOf(@, m))]
    BY <1>5 DEF c
  <2>2. c = [b EXCEPT !.levels = k]
    BY <1>1, <2>1, SameOperators DEF Members
  <2> HIDE DEF k
  <2>3. c = Members(o, k, r, p, q)
    BY <2>2 DEF Members
  <2>4. M!RemoveOrder(b, m) = [c EXCEPT !.orders = f]
    BY <1>3, <2>3, SameOperators DEF Members
  <2> HIDE DEF f
  <2>5. M!RemoveOrder(b, m) = Members(f, k, r, p, q)
    BY <2>3, <2>4 DEF Members
  <2> QED BY <1>5, <2>5 DEF f, k, Shortened
<1> QED BY <1>4, <1>5

\* ADD links the order behind those of its level, or into a new level.
LEMMA AddMembers ==
    ASSUME NEW o, NEW l, NEW r, NEW p, NEW q, NEW b, b = Members(o, l, r, p, q),
           NEW m, NEW v, ~(m >= MaxNumOrders),
           NEW h, p[PriceToIndex(v.price)] = h, h = 0 \/ h \in DOMAIN l
    PROVE  M!AddOrder(b, m, v) =
             IF h = 0
             THEN Members(With(o, m, v), With(l, m, NewLevel(m, v.side, v.price)),
                          JoinedBy(r, v.side, M!RingPosition(b, v.side, v.price), m),
                          SlotSet(p, v.price, m), q)
             ELSE Members(With(o, m, v), Lengthened(l, h, m), r, p, q)
<1> DEFINE f == With(o, m, v)
<1>1. b.orders = o /\ b.levels = l /\ b.rings = r /\ b.price_levels = p
  BY DEF Members
<1>2. M!GetPriceLevel(b, v.price) = h
  BY <1>1, SameOperators DEF M!GetPriceLevel
<1>4. CASE h = 0
  <2> DEFINE n == M!RingPosition(b, v.side, v.price)
             k == With(l, m, [side |-> v.side, price |-> v.price, queue |-> <<m>>])
             s == [r EXCEPT ![v.side] = InsertAt(@, n, m)]
             t == [p EXCEPT ![PriceToIndex(v.price)] = m]
  <2>1. M!AddOrder(b, m, v) =
          [b EXCEPT !.orders = M!With(@, m, v),
                    !.levels = M!With(@, m, [side |-> v.side, price |-> v.price,
                                             queue |-> <<m>>]),
                    !.price_levels[M!PriceToIndex(v.price)] = m,
                    !.rings[v.side] = M!InsertAt(@, n, m)]
    BY <1>1, <1>2, <1>4 DEF M!AddOrder
  <2> HIDE DEF n
  <2>2. M!AddOrder(b, m, v) = [b EXCEPT !.orders = f, !.levels = k, !.price_levels = t,
                                        !.rings = s]
    BY <1>1, <2>1, SameOperators DEF Members
  <2> HIDE DEF f, k, s, t
  <2>3. M!AddOrder(b, m, v) = Members(f, k, s, t, q)
    BY <2>2 DEF Members
  <2> QED BY <1>4, <2>3 DEF f, k, s, t, n, NewLevel, JoinedBy, SlotSet
<1>5. CASE h # 0
  <2> DEFINE k == [l EXCEPT ![h].queue = Append(@, m)]
  <2>1. M!AddOrder(b, m, v) = [b EXCEPT !.orders = M!With(@, m, v),
                                        !.levels[h].queue = M!Enqueue(@, m)]
    BY <1>1, <1>2, <1>5 DEF M!AddOrder
  <2>2. M!AddOrder(b, m, v) = [b EXCEPT !.orders = f, !.levels = k]
    BY <1>1, <2>1, SameOperators DEF Members, M!Enqueue
  <2> HIDE DEF f, k
  <2>3. M!AddOrder(b, m, v) = Members(f, k, r, p, q)
    BY <2>2 DEF Members
  <2> QED BY <1>5, <2>3 DEF f, k, Lengthened
<1> QED BY <1>4, <1>5

\* MODIFY of what a copy has of an order gives what it has of the modified order.
LEMMA ModifiedView ==
    ASSUME NEW v, NEW w, NEW n, w = [v EXCEPT !.qty = n], v \in Order
    PROVE  Requoted(View(v), v.price, n) = View(w)
<1>1. w.side = v.side /\ w.price = v.price /\ w.qty = n /\ w.priority = v.priority
  BY DEF Order
<1> DEFINE y == View(v)
           x == Requoted(y, v.price, n)
<1>2. y = [side |-> v.side, price |-> v.price, qty |-> v.qty, priority |-> v.priority]
  BY DEF View
<1> HIDE DEF y
<1>3. x = [y EXCEPT !.price = v.price, !.qty = n]
  BY DEF Requoted
<1> HIDE DEF x
<1>4. x = [side |-> v.side, price |-> v.price, qty |-> n, priority |-> v.priority]
  BY <1>2, <1>3
<1> QED BY <1>1, <1>4 DEF View, x, y

\* An order of the book changes its quantity, and so does the one of a copy.
LEMMA CopyModifies ==
    ASSUME BookInv, Tidy, NEW m \in DOMAIN orders, NEW n \in Nat,
           orders' = [orders EXCEPT ![m].qty = n],
           UNCHANGED <<levels, rings, price_levels>>,
           NEW b, Copies(b, orders, levels, rings, price_levels)
    PROVE  Copies(M!OnMarketUpdate(b, UpdateOf("MODIFY", m, n)),
                  orders', levels', rings', price_levels')
<1> DEFINE u == UpdateOf("MODIFY", m, n)
           f == Views(orders')
           o == Views(orders)
           e == Changed(b, u)
<1>1. /\ u.type = "MODIFY" /\ u.moid = m /\ u.qty = n
      /\ u.side = orders[m].side /\ u.price = orders[m].price
  BY DEF UpdateOf, Update
<1>2. /\ orders \in [DOMAIN orders -> Order]
      /\ DOMAIN orders' = DOMAIN orders /\ orders'[m] = [orders[m] EXCEPT !.qty = n]
      /\ \A k \in DOMAIN orders \ {m} : orders'[k] = orders[k]
  BY DEF BookInv, BookTypeOK
<1>3. /\ b = Members(o, levels, rings, price_levels, b.bbo) /\ b.orders = o
      /\ b.levels = levels /\ b.rings = rings
      /\ Holds(b, b.orders, b.levels, b.rings, b.price_levels)
  BY DEF Copies, Holds, Members
<1>4. /\ DOMAIN o = DOMAIN orders /\ DOMAIN f = DOMAIN orders
      /\ \A k \in DOMAIN orders : o[k] = View(orders[k]) /\ f[k] = View(orders'[k])
      /\ f = [k \in DOMAIN f |-> f[k]] /\ o = [k \in DOMAIN o |-> o[k]]
  BY <1>2 DEF Views
<1> HIDE DEF u, f, o, e
<1>5. f = Modified(o, m, orders[m].price, n)
  <2> DEFINE g == Modified(o, m, orders[m].price, n)
  <2>1. /\ DOMAIN g = DOMAIN orders /\ g = [k \in DOMAIN g |-> g[k]]
        /\ \A k \in DOMAIN orders \ {m} : g[k] = o[k]
        /\ g[m] = Requoted(o[m], orders[m].price, n)
    BY <1>4 DEF Modified
  <2> HIDE DEF g
  <2>2. g[m] = Requoted(View(orders[m]), orders[m].price, n)
    BY <1>4, <2>1
  <2>3. g[m] = View(orders'[m])
    BY <1>2, <2>2, ModifiedView
  <2>4. \A k \in DOMAIN orders : g[k] = f[k]
    BY <1>2, <1>4, <2>1, <2>3
  <2> QED BY <1>4, <2>1, <2>4 DEF g
<1>6. e = Members(f, levels, rings, price_levels, b.bbo)
  <2>1. e = M!ModifyOrder(b, m, orders[m].price, n)
    BY <1>1 DEF e, Changed
  <2> QED BY <1>3, <1>4, <1>5, <2>1, ModifyMembers
<1>7. ASSUME NEW side \in Sides, ~M!Touches(b, side, u), b.rings[side] # <<>>
      PROVE  M!Quote(e, side) = M!Quote(b, side)
  <2> DEFINE h == Head(rings[side])
  <2>1. /\ h = rings[side][1] /\ h \in DOMAIN levels /\ levels[h].side = side
        /\ ToSet(levels[h].queue) = {k \in DOMAIN orders : orders[k].home = h}
        /\ (orders[m].side # side \/ Better(side, levels[h].price, orders[m].price))
              => orders[m].home # h
    BY <1>3, <1>7, BestLevel
  <2>2. orders[m].side # side \/ Better(side, levels[h].price, orders[m].price)
    BY <1>1, <1>3, <1>7 DEF M!Touches, M!Better, Better
  <2> HIDE DEF h
  <2>3. \A k \in ToSet(levels[h].queue) : f[k].qty = b.orders[k].qty
    BY <1>2, <1>3, <1>4, <2>1, <2>2 DEF View
  <2>4. e.rings = rings /\ e.levels = levels /\ e.orders = f
    BY <1>6 DEF Members
  <2> QED BY <1>3, <1>7, <2>1, <2>3, <2>4, QuoteKept DEF h
<1>8. \A side \in Sides : QuoteStands(b, u, side)
  BY <1>7 DEF QuoteStands, e
<1>9. Holds(M!OnMarketUpdate(b, u), f, levels, rings, price_levels)
  BY <1>1, <1>3, <1>6, <1>8, QuotesUpdated DEF e
<1> QED BY <1>9 DEF Copies, f, u

\* The best level of a side stays, with the quantities of its orders.
BestKept(side, f, l, r) ==
    LET h == Head(rings[side])
    IN  /\ r[side] # <<>> /\ Head(r[side]) = h /\ l[h] = levels[h]
        /\ \A k \in DOMAIN orders :
             orders[k].home = h => k \in DOMAIN f /\ f[k].qty = orders[k].qty

\* Then so does the quote of this side of the copy.
LEMMA BestStands ==
    ASSUME BookInv, Tidy, NEW side \in Sides, rings[side] # <<>>,
           NEW b, Copies(b, orders, levels, rings, price_levels),
           NEW u, ~M!Touches(b, side, u),
           NEW f, NEW l, NEW r, NEW p, Changed(b, u) = Members(Views(f), l, r, p, b.bbo),
           BestKept(side, f, l, r)
    PROVE  QuoteStands(b, u, side)
<1> DEFINE h == Head(rings[side])
           e == Changed(b, u)
           o == Views(orders)
           g == Views(f)
<1>1. /\ b.orders = o /\ b.levels = levels /\ b.rings = rings
  BY DEF Copies, Holds, Members
<1>2. e.orders = g /\ e.levels = l /\ e.rings = r
  BY DEF Members
<1>3. ToSet(levels[h].queue) = {k \in DOMAIN orders : orders[k].home = h}
  BY BestLevel
<1> HIDE DEF h, e
<1>4. \A k \in ToSet(levels[h].queue) : g[k].qty = o[k].qty
  BY <1>3 DEF Views, View, BestKept, h
<1> HIDE DEF g, o
<1>5. /\ b.rings[side] # <<>> /\ e.rings[side] # <<>>
      /\ Head(b.rings[side]) = h /\ Head(e.rings[side]) = h /\ e.levels[h] = b.levels[h]
  BY <1>1, <1>2 DEF BestKept, h
<1>6. \A k \in ToSet(b.levels[h].queue) : e.orders[k].qty = b.orders[k].qty
  BY <1>1, <1>2, <1>4
<1>7. M!Quote(e, side) = M!Quote(b, side)
  BY <1>5, <1>6, QuoteKept
<1> QED BY <1>7 DEF QuoteStands, e

\* An order leaves the book, and so does the one of a copy.
LEMMA CopyRemoves ==
    ASSUME BookInv, Tidy, NEW m \in DOMAIN orders, RemoveOrder(m), NEW n,
           NEW b, Copies(b, orders, levels, rings, price_levels)
    PROVE  Copies(M!OnMarketUpdate(b, UpdateOf("CANCEL", m, n)),
                  orders', levels', rings', price_levels')
<1> DEFINE u == UpdateOf("CANCEL", m, n)
           o == Views(orders)
           e == Changed(b, u)
           h == orders[m].home
           s == orders[m].side
           price == orders[m].price
           q == levels[h].queue
<1>1. u.type = "CANCEL" /\ u.moid = m /\ u.side = s /\ u.price = price
  BY DEF UpdateOf, Update
<1>2. /\ orders[m] \in Order /\ h \in DOMAIN levels /\ levels[h].side = s /\ s \in Sides
      /\ levels[h].price = price /\ price_levels[PriceToIndex(price)] = h
  <2>1. orders[m] \in Order /\ h \in DOMAIN levels /\ levels[h].side = s
    BY OrderInLevel
  <2> QED BY <2>1 DEF Order, Tidy, OwnPrice, Found
<1>3. /\ b = Members(o, levels, rings, price_levels, b.bbo) /\ b.orders = o
      /\ b.levels = levels /\ b.rings = rings
      /\ Holds(b, b.orders, b.levels, b.rings, b.price_levels)
  BY DEF Copies, Holds, Members
<1>4. /\ DOMAIN orders' = DOMAIN orders \ {m}
      /\ \A k \in DOMAIN orders' : orders'[k] = orders[k]
      /\ orders' = Without(orders, m)
  BY DEF RemoveOrder, Without
<1>5. o[m].price = price /\ o[m].side = s /\ m \in DOMAIN o
  BY DEF Views, View
<1>6. Views(orders') = Without(o, m)
  BY <1>4 DEF Views, Without
<1>7. rings \in [Sides -> Seq(OrderNames)]
  BY DEF BookInv, BookTypeOK
<1> HIDE DEF u, o, e, h, s, price
<1>8. e = M!RemoveOrder(b, m)
  BY <1>1 DEF e, Changed
<1>9. e = IF Len(q) = 1
          THEN Members(Without(o, m), Without(levels, h), LeftBy(rings, s, h),
                       SlotSet(price_levels, price, 0), b.bbo)
          ELSE Members(Without(o, m), Shortened(levels, h, m), rings, price_levels, b.bbo)
  BY <1>2, <1>3, <1>5, <1>8, RemoveMembers
<1>10. \A side \in Sides : ~M!Touches(b, side, u) /\ rings[side] # <<>> =>
          /\ h # Head(rings[side]) /\ Head(rings[side]) = rings[side][1]
          /\ Head(rings[side]) \in DOMAIN levels
  <2> SUFFICES ASSUME NEW side \in Sides, ~M!Touches(b, side, u), rings[side] # <<>>
               PROVE  /\ h # Head(rings[side]) /\ Head(rings[side]) = rings[side][1]
                      /\ Head(rings[side]) \in DOMAIN levels
    OBVIOUS
  <2>1. s # side \/ Better(side, levels[Head(rings[side])].price, price)
    BY <1>1, <1>3 DEF M!Touches, M!Better, Better
  <2> QED BY <2>1, BestLevel DEF h, s, price
<1>11. e = Members(Views(orders'), levels', rings', price_levels', b.bbo)
       /\ \A side \in Sides : QuoteStands(b, u, side)
  <2>1. CASE Len(q) = 1
    <3> DEFINE i == IndexOf(rings[s], h)
               v == RemoveAt(rings[s], i)
    <3>1. /\ levels' = Without(levels, h)
          /\ rings' = [rings EXCEPT ![s] = Unlinked(s, h)]
          /\ price_levels' = SlotSet(price_levels, price, 0)
      BY <2>1 DEF RemoveOrder, h, s, price, SlotSet
    <3>2. i \in 1 .. Len(rings[s]) /\ Unlinked(s, h) = v
      BY <1>2, SortedUnlinked DEF Tidy
    <3>3. rings' = LeftBy(rings, s, h)
      BY <3>1, <3>2 DEF LeftBy
    <3>4. e = Members(Views(orders'), levels', rings', price_levels', b.bbo)
      BY <1>6, <1>9, <2>1, <3>1, <3>3
    <3>5. rings[s][i] = h
      <4>1. h \in ToSet(rings[s])
        BY <1>2 DEF BookInv, Linked
      <4>2. rings[s] \in Seq(OrderNames)
        BY <1>2, <1>7
      <4> QED BY <4>1, <4>2, IndexOfFinds
    <3> HIDE DEF i, v
    <3>6. rings'[s] = v /\ \A side \in Sides : side # s => rings'[side] = rings[side]
      BY <1>2, <1>7, <3>1, <3>2
    <3>7. ASSUME NEW side \in Sides, ~M!Touches(b, side, u), rings[side] # <<>>
          PROVE  rings'[side] # <<>> /\ Head(rings'[side]) = Head(rings[side])
      <4>1. CASE side # s
        BY <3>6, <3>7, <4>1
      <4>2. CASE side = s
        <5>1. i # 1 /\ rings[s] \in Seq(OrderNames)
          BY <1>2, <1>7, <1>10, <3>5, <3>7, <4>2
        <5>2. v \in Seq(OrderNames) /\ Len(v) = Len(rings[s]) - 1
              /\ \A k \in 1 .. Len(rings[s]) - 1 :
                   v[k] = IF k < i THEN rings[s][k] ELSE rings[s][k + 1]
          BY <3>2, <5>1, RemoveAtElements DEF v
        <5>3. v[1] = rings[s][1] /\ v # <<>>
          <6> DEFINE k == Len(rings[s])
          <6>1. k \in Nat /\ i \in 1 .. k /\ i # 1
            BY <3>2, <5>1
          <6> HIDE DEF k
          <6>2. 1 < i /\ 1 \in 1 .. k - 1 /\ k - 1 # 0
            BY <6>1
          <6>3. v[1] = rings[s][1] /\ Len(v) # 0
            BY <5>2, <6>2 DEF k
          <6> QED BY <6>3
        <5>4. Head(v) = v[1] /\ Head(rings[s]) = rings[s][1]
          BY <1>10, <3>7, <4>2, <5>2, <5>3
        <5> QED BY <3>6, <4>2, <5>3, <5>4
      <4> QED BY <4>1, <4>2
    <3>8. ASSUME NEW side \in Sides, ~M!Touches(b, side, u), rings[side] # <<>>
          PROVE  levels'[Head(rings[side])] = levels[Head(rings[side])]
      BY <1>10, <3>1, <3>8 DEF Without
    <3>9. ASSUME NEW side \in Sides, ~M!Touches(b, side, u), rings[side] # <<>>
          PROVE  QuoteStands(b, u, side)
      <4>1. \A k \in DOMAIN orders : orders[k].home = Head(rings[side]) =>
              k \in DOMAIN orders' /\ orders'[k].qty = orders[k].qty
        BY <1>4, <1>10, <3>9 DEF h
      <4>2. BestKept(side, orders', levels', rings')
        BY <3>7, <3>8, <3>9, <4>1 DEF BestKept
      <4> QED BY <3>4, <3>9, <4>2, BestStands DEF e
    <3> QED BY <1>3, <3>4, <3>9 DEF QuoteStands
  <2>2. CASE Len(q) # 1
    <3>1. levels' = Shortened(levels, h, m) /\ rings' = rings /\ price_levels' = price_levels
      BY <2>2 DEF RemoveOrder, h, Shortened
    <3>2. e = Members(Views(orders'), levels', rings', price_levels', b.bbo)
      BY <1>6, <1>9, <2>2, <3>1
    <3>3. ASSUME NEW side \in Sides, ~M!Touches(b, side, u), rings[side] # <<>>
          PROVE  levels'[Head(rings[side])] = levels[Head(rings[side])]
      BY <1>10, <3>1, <3>3 DEF Shortened
    <3>4. ASSUME NEW side \in Sides, ~M!Touches(b, side, u), rings[side] # <<>>
          PROVE  QuoteStands(b, u, side)
      <4>1. \A k \in DOMAIN orders : orders[k].home = Head(rings[side]) =>
              k \in DOMAIN orders' /\ orders'[k].qty = orders[k].qty
        BY <1>4, <1>10, <3>4 DEF h
      <4>2. BestKept(side, orders', levels', rings')
        BY <3>1, <3>3, <3>4, <4>1 DEF BestKept
      <4> QED BY <3>2, <3>4, <4>2, BestStands DEF e
    <3> QED BY <1>3, <3>2, <3>4 DEF QuoteStands
  <2> QED BY <2>1, <2>2
<1>12. Holds(M!OnMarketUpdate(b, u), Views(orders'), levels', rings', price_levels')
  BY <1>1, <1>3, <1>11, QuotesUpdated DEF e
<1> QED BY <1>12 DEF Copies, u

\* What is left of an order joins the book, and the copy.
LEMMA CopyAdds ==
    ASSUME BookInv, Unshared, Tidy, NEW m \in OrderNames,
           m \notin DOMAIN orders, m \notin DOMAIN levels,
           NEW o \in [client : Clients, oid : OrderIds, side : Sides,
                       price : Prices, qty : Nat, priority : Nat, home : {0}],
           \A l \in DOMAIN levels : levels[l].side = Opposite(o.side) =>
              Better(Opposite(o.side), o.price, levels[l].price),
           AddOrder(m, o), m < MaxNumOrders,
           NEW b, Copies(b, orders, levels, rings, price_levels)
    PROVE  Copies(M!OnMarketUpdate(b, Update("ADD", m, o.side, o.price, o.qty, o.priority)),
                  orders', levels', rings', price_levels')
<1> DEFINE u == Update("ADD", m, o.side, o.price, o.qty, o.priority)
           e == Changed(b, u)
           f == Views(orders)
           v == View(o)
           s == o.side
           l == GetPriceLevel(s, o.price)
           x == PriceToIndex(o.price)
           n == RingPosition(s, o.price)
           oo == [o EXCEPT !.home = IF l = 0 THEN m ELSE l]
<1>0. s \in Sides /\ o.price \in Prices /\ x \in Slots
  BY IndexIsSlot
<1>1. /\ u.type = "ADD" /\ u.moid = m /\ u.side = s /\ u.price = o.price
      /\ u.qty = o.qty /\ u.priority = o.priority
  BY DEF Update
<1>2. /\ l # 0 => l \in DOMAIN levels /\ levels[l].side = s /\ levels[l].price = o.price
      /\ l = 0 => \A k \in DOMAIN levels :
                     PriceToIndex(levels[k].price) # x /\ levels[k].price # o.price
  BY <1>0, LevelAtPrice
<1>3. price_levels[x] = l
  <2>1. CASE l # 0
    BY <2>1 DEF GetPriceLevel
  <2>2. CASE l = 0
    <3>1. price_levels[x] # 0 => /\ price_levels[x] \in DOMAIN levels
                                 /\ PriceToIndex(levels[price_levels[x]].price) = x
      BY <1>0 DEF BookInv, SlotsSound
    <3> QED BY <1>2, <2>2, <3>1
  <2> QED BY <2>1, <2>2
<1>4. /\ b = Members(f, levels, rings, price_levels, b.bbo) /\ b.orders = f
      /\ b.levels = levels /\ b.rings = rings
      /\ Holds(b, b.orders, b.levels, b.rings, b.price_levels)
  BY DEF Copies, Holds, Members
<1>5. v = [side |-> s, price |-> o.price, qty |-> o.qty, priority |-> o.priority]
      /\ View(oo) = v
  BY DEF View
<1>6. orders' = With(orders, m, oo)
  BY DEF AddOrder
<1> HIDE DEF oo
<1>7. Views(orders') = With(f, m, v)
  BY <1>5, <1>6 DEF Views, With
<1>8. \A k \in DOMAIN orders : k \in DOMAIN orders' /\ orders'[k] = orders[k]
  BY <1>6 DEF With
<1>9. M!RingPosition(b, s, o.price) = n
  <2> DEFINE r == rings[s]
             k == Len(r)
             compared == IF k <= 2 THEN 1 .. k ELSE 1 .. k - 1
             worse == {i \in compared : Better(s, o.price, levels[r[i]].price)}
             theirs == {i \in compared : M!Better(s, o.price, levels[r[i]].price)}
  <2>1. worse = theirs
    BY SameOperators
  <2>2. n = IF worse = {} THEN k + 1 ELSE CHOOSE i \in worse : \A j \in worse : i <= j
    BY DEF RingPosition
  <2>3. M!RingPosition(b, s, o.price)
          = IF theirs = {} THEN k + 1 ELSE CHOOSE i \in theirs : \A j \in theirs : i <= j
    BY <1>4 DEF M!RingPosition
  <2> HIDE DEF worse, theirs, n
  <2> QED BY <2>1, <2>2, <2>3
<1>10. rings \in [Sides -> Seq(OrderNames)] /\ n \in 1 .. Len(rings[s]) + 1
  BY <1>0, RingPositionInRange DEF BookInv, BookTypeOK
<1> HIDE DEF u, e, f, v, l, x, n
<1>11. e = M!AddOrder(b, m, v)
  BY <1>1, <1>5 DEF e, Changed
<1>12. e = IF l = 0
           THEN Members(With(f, m, v), With(levels, m, NewLevel(m, s, o.price)),
                        JoinedBy(rings, s, n, m), SlotSet(price_levels, o.price, m), b.bbo)
           ELSE Members(With(f, m, v), Lengthened(levels, l, m), rings, price_levels, b.bbo)
  <2>1. v.side = s /\ v.price = o.price
    BY <1>5
  <2>2. ~(m >= MaxNumOrders)
    <3>1. m \in Int /\ MaxNumOrders \in Int
      BY NamesPositive, ConstantsAssumption
    <3> QED BY <3>1
  <2>3. price_levels[PriceToIndex(v.price)] = l
    BY <1>3, <2>1 DEF x
  <2>4. l = 0 \/ l \in DOMAIN levels
    BY <1>2
  <2>5. M!RingPosition(b, v.side, v.price) = n
    BY <1>9, <2>1
  <2>6. M!AddOrder(b, m, v) =
          IF l = 0
          THEN Members(With(f, m, v), With(levels, m, NewLevel(m, v.side, v.price)),
                       JoinedBy(rings, v.side, M!RingPosition(b, v.side, v.price), m),
                       SlotSet(price_levels, v.price, m), b.bbo)
          ELSE Members(With(f, m, v), Lengthened(levels, l, m), rings, price_levels, b.bbo)
    BY <1>4, <2>2, <2>3, <2>4, AddMembers
  <2> QED BY <1>11, <2>1, <2>5, <2>6
<1>13. \A side \in Sides : ~M!Touches(b, side, u) /\ rings[side] # <<>> =>
          LET h == Head(rings[side])
          IN  /\ h = rings[side][1] /\ h \in DOMAIN levels /\ levels[h].side = side
              /\ side = s => Better(s, levels[h].price, o.price) /\ levels[h].price # o.price
                             /\ ~Better(s, o.price, levels[h].price)
  <2> SUFFICES ASSUME NEW side \in Sides, ~M!Touches(b, side, u), rings[side] # <<>>
               PROVE  LET h == Head(rings[side])
                      IN  /\ h = rings[side][1] /\ h \in DOMAIN levels /\ levels[h].side = side
                          /\ side = s => /\ Better(s, levels[h].price, o.price)
                                         /\ levels[h].price # o.price
                                         /\ ~Better(s, o.price, levels[h].price)
    OBVIOUS
  <2> DEFINE h == Head(rings[side])
  <2>1. /\ h = rings[side][1] /\ h \in DOMAIN levels /\ levels[h].side = side
        /\ levels[h].price \in Prices
    BY BestLevel
  <2>2. side = s => Better(s, levels[h].price, o.price)
    BY <1>1, <1>4 DEF M!Touches, M!Better, Better
  <2> HIDE DEF h
  <2>3. side = s => levels[h].price # o.price /\ ~Better(s, o.price, levels[h].price)
    BY <1>0, <2>1, <2>2, BetterIsOrder
  <2> QED BY <2>1, <2>2, <2>3 DEF h
<1>14. e = Members(Views(orders'), levels', rings', price_levels', b.bbo)
       /\ \A side \in Sides : ~M!Touches(b, side, u) /\ rings[side] # <<>> =>
             BestKept(side, orders', levels', rings')
  <2>1. CASE l = 0
    <3> DEFINE t == InsertAt(rings[s], n, m)
    <3>1. /\ levels' = With(levels, m, NewLevel(m, s, o.price))
          /\ rings' = [rings EXCEPT ![s] = t]
          /\ price_levels' = SlotSet(price_levels, o.price, m)
      BY <2>1 DEF AddOrder, SlotSet, NewLevel, l, n
    <3>2. rings' = JoinedBy(rings, s, n, m)
      BY <3>1 DEF JoinedBy
    <3>3. e = Members(Views(orders'), levels', rings', price_levels', b.bbo)
      BY <1>7, <1>12, <2>1, <3>1, <3>2
    <3> HIDE DEF t
    <3>4. rings'[s] = t /\ \A side \in Sides : side # s => rings'[side] = rings[side]
      BY <1>0, <1>10, <3>1
    <3>5. ASSUME NEW side \in Sides, ~M!Touches(b, side, u), rings[side] # <<>>
          PROVE  rings'[side] # <<>> /\ Head(rings'[side]) = Head(rings[side])
      <4>1. CASE side # s
        BY <3>4, <3>5, <4>1
      <4>2. CASE side = s
        <5> DEFINE r == rings[s]
        <5>1. r \in Seq(OrderNames) /\ r # <<>> /\ ~Better(s, o.price, levels[r[1]].price)
          BY <1>0, <1>10, <1>13, <3>5, <4>2
        <5>2. n # 1
          <6> DEFINE k == Len(r)
                     worse == {i \in IF k <= 2 THEN 1 .. k ELSE 1 .. k - 1 :
                                 Better(s, o.price, levels[r[i]].price)}
          <6>1. n = IF worse = {} THEN k + 1
                    ELSE CHOOSE i \in worse : \A j \in worse : i <= j
            BY DEF n, RingPosition
          <6>2. k \in Nat \ {0} /\ 1 \notin worse /\ worse \subseteq Nat
            BY <5>1
          <6> HIDE DEF k, worse
          <6>3. CASE worse = {}
            BY <6>1, <6>2, <6>3
          <6>4. CASE worse # {}
            <7>1. \E i \in worse : \A j \in worse : i <= j
              BY <6>2, <6>4, LeastElement
            <7>2. n \in worse
              BY <6>1, <6>4, <7>1
            <7> QED BY <6>2, <7>2
          <6> QED BY <6>3, <6>4
        <5>3. Inserted(t, OrderNames, r, n, m)
          BY <1>10, <5>1, InsertAtElements DEF t
        <5> HIDE DEF r
        <5>4. t \in Seq(OrderNames) /\ t # <<>> /\ t[1] = r[1]
          <6>1. /\ t \in Seq(OrderNames) /\ Len(t) = Len(r) + 1 /\ Len(r) \in Nat \ {0}
                /\ \A k \in 1 .. Len(r) + 1 :
                     t[k] = IF k < n THEN r[k] ELSE IF k = n THEN m ELSE r[k - 1]
            BY <5>1, <5>3 DEF Inserted
          <6>2. 1 < n /\ 1 \in 1 .. Len(r) + 1
            BY <1>10, <5>2, <6>1 DEF r
          <6> QED BY <6>1, <6>2
        <5>5. Head(t) = t[1] /\ Head(r) = r[1]
          BY <5>1, <5>4
        <5> QED BY <3>4, <4>2, <5>4, <5>5 DEF r
      <4> QED BY <4>1, <4>2
    <3>6. ASSUME NEW side \in Sides, ~M!Touches(b, side, u), rings[side] # <<>>
          PROVE  BestKept(side, orders', levels', rings')
      <4>1. levels'[Head(rings[side])] = levels[Head(rings[side])]
        BY <1>13, <3>1, <3>6 DEF With
      <4> QED BY <1>8, <3>5, <3>6, <4>1 DEF BestKept
    <3> QED BY <3>3, <3>6
  <2>2. CASE l # 0
    <3>1. levels' = Lengthened(levels, l, m) /\ rings' = rings /\ price_levels' = price_levels
      BY <2>2 DEF AddOrder, l, Lengthened, Enqueue
    <3>2. e = Members(Views(orders'), levels', rings', price_levels', b.bbo)
      BY <1>7, <1>12, <2>2, <3>1
    <3>3. ASSUME NEW side \in Sides, ~M!Touches(b, side, u), rings[side] # <<>>
          PROVE  BestKept(side, orders', levels', rings')
      <4>1. Head(rings[side]) \in DOMAIN levels /\ Head(rings[side]) # l
        BY <1>2, <1>13, <2>2, <3>3
      <4>2. levels'[Head(rings[side])] = levels[Head(rings[side])]
        BY <3>1, <4>1 DEF Lengthened
      <4> QED BY <1>8, <3>1, <3>3, <4>2 DEF BestKept
    <3> QED BY <3>2, <3>3
  <2> QED BY <2>1, <2>2
<1>15. ASSUME NEW side \in Sides PROVE QuoteStands(b, u, side)
  <2>1. CASE M!Touches(b, side, u) \/ rings[side] = <<>>
    BY <1>4, <2>1 DEF QuoteStands
  <2>2. CASE ~M!Touches(b, side, u) /\ rings[side] # <<>>
    BY <1>14, <2>2, BestStands DEF e
  <2> QED BY <2>1, <2>2
<1>16. Holds(M!OnMarketUpdate(b, u), Views(orders'), levels', rings', price_levels')
  BY <1>1, <1>4, <1>14, <1>15, QuotesUpdated DEF e
<1> QED BY <1>16 DEF Copies, u

-----------------------------------------------------------------------------
\* A client that follows the book.

\* The step tells of u, after a trade or alone.
Carries(u) == updates' = <<u>> \/ \E t : t.type = "TRADE" /\ updates' = <<t, u>>

\* What a step does to the book is what it tells the market.
LEMMA StepUpdates ==
    ASSUME IInv, Next
    PROVE  \/ updates' = <<>> /\ UNCHANGED book
           \/ \E m \in DOMAIN orders, n \in Nat :
                RemoveOrder(m) /\ Carries(UpdateOf("CANCEL", m, n))
           \/ \E m \in DOMAIN orders, n \in Nat :
                /\ orders' = [orders EXCEPT ![m].qty = n]
                /\ UNCHANGED <<levels, rings, price_levels>>
                /\ Carries(UpdateOf("MODIFY", m, n))
           \/ Finish
<1> DEFINE Nothing == updates' = <<>> /\ UNCHANGED book
           Removed == \E m \in DOMAIN orders, n \in Nat :
                        RemoveOrder(m) /\ Carries(UpdateOf("CANCEL", m, n))
           Resized == \E m \in DOMAIN orders, n \in Nat :
                        /\ orders' = [orders EXCEPT ![m].qty = n]
                        /\ UNCHANGED <<levels, rings, price_levels>>
                        /\ Carries(UpdateOf("MODIFY", m, n))
           Sent == Nothing \/ Removed \/ Resized
<1> SUFFICES Finish \/ Sent
  OBVIOUS
<1>0. \A u : updates' = <<u>> => Carries(u)
  BY DEF Carries
<1>1. ASSUME NEW c \in Clients, NEW oid \in OrderIds, Cancel(c, oid)
      PROVE  Sent
  <2> DEFINE m == client_orders[c][oid]
  <2>1. \/ Nothing
        \/ m # 0 /\ RemoveOrder(m) /\ updates' = <<UpdateOf("CANCEL", m, 0)>>
    BY <1>1 DEF Cancel, Fault
  <2>2. m # 0 => m \in DOMAIN orders
    BY EntryLive
  <2> HIDE DEF m, Nothing
  <2>3. ASSUME m # 0, RemoveOrder(m), updates' = <<UpdateOf("CANCEL", m, 0)>>
        PROVE  Removed
    BY <1>0, <2>2, <2>3
  <2> QED BY <2>1, <2>3
<1>2. ASSUME NEW c \in Clients, NEW oid \in OrderIds, NEW price \in Prices,
             NEW qty \in Quantities, Modify(c, oid, price, qty)
      PROVE  Sent
  <2>1. qty \in Nat
    BY ConstantsAssumption
  <2> DEFINE m == client_orders[c][oid]
  <2>2. \/ Nothing
        \/ m # 0 /\ RemoveOrder(m) /\ updates' = <<UpdateOf("CANCEL", m, 0)>>
        \/ /\ m # 0 /\ orders' = [orders EXCEPT ![m].qty = qty]
           /\ UNCHANGED <<levels, rings, price_levels>>
           /\ updates' = <<UpdateOf("MODIFY", m, qty)>>
    BY <1>2 DEF Modify, Fault
  <2>3. m # 0 => m \in DOMAIN orders
    BY EntryLive
  <2> HIDE DEF m, Nothing
  <2>4. ASSUME m # 0, RemoveOrder(m), updates' = <<UpdateOf("CANCEL", m, 0)>>
        PROVE  Removed
    BY <1>0, <2>3, <2>4
  <2>5. ASSUME m # 0, orders' = [orders EXCEPT ![m].qty = qty],
               UNCHANGED <<levels, rings, price_levels>>,
               updates' = <<UpdateOf("MODIFY", m, qty)>>
        PROVE  Resized
    BY <1>0, <2>1, <2>3, <2>5
  <2> QED BY <2>2, <2>4, <2>5
<1>3. ASSUME NEW c \in Clients, NEW oid \in OrderIds, NEW price \in Prices,
             NEW qty \in Quantities, NEW side \in Sides, Add(c, oid, side, price, qty)
      PROVE  Sent
  BY <1>3 DEF Add
<1>4. CASE Match
  <2> DEFINE a == aggressor
             m == BestOpposite
             o == orders[m]
             matched == MatchedQty(a.leaves, o.qty)
             left == o.qty - matched
             trade == Update("TRADE", INVALID, a.side, o.price, matched, INVALID)
  <2>1. m \in DOMAIN orders /\ a \in Aggressor
    BY <1>4, BestOppositeOldest, ActiveAggressor DEF Match, CanMatch, IInv
  <2>2. \/ /\ orders' = [orders EXCEPT ![m].qty = left]
           /\ UNCHANGED <<levels, rings, price_levels>>
           /\ updates' = <<trade, UpdateOf("MODIFY", m, left)>>
        \/ RemoveOrder(m) /\ updates' = <<trade, UpdateOf("CANCEL", m, o.qty)>>
        \/ Nothing
    BY <1>4 DEF Match, Fault
  <2>3. a.leaves \in Nat /\ o.qty \in Nat
    BY <2>1 DEF Aggressor, IInv, BookInv, BookTypeOK, Order
  <2>4. left \in Nat
    BY <2>3 DEF MatchedQty
  <2>5. trade.type = "TRADE"
    BY DEF Update
  <2> HIDE DEF m, o, left, trade, Nothing
  <2>6. ASSUME RemoveOrder(m), updates' = <<trade, UpdateOf("CANCEL", m, o.qty)>>
        PROVE  Removed
    <3>1. Carries(UpdateOf("CANCEL", m, o.qty))
      BY <2>5, <2>6 DEF Carries
    <3> QED BY <2>1, <2>3, <2>6, <3>1
  <2>7. ASSUME orders' = [orders EXCEPT ![m].qty = left],
               UNCHANGED <<levels, rings, price_levels>>,
               updates' = <<trade, UpdateOf("MODIFY", m, left)>>
        PROVE  Resized
    <3>1. Carries(UpdateOf("MODIFY", m, left))
      BY <2>5, <2>7 DEF Carries
    <3> QED BY <2>1, <2>4, <2>7, <3>1
  <2>8. Sent
    <3> HIDE DEF Removed, Resized
    <3> QED BY <2>2, <2>6, <2>7
  <2> QED BY <2>8
<1> HIDE DEF Sent, Removed, Resized, Nothing
<1>5. CASE Request
  <2> PICK c \in Clients, oid \in OrderIds :
        \/ Cancel(c, oid)
        \/ \E price \in Prices, qty \in Quantities :
              \/ Modify(c, oid, price, qty)
              \/ \E side \in Sides : Add(c, oid, side, price, qty)
    BY <1>5 DEF Request
  <2> QED BY <1>1, <1>2, <1>3
<1> QED BY <1>4, <1>5 DEF Next

\* The update that a step carries is what it does to a copy.
LEMMA CarriesOne ==
    ASSUME NEW u, Carries(u), NEW b
    PROVE  FoldLeft(M!OnMarketUpdate, b, updates') = M!OnMarketUpdate(b, u)
<1>1. CASE updates' = <<u>>
  BY <1>1, UpdatesApplied, Zenon
<1>2. CASE \E t : t.type = "TRADE" /\ updates' = <<t, u>>
  <2> PICK t : t.type = "TRADE" /\ updates' = <<t, u>>
    BY <1>2
  <2> QED BY UpdatesApplied, Zenon
<1> QED BY <1>1, <1>2 DEF Carries

\* A copy of a tidy book stays one, or meets an order beyond its table.
LEMMA CopyStep ==
    ASSUME IInv, Unshared, Tidy, Next,
           NEW b, Copies(b, orders, levels, rings, price_levels)
    PROVE  LET c == FoldLeft(M!OnMarketUpdate, b, updates')
           IN  \/ Copies(c, orders', levels', rings', price_levels')
               \/ c.failed = TRUE /\ next_market_order_id' > MaxNumOrders
<1> DEFINE c == FoldLeft(M!OnMarketUpdate, b, updates')
<1> SUFFICES \/ Copies(c, orders', levels', rings', price_levels')
             \/ c.failed = TRUE /\ next_market_order_id' > MaxNumOrders
  OBVIOUS
<1>0. BookInv
  BY DEF IInv
<1>1. ASSUME updates' = <<>>, UNCHANGED book
      PROVE  Copies(c, orders', levels', rings', price_levels')
  <2>1. c = b
    BY <1>1, UpdatesApplied, Zenon
  <2> QED BY <1>1, <2>1 DEF book
<1>2. ASSUME NEW m \in DOMAIN orders, NEW n \in Nat, RemoveOrder(m),
             Carries(UpdateOf("CANCEL", m, n))
      PROVE  Copies(c, orders', levels', rings', price_levels')
  <2>1. c = M!OnMarketUpdate(b, UpdateOf("CANCEL", m, n))
    BY <1>2, CarriesOne
  <2> QED BY <1>0, <1>2, <2>1, CopyRemoves
<1>3. ASSUME NEW m \in DOMAIN orders, NEW n \in Nat,
             orders' = [orders EXCEPT ![m].qty = n],
             UNCHANGED <<levels, rings, price_levels>>, Carries(UpdateOf("MODIFY", m, n))
      PROVE  Copies(c, orders', levels', rings', price_levels')
  <2>1. c = M!OnMarketUpdate(b, UpdateOf("MODIFY", m, n))
    BY <1>3, CarriesOne
  <2> QED BY <1>0, <1>3, <2>1, CopyModifies
<1>4. CASE Finish
  <2> DEFINE a == aggressor
             priority == GetOrderPriorityAtPriceLevel(a.side, a.price)
             new == [client |-> a.client, oid |-> a.oid, side |-> a.side,
                     price |-> a.price, qty |-> a.leaves, priority |-> priority,
                     home |-> 0]
             u == Update("ADD", a.moid, a.side, a.price, a.leaves, priority)
  <2>1. \/ updates' = <<>> /\ UNCHANGED book
        \/ /\ a.leaves > 0 /\ AddOrder(a.moid, new) /\ updates' = <<u>>
           /\ next_market_order_id' = next_market_order_id
    BY <1>4 DEF Finish, Fault
  <2>2. a \in Aggressor /\ a.active /\ ~CanMatch
    BY <1>4, ActiveAggressor DEF Finish, IInv
  <2>3. CASE /\ a.leaves > 0 /\ AddOrder(a.moid, new) /\ updates' = <<u>>
             /\ next_market_order_id' = next_market_order_id
    <3>1. priority \in Nat
      BY <2>2, PriorityIsNat DEF Aggressor
    <3> HIDE DEF priority
    <3>2. /\ new \in [client : Clients, oid : OrderIds, side : Sides,
                       price : Prices, qty : Nat, priority : Nat, home : {0}]
          /\ a.moid \in OrderNames /\ new.side = a.side /\ new.price = a.price
          /\ u = Update("ADD", a.moid, new.side, new.price, new.qty, new.priority)
      BY <2>2, <3>1 DEF Aggressor
    <3>3. u.type = "ADD" /\ u.moid = a.moid
      BY DEF Update
    <3> HIDE DEF new, u
    <3>4. a.moid \notin DOMAIN orders /\ a.moid \notin DOMAIN levels
          /\ a.moid \in Nat /\ a.moid < next_market_order_id /\ next_market_order_id \in Int
      <4>1. a.moid \in Nat
        BY <3>2, NamesPositive
      <4> QED BY <2>2, <4>1, ConstantsAssumption DEF IInv, Fresh, TypeOK
    <3>5. \A l \in DOMAIN levels : levels[l].side = Opposite(new.side) =>
            Better(Opposite(new.side), new.price, levels[l].price)
      BY <2>2, <2>3, <3>2, NoOpposite
    <3>6. Carries(u)
      BY <2>3 DEF Carries
    <3>7. c = M!OnMarketUpdate(b, u)
      BY <3>6, CarriesOne
    <3> HIDE DEF a, c
    <3>8. CASE a.moid < MaxNumOrders
      <4> DEFINE w == Update("ADD", a.moid, new.side, new.price, new.qty, new.priority)
      <4>1. Copies(M!OnMarketUpdate(b, w), orders', levels', rings', price_levels')
        BY <1>0, <2>3, <3>2, <3>4, <3>5, <3>8, CopyAdds
      <4> QED BY <3>2, <3>7, <4>1
    <3>9. CASE ~(a.moid < MaxNumOrders)
      <4>1. MaxNumOrders \in Nat
        BY ConstantsAssumption
      <4>2. a.moid >= MaxNumOrders /\ next_market_order_id' > MaxNumOrders
        BY <2>3, <3>4, <3>9, <4>1
      <4>3. b.failed = FALSE /\ b = Members(b.orders, b.levels, b.rings, b.price_levels, b.bbo)
        BY DEF Copies, Holds, Members
      <4>4. \A o : M!AddOrder(b, a.moid, o) = M!Failed(b)
        BY <4>2 DEF M!AddOrder
      <4>5. M!Failed(b).failed = TRUE
        BY <4>3 DEF M!Failed, Members
      <4>6. c = M!Failed(b)
        BY <3>3, <3>7, <4>3, <4>4, <4>5 DEF M!OnMarketUpdate
      <4> QED BY <4>2, <4>5, <4>6
    <3> QED BY <3>8, <3>9
  <2> QED BY <1>1, <2>1, <2>3
<1> HIDE DEF c
<1> QED BY <1>1, <1>2, <1>3, <1>4, StepUpdates

\* The inductive invariant for a client, beside that of the book: until its first
\* recovery its copy fails only where the market order ids are used up, its best bid
\* and offer fit, and while it gets the updates it is a copy of the book.
Follows ==
    /\ recoveries \in Nat
    /\ recoveries = 0 =>
         /\ client.failed => next_market_order_id > MaxNumOrders
         /\ ~client.failed => BboFits(client)
         /\ synced /\ ~client.failed => Copies(client, orders, levels, rings, price_levels)

\* Both books are empty at the start.
LEMMA FollowsInit == CBInit => Follows
<1> SUFFICES ASSUME CBInit PROVE Follows
  OBVIOUS
<1>1. /\ orders = <<>> /\ levels = <<>> /\ rings = [side \in Sides |-> <<>>]
      /\ price_levels = [i \in Slots |-> 0]
      /\ client = M!NewBook /\ recoveries = 0
  BY DEF CBInit, Init
<1>2. M!Sides = Sides
  BY DEF M!Sides, Sides
<1>3. client = Members(<<>>, levels, rings, price_levels, client.bbo)
      /\ client.bbo = [side \in Sides |-> M!NoQuote] /\ client.failed = FALSE
  BY <1>1, <1>2 DEF M!NewBook, Members, Slots
<1>4. Views(orders) = <<>>
  BY <1>1 DEF Views
<1>5. BboFits(client)
  BY <1>3 DEF BboFits
<1> QED BY <1>1, <1>3, <1>4, <1>5 DEF Follows, Copies, Holds

\* Market order ids are handed out upwards.
LEMMA NamesGrow ==
    ASSUME IInv, Next
    PROVE  next_market_order_id' >= next_market_order_id /\ next_market_order_id \in Int
<1>1. next_market_order_id \in Int
  BY ConstantsAssumption DEF IInv, TypeOK
<1>2. ASSUME NEW c \in Clients, NEW oid \in OrderIds, Cancel(c, oid)
      PROVE  next_market_order_id' = next_market_order_id
  BY <1>2 DEF Cancel, Fault
<1>3. ASSUME NEW c \in Clients, NEW oid \in OrderIds, NEW price \in Prices,
             NEW qty \in Quantities, Modify(c, oid, price, qty)
      PROVE  next_market_order_id' \in {next_market_order_id, next_market_order_id + 1}
  BY <1>3 DEF Modify, BeginAdd, Fault
<1>4. ASSUME NEW c \in Clients, NEW oid \in OrderIds, NEW price \in Prices,
             NEW qty \in Quantities, NEW side \in Sides, Add(c, oid, side, price, qty)
      PROVE  next_market_order_id' = next_market_order_id + 1
  BY <1>4 DEF Add, BeginAdd
<1>5. CASE Match \/ Finish
  <2>1. next_market_order_id' = next_market_order_id
    BY <1>5 DEF Match, Finish, Fault
  <2> QED BY <1>1, <2>1
<1>6. CASE Request
  <2> PICK c \in Clients, oid \in OrderIds :
        \/ Cancel(c, oid)
        \/ \E price \in Prices, qty \in Quantities :
              \/ Modify(c, oid, price, qty)
              \/ \E side \in Sides : Add(c, oid, side, price, qty)
    BY <1>6 DEF Request
  <2>1. next_market_order_id' \in {next_market_order_id, next_market_order_id + 1}
    BY <1>2, <1>3, <1>4
  <2> QED BY <1>1, <2>1
<1> QED BY <1>5, <1>6 DEF Next

\* A failed copy is not changed any more.
LEMMA FailedStays ==
    ASSUME IInv, Next, NEW b, b.failed
    PROVE  FoldLeft(M!OnMarketUpdate, b, updates') = b
<1>1. \A u : M!OnMarketUpdate(b, u) = b
  BY DEF M!OnMarketUpdate
<1>2. ASSUME NEW u, Carries(u) PROVE FoldLeft(M!OnMarketUpdate, b, updates') = b
  BY <1>1, <1>2, CarriesOne
<1>3. CASE updates' = <<>>
  BY <1>3, UpdatesApplied, Zenon
<1>4. CASE Finish
  <2>1. updates' = <<>> \/ \E u : updates' = <<u>>
    BY <1>4 DEF Finish, Fault
  <2> QED BY <1>2, <1>3, <2>1 DEF Carries
<1> QED BY <1>2, <1>3, <1>4, StepUpdates

\* Every step keeps it.
LEMMA FollowsNext ==
    ASSUME IInv, Unshared, Tidy, Follows, [CBNext]_cbvars
    PROVE  Follows'
<1>1. CASE UNCHANGED cbvars
  BY <1>1 DEF cbvars, vars, book, Follows, Copies, Holds, Members, BboFits, Views
<1>2. CASE Gap
  BY <1>2 DEF Gap, vars, book, Follows, BboFits
<1>3. CASE Recover
  BY <1>3 DEF Recover, Follows
<1>4. CASE Trade
  <2>1. /\ Next /\ recoveries' = recoveries /\ synced' = synced
        /\ next_market_order_id' >= next_market_order_id /\ next_market_order_id \in Int
        /\ next_market_order_id' \in Int /\ MaxNumOrders \in Nat
    <3>1. IInv'
      BY <1>4, NextInv DEF Trade
    <3> QED BY <1>4, <3>1, NamesGrow, ConstantsAssumption DEF Trade, IInv, TypeOK
  <2> SUFFICES ASSUME recoveries = 0
               PROVE  /\ client'.failed => next_market_order_id' > MaxNumOrders
                      /\ ~client'.failed => BboFits(client')
                      /\ synced' /\ ~client'.failed =>
                           Copies(client', orders', levels', rings', price_levels')
    BY <2>1 DEF Follows, BboFits
  <2>2. CASE ~synced
    <3>1. client' = client
      BY <1>4, <2>2 DEF Trade
    <3> QED BY <2>1, <2>2, <3>1 DEF Follows
  <2>3. CASE synced /\ client.failed
    <3>1. client' = client
      BY <1>4, <2>1, <2>3, FailedStays DEF Trade
    <3> QED BY <2>1, <2>3, <3>1 DEF Follows
  <2>4. CASE synced /\ ~client.failed
    <3>1. Copies(client, orders, levels, rings, price_levels)
      BY <2>4 DEF Follows
    <3>2. client' = FoldLeft(M!OnMarketUpdate, client, updates')
      BY <1>4, <2>4 DEF Trade
    <3>3. \/ Copies(client', orders', levels', rings', price_levels')
          \/ client'.failed = TRUE /\ next_market_order_id' > MaxNumOrders
      BY <2>1, <3>1, <3>2, CopyStep
    <3>4. ASSUME Copies(client', orders', levels', rings', price_levels')
          PROVE  client'.failed = FALSE /\ BboFits(client')
      BY <3>4 DEF Copies, Holds, Members
    <3> QED BY <3>3, <3>4
  <2> QED BY <2>2, <2>3, <2>4
<1> QED BY <1>1, <1>2, <1>3, <1>4 DEF CBNext

-----------------------------------------------------------------------------
\* The theorems, with the assumptions under which the book stays tidy.

\* The client follows the book.
THEOREM ClientFollows ==
    ASSUME Unshared
    PROVE  CBSpec /\ []FewLevels => []Follows
<1>1. CBInit => IInv /\ Tidy /\ Follows
  <2> SUFFICES ASSUME CBInit PROVE IInv /\ Tidy /\ Follows
    OBVIOUS
  <2>1. Init
    BY DEF CBInit
  <2>2. Tidy
    BY <2>1 DEF Init, Tidy, Found, OwnPrice, BookSorted, Apart
  <2> QED BY <2>1, <2>2, InitInv, FollowsInit
<1>2. IInv /\ Tidy /\ Follows /\ FewLevels' /\ [CBNext]_cbvars => IInv' /\ Tidy' /\ Follows'
  <2> SUFFICES ASSUME IInv, Tidy, Follows, FewLevels', [CBNext]_cbvars
               PROVE  IInv' /\ Tidy' /\ Follows'
    OBVIOUS
  <2>1. [Next]_vars
    BY DEF CBNext, Trade, Gap, Recover, cbvars
  <2>2. Tidy'
    <3>1. CASE UNCHANGED vars
      BY <3>1 DEF vars, book, Tidy, Found, OwnPrice, BookSorted, Apart
    <3> QED BY <2>1, <3>1, TidyStep
  <2> QED BY <2>1, <2>2, NextInv, FollowsNext
<1> QED BY <1>1, <1>2, PTL DEF CBSpec

\* The best bid and offer a client quotes from are right or absent.
THEOREM ClientQuotesSoundly ==
    ASSUME Unshared
    PROVE  CBSpec /\ []FewLevels => []BboSound
<1>1. Follows => BboSound
  BY DEF Follows, BboSound, BboFits
<1> QED BY <1>1, ClientFollows, PTL

\* A copy fails only after the CLEAR of a recovery or where the market order ids
\* leave its table.
THEOREM ClientFailsOnlyAfterClear ==
    ASSUME Unshared
    PROVE  CBSpec /\ []FewLevels => []FailsOnlyAfterClear
<1>1. Follows => FailsOnlyAfterClear
  BY DEF Follows, FailsOnlyAfterClear
<1> QED BY <1>1, ClientFollows, PTL

\* Until its first recovery the copy is the book of the exchange.
THEOREM ClientCopiesUntilRecovery ==
    ASSUME Unshared
    PROVE  CBSpec /\ []FewLevels => [](recoveries = 0 => CopyCorrect)
<1>1. Follows => (recoveries = 0 => CopyCorrect)
  <2> SUFFICES ASSUME Copies(client, orders, levels, rings, price_levels)
               PROVE  CopyCorrect
    BY DEF Follows, CopyCorrect
  <2>1. client.orders = Views(orders) /\ client.levels = levels /\ client.rings = rings
    BY DEF Copies, Holds, Members
  <2> QED BY <2>1 DEF CopyCorrect, Views, View
<1> QED BY <1>1, ClientFollows, PTL
================================================================================
