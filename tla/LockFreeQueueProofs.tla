------------------------- MODULE LockFreeQueueProofs -------------------------
(***************************************************************************)
(* Proofs about LockFreeQueue, for every capacity and every number of      *)
(* writes.  The queue itself does not stop a writer; the theorems say what *)
(* it owes to a backlog below its capacity, and below it by one where the  *)
(* reader uses an element after next_read_index().                         *)
(*                                                                         *)
(* The argument counts elements.  Of the `writes' elements the first       *)
(* Released have been given up by the reader and the first Published are   *)
(* visible to it; the k-th one lies in slot (k - 1) % Capacity from the    *)
(* end of its write until it is released.  Two elements that are in the    *)
(* queue together are less than Capacity apart, so their slots differ.     *)
(***************************************************************************)
EXTENDS LockFreeQueue, SequenceLemmas

Published == writes - (IF writer = "filled" THEN 1 ELSE 0)
Released == Published - num_elements

\* The counters and indices agree, and a write that has begun counts.
Counted ==
    /\ Released \in Nat
    /\ num_elements + (IF writer = "idle" THEN 0 ELSE 1) <= MaxBacklog
    /\ writer = "writing" => writes < MaxWrites
    /\ next_read_index = Released % Capacity
    /\ next_write_index = Published % Capacity
    /\ reader \in {"got", "used"} => num_elements > 0
    /\ reader = "released" => ReadsAfterRelease

\* Every element that is written and not released is in its slot.
Stored == \A k \in Released + 1 .. writes : data[(k - 1) % Capacity] = k

\* The reader has got the elements up to the one it uses, each as it was written.
InOrder ==
    /\ Len(received) = Released + (IF reader = "used" THEN 1 ELSE 0)
    /\ \A k \in DOMAIN received : received[k] = k

\* The inductive invariant.
IInv == TypeOK /\ Counted /\ Stored /\ InOrder

\* What is added to it for the use after next_read_index(): the slot that was
\* released last is untouched while the reader may still copy from it.
CopyInv ==
    /\ reader = "released" =>
          Released > 0 /\ data[(Released - 1) % Capacity] = Released
    /\ Len(copied) <= Released - (IF reader = "released" THEN 1 ELSE 0)
    /\ ReadsAfterRelease =>
          Len(copied) = Released - (IF reader = "released" THEN 1 ELSE 0)
    /\ \A k \in DOMAIN copied : copied[k] = k

-----------------------------------------------------------------------------
\* Slots.

\* Succ moves to the slot of the next element.
LEMMA SlotAfter ==
    ASSUME NEW a \in Nat
    PROVE  Succ(a % Capacity) = (a + 1) % Capacity
BY QueueAssumption, ModPlus DEF Succ

\* Pred moves to the slot of the one before, also from the first slot.
LEMMA SlotBefore ==
    ASSUME NEW a \in Nat \ {0}
    PROVE  Pred(a % Capacity) = (a - 1) % Capacity
<1> DEFINE c == Capacity - 1
           b == a - 1
<1>1. c \in Nat /\ b \in Nat /\ a + c = b + Capacity
  BY QueueAssumption
<1>2. a % Capacity \in Nat
  BY QueueAssumption, Quotient
<1>3. Pred(a % Capacity) = ((a % Capacity) + c) % Capacity
  BY QueueAssumption, <1>2 DEF Pred
<1> HIDE DEF c, b
<1>4. ((a % Capacity) + c) % Capacity = (a + c) % Capacity
  BY QueueAssumption, <1>1, ModPlus
<1>5. (b + Capacity) % Capacity = b % Capacity
  BY QueueAssumption, <1>1, ModRound
<1> QED BY <1>1, <1>3, <1>4, <1>5 DEF b

-----------------------------------------------------------------------------
\* The invariant.

\* The counts are numbers, and what is in the queue fits into it.
LEMMA Counts ==
    ASSUME IInv, MaxBacklog <= Capacity
    PROVE  /\ Capacity \in Nat \ {0} /\ MaxBacklog \in Nat /\ MaxWrites \in Nat
           /\ Published \in Nat /\ Released \in Nat /\ writes \in Nat
           /\ num_elements \in Nat /\ Published = Released + num_elements
           /\ num_elements <= MaxBacklog /\ Published <= writes
           /\ writer # "idle" => num_elements < MaxBacklog
BY QueueAssumption DEF IInv, TypeOK, Counted, Published, Released

\* An empty queue satisfies the invariant.
LEMMA InitInv == Init => IInv
<1> SUFFICES ASSUME Init PROVE IInv
  OBVIOUS
<1>1. TypeOK
  BY QueueAssumption DEF Init, TypeOK, Torn
<1>2. Published = 0 /\ Released = 0
  BY DEF Init, Published, Released
<1>3. Capacity \in Nat \ {0} /\ MaxBacklog \in Nat
  BY QueueAssumption
<1>4. 0 % Capacity = 0
  BY <1>3
<1>5. Counted
  BY <1>2, <1>3, <1>4 DEF Init, Counted
<1>6. Stored /\ InOrder
  BY <1>2 DEF Init, Stored, InOrder
<1> QED BY <1>1, <1>5, <1>6 DEF IInv

\* get_next_write_element() hands out a slot that holds no element of the queue.
LEMMA FreeSlot ==
    ASSUME IInv, MaxBacklog <= Capacity, num_elements < MaxBacklog,
           NEW k \in Released + 1 .. Published
    PROVE  (k - 1) % Capacity # next_write_index
<1>1. /\ Capacity \in Nat \ {0} /\ Published \in Nat /\ Released \in Nat
      /\ num_elements \in Nat /\ Published = Released + num_elements
      /\ MaxBacklog \in Nat
  BY Counts
<1>2. next_write_index = Published % Capacity
  BY DEF IInv, Counted
<1>3. k - 1 \in Nat /\ k - 1 < Published /\ Published - (k - 1) < Capacity
  BY <1>1
<1> DEFINE j == k - 1
<1> HIDE DEF j
<1>4. j % Capacity # Published % Capacity
  BY <1>1, <1>3, ModApart DEF j
<1> QED BY <1>2, <1>4 DEF j

\* The writer begins to fill its slot: with a backlog of at most the capacity the slot
\* holds no element the reader has still to use.
LEMMA BeginWriteInv ==
    ASSUME IInv, MaxBacklog <= Capacity, BeginWrite
    PROVE  IInv'
<1> USE DEF BeginWrite
<1>1. /\ Capacity \in Nat \ {0} /\ MaxBacklog \in Nat
      /\ Published \in Nat /\ Released \in Nat /\ num_elements \in Nat
  BY Counts
<1>2. Published' = Published /\ Released' = Released /\ Published = writes
  BY DEF Published, Released, IInv, TypeOK
<1>3. TypeOK'
  BY DEF IInv, TypeOK
<1>4. Counted'
  BY <1>1, <1>2 DEF IInv, Counted
<1>5. Stored'
  <2> SUFFICES ASSUME NEW k \in Released + 1 .. writes
               PROVE  data'[(k - 1) % Capacity] = k
    BY <1>2 DEF Stored
  <2>1. (k - 1) % Capacity # next_write_index
    BY <1>2, FreeSlot
  <2>2. data[(k - 1) % Capacity] = k
    BY DEF IInv, Stored
  <2>3. (k - 1) % Capacity \in 0 .. Capacity - 1
    <3>1. k - 1 \in Nat
      BY <1>1
    <3> QED BY <1>1, <3>1, Quotient
  <2> QED BY <2>1, <2>2, <2>3 DEF IInv, TypeOK
<1>6. InOrder'
  BY <1>2 DEF IInv, InOrder
<1> QED BY <1>3, <1>4, <1>5, <1>6 DEF IInv

\* The slot gets its value.
LEMMA EndWriteInv ==
    ASSUME IInv, MaxBacklog <= Capacity, EndWrite
    PROVE  IInv'
<1> USE DEF EndWrite
<1>1. /\ Capacity \in Nat \ {0} /\ MaxBacklog \in Nat /\ writes \in Nat
      /\ Published \in Nat /\ Released \in Nat /\ num_elements \in Nat
      /\ num_elements < MaxBacklog /\ MaxWrites \in Nat
  BY Counts
<1>2. Published' = Published /\ Released' = Released /\ Published = writes
  BY <1>1 DEF Published, Released
<1>3. TypeOK'
  BY <1>1 DEF IInv, TypeOK, Counted
<1>4. Counted'
  BY <1>1, <1>2 DEF IInv, Counted
<1>5. Stored'
  <2> SUFFICES ASSUME NEW k \in Released + 1 .. writes + 1
               PROVE  data'[(k - 1) % Capacity] = k
    BY <1>2 DEF Stored
  <2>1. k - 1 \in Nat
    BY <1>1
  <2>2. (k - 1) % Capacity \in 0 .. Capacity - 1
    BY <1>1, <2>1, Quotient
  <2>3. CASE k = writes + 1
    <3>1. (k - 1) % Capacity = next_write_index
      BY <1>1, <1>2, <2>3 DEF IInv, Counted
    <3> QED BY <2>2, <2>3, <3>1 DEF IInv, TypeOK
  <2>4. CASE k \in Released + 1 .. writes
    <3>1. (k - 1) % Capacity # next_write_index
      BY <1>1, <1>2, <2>4, FreeSlot
    <3>2. data[(k - 1) % Capacity] = k
      BY <2>4 DEF IInv, Stored
    <3> QED BY <2>2, <3>1, <3>2 DEF IInv, TypeOK
  <2> QED BY <1>1, <2>3, <2>4
<1>6. InOrder'
  BY <1>2 DEF IInv, InOrder
<1> QED BY <1>3, <1>4, <1>5, <1>6 DEF IInv

\* next_write_index(): the element counts as published.
LEMMA NextWriteIndexInv ==
    ASSUME IInv, MaxBacklog <= Capacity, NextWriteIndex
    PROVE  IInv'
<1> USE DEF NextWriteIndex
<1>1. /\ Capacity \in Nat \ {0} /\ MaxBacklog \in Nat /\ writes \in Nat
      /\ Published \in Nat /\ Released \in Nat /\ num_elements \in Nat
      /\ num_elements < MaxBacklog
  BY Counts
<1>2. Published' = Published + 1 /\ Released' = Released
  BY <1>1 DEF Published, Released
<1>3. next_write_index' = (Published + 1) % Capacity
  BY <1>1, SlotAfter DEF IInv, Counted
<1>4. (Published + 1) % Capacity \in 0 .. Capacity - 1
  BY <1>1, Quotient
<1>5. TypeOK'
  BY <1>1, <1>3, <1>4 DEF IInv, TypeOK
<1>6. Counted'
  BY <1>1, <1>2, <1>3 DEF IInv, Counted
<1>7. Stored' /\ InOrder'
  BY <1>2 DEF IInv, InOrder, Stored
<1> QED BY <1>5, <1>6, <1>7 DEF IInv

\* get_next_read_element(): the reader looks, and takes the oldest element if any.
LEMMA GetNextReadElementInv ==
    ASSUME IInv, MaxBacklog <= Capacity, GetNextReadElement
    PROVE  IInv'
<1> USE DEF GetNextReadElement
<1>1. Published' = Published /\ Released' = Released /\ num_elements \in Nat
  BY Counts DEF Published, Released
<1>2. TypeOK' /\ Counted' /\ Stored' /\ InOrder'
  BY <1>1 DEF IInv, TypeOK, Counted, Stored, InOrder
<1> QED BY <1>2 DEF IInv

\* The element the reader is at is whole, and is the one it waits for.
LEMMA ReadsNext ==
    ASSUME IInv, MaxBacklog <= Capacity, num_elements > 0
    PROVE  data[next_read_index] = Released + 1
<1>1. /\ Released \in Nat /\ Published <= writes /\ num_elements \in Nat
      /\ Published = Released + num_elements /\ writes \in Nat
  BY Counts
<1>2. Released + 1 \in Released + 1 .. writes /\ (Released + 1) - 1 = Released
  BY <1>1
<1> QED BY <1>2 DEF IInv, Stored, Counted

\* The reader uses the element it has got: it is the next number.
LEMMA UseElementInv ==
    ASSUME IInv, MaxBacklog <= Capacity, UseElement
    PROVE  IInv'
<1> USE DEF UseElement
<1>1. Published' = Published /\ Released' = Released /\ Released \in Nat
  BY Counts DEF Published, Released
<1>2. data[next_read_index] = Released + 1
  BY ReadsNext DEF IInv, Counted
<1>3. received' = Append(received, Released + 1) /\ Len(received) = Released
  BY <1>1, <1>2 DEF IInv, InOrder
<1>4. data[next_read_index] \in {Torn} \cup 0 .. MaxWrites
  BY DEF IInv, TypeOK
<1>5. received \in Seq({Torn} \cup 0 .. MaxWrites)
  BY DEF IInv, TypeOK
<1>6. received' \in Seq({Torn} \cup 0 .. MaxWrites)
  <2> DEFINE T == {Torn} \cup 0 .. MaxWrites
             e == data[next_read_index]
  <2> HIDE DEF T, e
  <2>1. e \in T /\ received \in Seq(T) /\ received' = Append(received, e)
    BY <1>4, <1>5 DEF T, e
  <2>2. received' \in Seq(T)
    BY <2>1
  <2> QED BY <2>2 DEF T
<1>7. TypeOK'
  BY <1>6 DEF IInv, TypeOK
<1>8. Counted' /\ Stored'
  BY <1>1 DEF IInv, Counted, Stored
<1>9. InOrder'
  <2>1. Len(received') = Released + 1
    BY <1>1, <1>3, <1>5
  <2>2. ASSUME NEW k \in DOMAIN received' PROVE received'[k] = k
    BY <1>1, <1>3, <1>5 DEF IInv, InOrder
  <2> QED BY <1>1, <2>1, <2>2 DEF InOrder
<1> QED BY <1>7, <1>8, <1>9 DEF IInv

\* next_read_index(): the slot is given back.
LEMMA NextReadIndexInv ==
    ASSUME IInv, MaxBacklog <= Capacity, NextReadIndex
    PROVE  IInv'
<1> USE DEF NextReadIndex
<1>1. /\ Capacity \in Nat \ {0} /\ MaxBacklog \in Nat /\ writes \in Nat
      /\ Published \in Nat /\ Released \in Nat /\ num_elements \in Nat
      /\ num_elements > 0
  BY Counts
<1>2. Published' = Published /\ Released' = Released + 1
  BY <1>1 DEF Published, Released
<1>3. next_read_index' = (Released + 1) % Capacity
  BY <1>1, SlotAfter DEF IInv, Counted
<1>4. (Released + 1) % Capacity \in 0 .. Capacity - 1
  BY <1>1, Quotient
<1>5. TypeOK'
  BY <1>1, <1>3, <1>4 DEF IInv, TypeOK
<1>6. Counted'
  BY <1>1, <1>2, <1>3 DEF IInv, Counted
<1>7. Stored'
  BY <1>1, <1>2 DEF IInv, Stored
<1>8. InOrder'
  BY <1>1, <1>2 DEF IInv, InOrder
<1> QED BY <1>5, <1>6, <1>7, <1>8 DEF IInv

\* The publisher's second use of the element, after its release.
LEMMA UseReleasedInv ==
    ASSUME IInv, MaxBacklog <= Capacity, UseReleased
    PROVE  IInv'
<1> USE DEF UseReleased
<1>1. Published' = Published /\ Released' = Released /\ Capacity \in Nat \ {0}
  BY Counts DEF Published, Released
<1>2. Pred(next_read_index) \in 0 .. Capacity - 1
  <2> DEFINE n == next_read_index + Capacity - 1
  <2>1. n \in Nat
    BY <1>1 DEF IInv, TypeOK
  <2> HIDE DEF n
  <2>2. n % Capacity \in 0 .. Capacity - 1
    BY <1>1, <2>1, Quotient
  <2> QED BY <2>2 DEF n, Pred
<1>3. copied' \in Seq({Torn} \cup 0 .. MaxWrites)
  <2>1. data[Pred(next_read_index)] \in {Torn} \cup 0 .. MaxWrites
    BY <1>2 DEF IInv, TypeOK
  <2> QED BY <2>1 DEF IInv, TypeOK
<1>4. TypeOK'
  BY <1>3 DEF IInv, TypeOK
<1>5. Counted' /\ Stored' /\ InOrder'
  BY <1>1 DEF IInv, Counted, Stored, InOrder
<1> QED BY <1>4, <1>5 DEF IInv

\* A step that changes nothing.
LEMMA StutterInv ==
    ASSUME IInv, UNCHANGED vars
    PROVE  IInv'
BY DEF vars, IInv, TypeOK, Counted, Stored, InOrder, Published, Released

\* Every step keeps the invariant.
LEMMA NextInv ==
    ASSUME MaxBacklog <= Capacity
    PROVE  IInv /\ [Next]_vars => IInv'
BY BeginWriteInv, EndWriteInv, NextWriteIndexInv, GetNextReadElementInv,
   UseElementInv, NextReadIndexInv, UseReleasedInv, StutterInv
   DEF Next, Writer, Reader

\* Whatever the interleaving, the inductive invariant holds.
THEOREM QueueInvariance ==
    ASSUME MaxBacklog <= Capacity
    PROVE  Spec => []IInv
BY InitInv, NextInv, PTL DEF Spec

\* The indices stay inside data_ and num_elements_ never wraps, as long as the
\* writer is never further ahead than the capacity.
THEOREM QueueTypeCorrect ==
    ASSUME MaxBacklog <= Capacity
    PROVE  Spec => []TypeOK
<1>1. IInv => TypeOK
  BY DEF IInv
<1> QED
  BY <1>1, QueueInvariance, PTL

\* num_elements_ is the distance of the two indices, and the slots between them
\* hold the last elements written, in order.
THEOREM QueueSizeSound ==
    ASSUME MaxBacklog <= Capacity
    PROVE  Spec => []SizeSound
<1>1. IInv => SizeSound
  <2> SUFFICES ASSUME IInv PROVE SizeSound
    OBVIOUS
  <2>1. /\ Capacity \in Nat \ {0} /\ Published \in Nat /\ Released \in Nat
        /\ num_elements \in Nat /\ Published = Released + num_elements
        /\ writes \in Nat /\ Published <= writes
    BY Counts
  <2>2. next_read_index = Released % Capacity
        /\ next_write_index = Published % Capacity
    BY DEF IInv, Counted
  <2>3. (next_read_index + num_elements) % Capacity = next_write_index
    BY <2>1, <2>2, ModPlus
  <2>4. ASSUME NEW i \in 1 .. num_elements
        PROVE  data[(next_read_index + i - 1) % Capacity] = Published - num_elements + i
    <3> DEFINE j == i - 1
               k == Released + i
    <3>1. j \in Nat /\ k \in Released + 1 .. writes /\ k - 1 = Released + j
      BY <2>1
    <3>2. next_read_index \in Nat
      BY <2>1, <2>2, Quotient
    <3>3. next_read_index + i - 1 = next_read_index + j
      BY <2>1, <3>2
    <3> HIDE DEF j
    <3>4. (next_read_index + j) % Capacity = (Released + j) % Capacity
      BY <2>1, <2>2, <3>1, ModPlus
    <3>5. data[(k - 1) % Capacity] = k
      BY <3>1 DEF IInv, Stored
    <3>6. k = Published - num_elements + i
      BY <2>1
    <3> QED BY <3>1, <3>3, <3>4, <3>5, <3>6
  <2> QED BY <2>3, <2>4 DEF SizeSound, Published
<1> QED
  BY <1>1, QueueInvariance, PTL

-----------------------------------------------------------------------------
\* The use after next_read_index().

\* With a backlog below the capacity no step lets the writer reach the slot that was
\* released but is still in use.
LEMMA CopyInvStep ==
    ASSUME MaxBacklog < Capacity, IInv, IInv', CopyInv, [Next]_vars
    PROVE  CopyInv'
<1>1. /\ Capacity \in Nat \ {0} /\ MaxBacklog \in Nat /\ MaxBacklog <= Capacity
      /\ ReadsAfterRelease \in BOOLEAN
  BY QueueAssumption
<1>2. /\ Published \in Nat /\ Released \in Nat /\ num_elements \in Nat
      /\ Published = Released + num_elements /\ writes \in Nat
      /\ num_elements <= MaxBacklog
      /\ writer # "idle" => num_elements < MaxBacklog
  BY <1>1, Counts
<1>3. copied \in Seq({Torn} \cup 0 .. MaxWrites) /\ Len(copied) \in Nat
  BY DEF IInv, TypeOK
\* The slot that is written is not the one that was released last.
<1>4. ASSUME NEW v, num_elements < MaxBacklog, Released > 0,
             data' = [data EXCEPT ![next_write_index] = v]
      PROVE  data'[(Released - 1) % Capacity] = data[(Released - 1) % Capacity]
  <2> DEFINE r == Released - 1
  <2>1. r \in Nat /\ r < Published /\ Published - r < Capacity
    BY <1>1, <1>2, <1>4
  <2> HIDE DEF r
  <2>2. r % Capacity # Published % Capacity /\ r % Capacity \in 0 .. Capacity - 1
    BY <1>1, <1>2, <2>1, ModApart, Quotient
  <2>3. next_write_index = Published % Capacity
    BY DEF IInv, Counted
  <2>4. data'[r % Capacity] = data[r % Capacity]
    BY <1>4, <2>2, <2>3 DEF IInv, TypeOK
  <2> QED BY <2>4 DEF r
<1>5. CASE BeginWrite
  <2>1. Released' = Released
    BY <1>5 DEF BeginWrite, Released, Published
  <2> QED BY <1>2, <1>4, <1>5, <2>1 DEF BeginWrite, CopyInv
<1>6. CASE EndWrite
  <2>1. Released' = Released
    BY <1>2, <1>6 DEF EndWrite, Released, Published
  <2> QED BY <1>2, <1>4, <1>6, <2>1 DEF EndWrite, CopyInv
<1>7. CASE NextWriteIndex
  <2>1. Released' = Released
    BY <1>2, <1>7 DEF NextWriteIndex, Released, Published
  <2> QED BY <1>7, <2>1 DEF NextWriteIndex, CopyInv
<1>8. CASE GetNextReadElement \/ UseElement
  <2>1. Released' = Released /\ reader' # "released" /\ reader # "released"
        /\ UNCHANGED copied
    BY <1>8 DEF GetNextReadElement, UseElement, Released, Published
  <2> QED BY <2>1 DEF CopyInv
<1>9. CASE NextReadIndex
  <2>1. Released' = Released + 1 /\ UNCHANGED <<data, copied>> /\ reader = "used"
    BY <1>2, <1>9 DEF NextReadIndex, Released, Published
  <2>2. data[next_read_index] = Released + 1
    BY <1>1, <1>2, <1>9, ReadsNext DEF NextReadIndex
  <2>3. data'[(Released' - 1) % Capacity] = Released'
    BY <1>2, <2>1, <2>2 DEF IInv, Counted
  <2>4. reader' = IF ReadsAfterRelease THEN "released" ELSE "polling"
    BY <1>9 DEF NextReadIndex
  <2> QED BY <1>2, <1>3, <2>1, <2>3, <2>4 DEF CopyInv
<1>10. CASE UseReleased
  <2>1. /\ Released' = Released /\ reader = "released" /\ reader' = "polling"
        /\ copied' = Append(copied, data[Pred(next_read_index)])
    BY <1>10 DEF UseReleased, Released, Published
  <2>2. Released > 0 /\ data[(Released - 1) % Capacity] = Released
    BY <2>1 DEF CopyInv
  <2>3. next_read_index = Released % Capacity
    BY DEF IInv, Counted
  <2>4. copied' = Append(copied, Released)
    BY <1>2, <2>1, <2>2, <2>3, SlotBefore
  <2>5. Len(copied) = Released - 1
    BY <2>1 DEF CopyInv, IInv, Counted
  <2>6. Len(copied') = Released
    BY <1>2, <1>3, <2>4, <2>5
  <2>7. ASSUME NEW k \in DOMAIN copied' PROVE copied'[k] = k
    BY <1>2, <1>3, <2>4, <2>5 DEF CopyInv
  <2> QED BY <1>2, <2>1, <2>6, <2>7 DEF CopyInv
<1>11. CASE UNCHANGED vars
  BY <1>11 DEF vars, CopyInv, Released, Published
<1> QED BY <1>5, <1>6, <1>7, <1>8, <1>9, <1>10, <1>11 DEF Next, Writer, Reader

\* What the publisher copies into the snapshot queue after it has released the slot
\* is what it had sent, as long as the writer stays below the capacity by one.
THEOREM QueueCopiesAgree ==
    ASSUME MaxBacklog < Capacity
    PROVE  Spec => []CopiesAgree
<1>1. MaxBacklog <= Capacity
  BY QueueAssumption
<1>2. Init => CopyInv
  BY DEF Init, CopyInv, Released, Published
<1>3. IInv /\ IInv' /\ CopyInv /\ [Next]_vars => CopyInv'
  BY CopyInvStep
<1>4. IInv /\ CopyInv => CopiesAgree
  <2> SUFFICES ASSUME IInv, CopyInv PROVE CopiesAgree
    OBVIOUS
  <2>1. /\ copied \in Seq({Torn} \cup 0 .. MaxWrites)
        /\ received \in Seq({Torn} \cup 0 .. MaxWrites)
    BY DEF IInv, TypeOK
  <2>2. Len(copied) <= Len(received)
    BY <2>1 DEF IInv, InOrder, CopyInv, Counted
  <2>3. \A k \in DOMAIN copied : copied[k] = received[k]
    BY <2>1, <2>2 DEF IInv, InOrder, CopyInv
  <2>4. copied = SubSeq(received, 1, Len(copied))
    BY <2>1, <2>2, <2>3
  <2> QED BY <2>2, <2>4 DEF CopiesAgree, IsPrefix
<1> QED
  BY <1>1, <1>2, <1>3, <1>4, QueueInvariance, PTL DEF Spec

-----------------------------------------------------------------------------
\* The queue implements Fifo, but for its liveness.

Numbers(r, p) == [i \in 1 .. p - r |-> r + i]

\* What the reader has still to use are the numbers that follow those it has got.
Remaining ==
    /\ Len(received) \in Nat /\ Published \in Nat /\ Len(received) <= Published
    /\ Unread = Numbers(Len(received), Published)

\* The refinement mapping's queue: the slots between the indices, in order.
LEMMA UnreadIs ==
    ASSUME IInv, MaxBacklog <= Capacity
    PROVE  Remaining
<1> DEFINE done == IF reader = "used" THEN 1 ELSE 0
           n == num_elements - done
<1>1. /\ Capacity \in Nat \ {0} /\ Published \in Nat /\ Released \in Nat
      /\ num_elements \in Nat /\ Published = Released + num_elements
      /\ writes \in Nat /\ Published <= writes
  BY Counts
<1>2. done \in Nat /\ done <= num_elements
  BY <1>1 DEF IInv, Counted
<1>3. Len(received) = Released + done
  BY DEF IInv, InOrder
<1>4. n = Published - Len(received) /\ n \in Nat
  BY <1>1, <1>2, <1>3
<1>5. ASSUME NEW i \in 1 .. n
      PROVE  data[(next_read_index + done + i - 1) % Capacity] = Len(received) + i
  <2> HIDE DEF done
  <2> DEFINE j == done + i - 1
             k == Released + done + i
  <2>1. j \in Nat /\ k \in Released + 1 .. writes /\ k - 1 = Released + j
    BY <1>1, <1>2
  <2>2. next_read_index = Released % Capacity /\ next_read_index \in Nat
    BY <1>1, Quotient DEF IInv, Counted
  <2>3. next_read_index + done + i - 1 = next_read_index + j
    BY <1>2, <2>2
  <2>4. data[(k - 1) % Capacity] = k
    BY <2>1 DEF IInv, Stored
  <2>5. k = Len(received) + i
    BY <1>3
  <2> HIDE DEF j
  <2>6. (next_read_index + j) % Capacity = (Released + j) % Capacity
    BY <1>1, <2>1, <2>2, ModPlus
  <2> QED BY <2>1, <2>3, <2>4, <2>5, <2>6
<1>6. Unread = [i \in 1 .. n |-> data[(next_read_index + done + i - 1) % Capacity]]
  BY DEF Unread
<1>7. Len(received) \in Nat /\ Len(received) <= Published
  BY <1>1, <1>2, <1>3
<1> HIDE DEF n, done
<1>8. Unread = [i \in 1 .. n |-> Len(received) + i]
  BY <1>5, <1>6
<1> QED BY <1>1, <1>4, <1>7, <1>8 DEF Remaining, Numbers

\* Numbers(r, p) is the sequence r + 1, ..., p.
LEMMA NumbersSeq ==
    ASSUME NEW r \in Nat, NEW p \in Nat, r <= p
    PROVE  /\ Numbers(r, p) \in Seq(Nat) /\ Len(Numbers(r, p)) = p - r
           /\ \A i \in 1 .. p - r : Numbers(r, p)[i] = r + i
BY DEF Numbers

\* An element that is published comes to its end.
LEMMA NumbersGrow ==
    ASSUME NEW r \in Nat, NEW p \in Nat, r <= p
    PROVE  Numbers(r, p + 1) = Append(Numbers(r, p), p + 1)
<1> DEFINE s == Numbers(r, p)
           t == Numbers(r, p + 1)
<1>1. s \in Seq(Nat) /\ Len(s) = p - r /\ \A i \in 1 .. p - r : s[i] = r + i
  BY NumbersSeq
<1>2. p + 1 \in Nat /\ r <= p + 1
  OBVIOUS
<1>3. t \in Seq(Nat) /\ Len(t) = p + 1 - r /\ \A i \in 1 .. p + 1 - r : t[i] = r + i
  BY <1>2, NumbersSeq
<1> HIDE DEF s, t
<1>4. Append(s, p + 1) \in Seq(Nat) /\ Len(Append(s, p + 1)) = p - r + 1
  BY <1>1
<1>5. ASSUME NEW i \in 1 .. p - r + 1 PROVE Append(s, p + 1)[i] = r + i
  BY <1>1
<1>6. t = Append(s, p + 1)
  BY <1>3, <1>4, <1>5
<1> QED BY <1>6 DEF s, t

\* An element that is used is its head.
LEMMA NumbersShrink ==
    ASSUME NEW r \in Nat, NEW p \in Nat, r < p
    PROVE  /\ Numbers(r, p) # <<>> /\ Head(Numbers(r, p)) = r + 1
           /\ Numbers(r + 1, p) = Tail(Numbers(r, p))
<1> DEFINE s == Numbers(r, p)
           t == Numbers(r + 1, p)
<1>1. s \in Seq(Nat) /\ Len(s) = p - r /\ \A i \in 1 .. p - r : s[i] = r + i
  BY NumbersSeq
<1>2. r + 1 \in Nat /\ r + 1 <= p
  OBVIOUS
<1>3. t \in Seq(Nat) /\ Len(t) = p - (r + 1)
      /\ \A i \in 1 .. p - (r + 1) : t[i] = r + 1 + i
  BY <1>2, NumbersSeq
<1> HIDE DEF s, t
<1>4. s # <<>> /\ Head(s) = r + 1
  BY <1>1
<1>5. Tail(s) \in Seq(Nat) /\ Len(Tail(s)) = p - (r + 1)
      /\ \A i \in 1 .. p - (r + 1) : Tail(s)[i] = s[i + 1]
  BY <1>1, <1>4
<1>6. ASSUME NEW i \in 1 .. p - (r + 1) PROVE t[i] = Tail(s)[i]
  <2>1. i + 1 \in 1 .. p - r
    OBVIOUS
  <2> QED BY <1>1, <1>3, <1>5, <2>1
<1>7. t = Tail(s)
  BY <1>3, <1>5, <1>6, SeqEqual
<1> QED BY <1>4, <1>7 DEF s, t

\* Each step of the two threads is a step of Fifo, or leaves it as it is: an element
\* enters Fifo's queue with next_write_index() and leaves it when the reader uses it.
LEMMA StepIsFifo ==
    ASSUME MaxBacklog <= Capacity, IInv, Remaining, Remaining', [Next]_vars
    PROVE  [F!Next]_(F!vars)
<1> DEFINE r == Len(received)
           p == Published
<1>1. r \in Nat /\ p \in Nat /\ r <= p /\ Unread = Numbers(r, p)
  BY DEF Remaining
<1>2. Unread' = Numbers(r', p')
  BY DEF Remaining
<1>3. /\ writes \in 0 .. MaxWrites /\ MaxWrites \in Nat
      /\ received \in Seq({Torn} \cup 0 .. MaxWrites)
      /\ num_elements \in Int
  BY QueueAssumption DEF IInv, TypeOK
<1>4. CASE NextWriteIndex
  <2>1. /\ p' = p + 1 /\ received' = received /\ p + 1 <= MaxWrites
    BY <1>3, <1>4 DEF NextWriteIndex, Published
  <2>2. Unread' = Append(Unread, p + 1)
    BY <1>1, <1>2, <2>1, NumbersGrow
  <2>3. r + Len(Unread) + 1 = p + 1
    <3>1. Len(Numbers(r, p)) = p - r
      BY <1>1, NumbersSeq
    <3> HIDE DEF r, p
    <3> QED BY <1>1, <3>1
  <2> QED BY <2>1, <2>2, <2>3 DEF F!Next, F!Write
<1>5. CASE UseElement
  <2>1. p' = p /\ received' = Append(received, data[next_read_index])
    BY <1>5 DEF UseElement, Published
  <2>2. r' = r + 1
    BY <1>3, <2>1
  <2>3. r < p
    BY <1>1, <2>1, <2>2 DEF Remaining
  <2>4. Unread # <<>> /\ Head(Unread) = r + 1 /\ Unread' = Tail(Unread)
    BY <1>1, <1>2, <2>1, <2>2, <2>3, NumbersShrink
  <2>5. data[next_read_index] = r + 1
    BY <1>5, ReadsNext DEF UseElement, IInv, InOrder, Counted
  <2> QED BY <2>1, <2>4, <2>5 DEF F!Next, F!Read
<1>6. CASE ~(NextWriteIndex \/ UseElement)
  <2>1. p' = p /\ received' = received
    BY <1>3, <1>6 DEF Next, Writer, Reader, vars, BeginWrite, EndWrite, UseReleased,
       GetNextReadElement, NextReadIndex, Published
  <2>2. Unread' = Unread
    BY <1>1, <1>2, <2>1
  <2> QED BY <2>1, <2>2 DEF F!vars
<1> QED BY <1>4, <1>5, <1>6

\* Under every interleaving the queue behaves as Fifo: the reader gets each element
\* once, whole, and in the order of writing.
THEOREM QueueIsFifo ==
    ASSUME MaxBacklog <= Capacity
    PROVE  Spec => F!Init /\ [][F!Next]_(F!vars)
<1>1. Init => F!Init
  BY DEF Init, F!Init, Unread
<1>2. IInv => Remaining
  BY UnreadIs
<1>3. IInv /\ Remaining /\ Remaining' /\ [Next]_vars => [F!Next]_(F!vars)
  BY StepIsFifo
<1> QED
  BY <1>1, <1>2, <1>3, QueueInvariance, PTL DEF Spec
=============================================================================
