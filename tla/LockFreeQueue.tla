---------------------------- MODULE LockFreeQueue ----------------------------
(***************************************************************************)
(* kse::utils::lock_free_queue (src/utils/lock_free_queue.hpp) between one *)
(* writing and one reading thread, step by step as the two interleave.     *)
(* next_write_index_ is private to the writer and next_read_index_ to the  *)
(* reader; the slots and num_elements_ are shared.                         *)
(*                                                                         *)
(* The writer fills a slot that it got from get_next_write_element() and   *)
(* then calls next_write_index().  Nothing in the queue stops a writer     *)
(* that runs ahead of the reader: MaxBacklog says how far it does.  Most   *)
(* readers use the element and then call next_read_index(); the market     *)
(* data publisher uses it once more after that call                        *)
(* (market_data_publisher.cpp:54-58), which ReadsAfterRelease stands for.  *)
(*                                                                         *)
(* Slots hold the number of the write that filled them, 0 (a default       *)
(* constructed element) or Torn, the content of a slot while it is written *)
(***************************************************************************)
EXTENDS Integers, SequencesExt

CONSTANTS
    Capacity,           \* data_.size()
    MaxWrites,          \* bound on the number of elements written
    MaxBacklog,         \* the writer starts only below this num_elements_
    ReadsAfterRelease   \* is the element used after next_read_index()?

ASSUME QueueAssumption ==
    /\ Capacity \in Nat \ {0}
    /\ MaxWrites \in Nat
    /\ MaxBacklog \in Nat
    /\ ReadsAfterRelease \in BOOLEAN

VARIABLES
    data, next_write_index, next_read_index, num_elements,
    writes,        \* elements written so far
    writer,        \* "idle", "writing" a slot, or slot "filled"
    reader,        \* "polling", "got" an element, "used" it, or "released" it
    received,      \* what the reader got from its first use of each element
    copied         \* what it got from its use after next_read_index()

vars == <<data, next_write_index, next_read_index, num_elements, writes,
          writer, reader, received, copied>>

Torn == -1

\* Mutant: an index does not wrap around.
SuccUnwrapped(i) == i + 1

Succ(i) == (i + 1) % Capacity
Pred(i) == (i + Capacity - 1) % Capacity

Init ==
    /\ data = [i \in 0 .. Capacity - 1 |-> 0]
    /\ next_write_index = 0 /\ next_read_index = 0 /\ num_elements = 0
    /\ writes = 0
    /\ writer = "idle" /\ reader = "polling"
    /\ received = <<>> /\ copied = <<>>

-----------------------------------------------------------------------------
\* The writer.

\* get_next_write_element(), and the assignment through the pointer begins.
BeginWrite ==
    /\ writer = "idle"
    /\ writes < MaxWrites /\ num_elements < MaxBacklog
    /\ data' = [data EXCEPT ![next_write_index] = Torn]
    /\ writer' = "writing"
    /\ UNCHANGED <<next_write_index, next_read_index, num_elements, writes,
                   reader, received, copied>>

\* Mutant: the element is published before the slot is filled.
EndWriteEarly ==
    /\ writer = "writing"
    /\ num_elements' = num_elements + 1
    /\ writes' = writes + 1
    /\ writer' = "filled"
    /\ UNCHANGED <<data, next_write_index, next_read_index, reader, received,
                   copied>>

EndWrite ==
    /\ writer = "writing"
    /\ data' = [data EXCEPT ![next_write_index] = writes + 1]
    /\ writes' = writes + 1
    /\ writer' = "filled"
    /\ UNCHANGED <<next_write_index, next_read_index, num_elements, reader,
                   received, copied>>

NextWriteIndex ==
    /\ writer = "filled"
    /\ next_write_index' = Succ(next_write_index)
    /\ num_elements' = num_elements + 1
    /\ writer' = "idle"
    /\ UNCHANGED <<data, next_read_index, writes, reader, received, copied>>

-----------------------------------------------------------------------------
\* The reader.

GetNextReadElement ==
    /\ reader = "polling"
    /\ num_elements # 0
    /\ reader' = "got"
    /\ UNCHANGED <<data, next_write_index, next_read_index, num_elements,
                   writes, writer, received, copied>>

UseElement ==
    /\ reader = "got"
    /\ received' = Append(received, data[next_read_index])
    /\ reader' = "used"
    /\ UNCHANGED <<data, next_write_index, next_read_index, num_elements,
                   writes, writer, copied>>

\* Mutant: the reader forgets to move on.
NextReadIndexStays ==
    /\ reader = "used"
    /\ num_elements' = num_elements - 1
    /\ reader' = IF ReadsAfterRelease THEN "released" ELSE "polling"
    /\ UNCHANGED <<data, next_read_index, next_write_index, writes, writer,
                   received, copied>>

NextReadIndex ==
    /\ reader = "used"
    /\ num_elements # 0
    /\ next_read_index' = Succ(next_read_index)
    /\ num_elements' = num_elements - 1
    /\ reader' = IF ReadsAfterRelease THEN "released" ELSE "polling"
    /\ UNCHANGED <<data, next_write_index, writes, writer, received, copied>>

\* Mutant: the slot at the read index is copied, which is the next one.
UseNext ==
    /\ reader = "released"
    /\ copied' = Append(copied, data[next_read_index])
    /\ reader' = "polling"
    /\ UNCHANGED <<data, next_write_index, next_read_index, num_elements,
                   writes, writer, received>>

\* The publisher copies the element into the snapshot queue only now.
UseReleased ==
    /\ reader = "released"
    /\ copied' = Append(copied, data[Pred(next_read_index)])
    /\ reader' = "polling"
    /\ UNCHANGED <<data, next_write_index, next_read_index, num_elements,
                   writes, writer, received>>

Writer == BeginWrite \/ EndWrite \/ NextWriteIndex
Reader == GetNextReadElement \/ UseElement \/ NextReadIndex \/ UseReleased

Next == Writer \/ Reader

\* Both threads run: a started write is finished, and the reader polls.
Spec == Init /\ [][Next]_vars /\ WF_vars(EndWrite \/ NextWriteIndex)
             /\ WF_vars(Reader)

-----------------------------------------------------------------------------
\* Properties.

\* The indices stay inside data_, and the unsigned num_elements_ never wraps.
TypeOK ==
    /\ data \in [0 .. Capacity - 1 -> {Torn} \cup 0 .. MaxWrites]
    /\ next_write_index \in 0 .. Capacity - 1
    /\ next_read_index \in 0 .. Capacity - 1
    /\ num_elements \in 0 .. Capacity
    /\ writes \in 0 .. MaxWrites
    /\ writer \in {"idle", "writing", "filled"}
    /\ reader \in {"polling", "got", "used", "released"}
    /\ received \in Seq({Torn} \cup 0 .. MaxWrites)
    /\ copied \in Seq({Torn} \cup 0 .. MaxWrites)

\* num_elements_ is the distance from next_read_index_ to next_write_index_,
\* although the two threads move the indices and the counter independently,
\* and the slots of that range hold the last elements written, in order.
SizeSound ==
    /\ (next_read_index + num_elements) % Capacity = next_write_index
    /\ \A i \in 1 .. num_elements :
          data[(next_read_index + i - 1) % Capacity]
            = writes - (IF writer = "filled" THEN 1 ELSE 0) - num_elements + i

\* What the publisher copies into the snapshot queue after it has released the
\* slot is what it had put into the incremental stream.
CopiesAgree == IsPrefix(copied, received)

\* The elements the reader has still to use: those in the queue, but for the
\* one it has used and not released.
Unread ==
    LET done == IF reader = "used" THEN 1 ELSE 0
    IN  [i \in 1 .. num_elements - done |->
           data[(next_read_index + done + i - 1) % Capacity]]

F == INSTANCE Fifo WITH queue <- Unread

\* The reader gets every element once, whole and in the order of writing, and
\* it gets every element in the end: the queue implements Fifo.
ImplementsFifo == F!Spec
=============================================================================
