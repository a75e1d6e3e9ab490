-------------------------------- MODULE Fifo --------------------------------
(***************************************************************************)
(* What a queue between two threads promises: the reader gets every        *)
(* element that was written, once, in the order of writing.  The n-th      *)
(* element written is the number n.                                        *)
(***************************************************************************)
EXTENDS Naturals, Sequences

CONSTANT MaxWrites    \* bound on the number of elements written

VARIABLES
    queue,            \* written and not yet read
    received          \* read so far, in the order of reading

vars == <<queue, received>>

Init == queue = <<>> /\ received = <<>>

Write ==
    LET n == Len(received) + Len(queue) + 1
    IN  /\ n <= MaxWrites
        /\ queue' = Append(queue, n)
        /\ UNCHANGED received

Read ==
    /\ queue # <<>>
    /\ received' = Append(received, Head(queue))
    /\ queue' = Tail(queue)

Next == Write \/ Read

\* The reading thread polls forever.
Spec == Init /\ [][Next]_vars /\ WF_vars(Read)
=============================================================================
