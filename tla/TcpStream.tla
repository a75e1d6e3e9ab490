------------------------------- MODULE TcpStream -------------------------------
(***************************************************************************)
(* Messages in a TCP stream and in the inbound buffer they are read into,  *)
(* the same in order_server and in order_gateway.  A message is a row of   *)
(* Parts cells, and a read may return any number of cells.  TCP itself is  *)
(* external: a stream neither loses nor reorders.                          *)
(***************************************************************************)
EXTENDS Integers, Sequences

CONSTANT Parts    \* cells of a serialised message

ASSUME StreamAssumption == Parts \in Nat \ {0}

\* A serialised message on its way.
Cells(m) == [k \in 1 .. Parts |-> [msg |-> m, part |-> k]]

\* Mutant: the new cells come behind the old ones.
FilledBehind(left, chunk) == left \o chunk

\* What the inbound buffer holds when `chunk' has come in on top of what was
\* `left': alloc_buffer hands out the start of the buffer, so the new cells lie
\* over the old ones, while next_rcv_valid_index_ grows by their number.  Behind
\* both is what an earlier read has left there: part 0, of no message.  Nothing ends
\* here: the loop of read_data deserialises whatever the rows then hold.
Filled(left, chunk) ==
    [k \in 1 .. Len(left) + Len(chunk) |->
        IF k <= Len(chunk) THEN chunk[k]
        ELSE IF k <= Len(left) THEN left[k] ELSE [chunk[1] EXCEPT !.part = 0]]

\* The whole messages in a buffer, as rows of cells, and (Shifted) what
\* shift_inbound_buffer leaves of it.
Rows(cells) ==
    [i \in 1 .. Len(cells) \div Parts |-> SubSeq(cells, (i - 1) * Parts + 1, i * Parts)]

\* Mutant: the buffer is not shifted.
NotShifted(cells) == cells

Shifted(cells) == SubSeq(cells, (Len(cells) \div Parts) * Parts + 1, Len(cells))

\* A row that is as it was sent, and deserialises to its message.  In any other row
\* the bytes of a field come from other fields, other messages or earlier reads.
Whole(row) == row = Cells(row[1].msg)
================================================================================
