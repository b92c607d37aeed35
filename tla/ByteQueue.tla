----------------------------- MODULE ByteQueue -----------------------------
(***************************************************************************)
(* What devices/intq.h promises of an interrupt queue: a bounded queue of  *)
(* bytes, from which each byte comes out once, in the order it went in.    *)
(***************************************************************************)
EXTENDS Naturals, Sequences

CONSTANTS Bytes, Capacity, NULL

VARIABLES
  fifo,   \* the bytes in the queue, oldest first
  out,    \* the last byte that came out, or NULL
  open    \* the queue is in use: before that bytes go out without it

Put(b) == /\ Len(fifo) < Capacity
          /\ fifo' = Append(fifo, b)
          /\ UNCHANGED out

Get == /\ fifo # <<>>
       /\ out' = Head(fifo)
       /\ fifo' = Tail(fifo)

\* Make room for a byte by taking out the oldest.
Shift(b) == /\ Len(fifo) = Capacity
            /\ out' = Head(fifo)
            /\ fifo' = Append(Tail(fifo), b)

\* A byte goes out without the queue, which is not in use yet.
Pass(b) == ~ open /\ fifo = <<>> /\ out' = b /\ UNCHANGED fifo

Init == fifo = <<>> /\ out = NULL

Next == Get \/ \E b \in Bytes : Put(b) \/ Shift(b) \/ Pass(b)

\* Once in use, the queue stays so, and no byte comes out but by way of it.
Spec == Init /\ [][Next]_<<fifo, out>> /\ [][open']_open

=============================================================================
