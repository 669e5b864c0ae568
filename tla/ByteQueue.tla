----------------------------- MODULE ByteQueue ------------------------------
(***************************************************************************)
(* What a pipe promises about its bytes: a bounded first-in first-out      *)
(* queue.  A byte is named by its writer, its place in the write and the   *)
(* length of the write; a write of at most PIPE_BUF bytes is queued whole. *)
(***************************************************************************)
EXTENDS Integers, Sequences

CONSTANTS Task, PIPE_CAPACITY, PIPE_BUF,
          Lengths  \* lengths of the writes made

VARIABLES open,  \* there is a pipe
          fifo,  \* the bytes in the pipe, oldest first
          out    \* the bytes the latest step handed to a reader

Bytes(t, n, from, k) == [i \in 1 .. k |-> [by |-> t, at |-> from + i, of |-> n]]

Init == open = FALSE /\ fifo = <<>> /\ out = <<>>

Put(t, n, from, k) ==
  /\ open /\ open' = open
  /\ Len(fifo) + k <= PIPE_CAPACITY
  /\ n <= PIPE_BUF => from = 0 /\ k = n
  /\ fifo' = fifo \o Bytes(t, n, from, k)
  /\ out' = <<>>

Take(k) ==
  /\ open /\ open' = open
  /\ k <= Len(fifo)
  /\ out' = SubSeq(fifo, 1, k)
  /\ fifo' = SubSeq(fifo, k + 1, Len(fifo))

\* Only a new pipe starts empty; any other step, the close of the pipe
\* included, leaves the bytes alone.
Create == ~open /\ open' = TRUE /\ fifo' = <<>> /\ out' = <<>>
Other == (open' => open) /\ fifo' = fifo /\ out' = <<>>

Next ==
  \/ Create \/ Other
  \/ \E k \in 1 .. PIPE_CAPACITY : Take(k)
  \/ \E t \in Task, n \in Lengths, k \in 1 .. PIPE_CAPACITY : \E from \in 0 .. n : Put(t, n, from, k)

Spec == Init /\ [][Next]_<<open, fifo, out>>
=============================================================================
