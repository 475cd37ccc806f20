----------------------------- MODULE BoundedFifo -----------------------------
(***************************************************************************)
(* What a byte ring promises to its single writer and its single reader,   *)
(* whatever its heads, its fences and its copy loops look like: a FIFO of  *)
(* at most Capacity bytes whose operations take effect atomically.         *)
(*                                                                         *)
(* Bytes are abstracted to their position in the stream the writer sends:  *)
(* the k-th byte ever sent is the number k, so that a byte that is lost,   *)
(* repeated, reordered or never written is told apart from the right one.  *)
(***************************************************************************)
EXTENDS Integers, Sequences

CONSTANTS Capacity,   \* the most bytes the FIFO ever holds
          MaxBytes    \* bound on the bytes sent, so that TLC terminates

VARIABLES queue,      \* the bytes sent and not yet taken, oldest first
          sent,       \* how many bytes have been sent
          got         \* what the reader's last read or peek returned

fifoVars == <<queue, sent, got>>

FifoInit ==
    /\ queue = << >>
    /\ sent = 0
    /\ got = << >>

\* The writer's next n bytes join the queue together, or not at all.
Put(n) ==
    /\ Len(queue) + n <= Capacity
    /\ sent + n <= MaxBytes
    /\ queue' = queue \o [i \in 1..n |-> sent + i]
    /\ sent' = sent + n
    /\ UNCHANGED got

\* The reader is given the oldest n bytes, which leave the queue.
Get(n) ==
    /\ n <= Len(queue)
    /\ got' = SubSeq(queue, 1, n)
    /\ queue' = SubSeq(queue, n + 1, Len(queue))
    /\ UNCHANGED sent

\* The reader is given the oldest n bytes, which stay.
Peek(n) ==
    /\ n <= Len(queue)
    /\ got' = SubSeq(queue, 1, n)
    /\ UNCHANGED <<queue, sent>>

\* The oldest n bytes leave the queue unseen.
Drop(n) ==
    /\ n <= Len(queue)
    /\ queue' = SubSeq(queue, n + 1, Len(queue))
    /\ UNCHANGED <<sent, got>>

\* Whatever is stored is thrown away.
Clear ==
    /\ queue' = << >>
    /\ UNCHANGED <<sent, got>>

FifoNext ==
    \/ \E n \in 1..Capacity : Put(n) \/ Get(n) \/ Peek(n) \/ Drop(n)
    \/ Clear

FifoSpec == FifoInit /\ [][FifoNext]_fifoVars
=============================================================================
