------------------------------- MODULE ZixRing -------------------------------
(***************************************************************************)
(* The lock-free byte ring of zix/ring.c: one writer thread, one reader    *)
(* thread, no lock.  A call is split where the other thread can see it:    *)
(* loading the heads, each byte of the memcpy()s (in any order, as memcpy  *)
(* promises none), and the store that publishes the head.  A call whose    *)
(* space check fails returns 0 and changes nothing, so it is no step.      *)
(*                                                                         *)
(* zix_ring_read() has its acquire fence after the copy, and nothing       *)
(* orders the load of write_head before the loads of the bytes.  On a      *)
(* processor that keeps loads in order (the x86 ABIs) this is harmless; on *)
(* the ARM ABIs a byte may be loaded early, at any time since the reader's *)
(* last fence.  LoadsInOrder says which processor is modelled.             *)
(***************************************************************************)
EXTENDS Integers, Sequences

CONSTANTS Size,          \* ring->size, a power of two: & size_mask is % Size
          MaxBytes,      \* bound on the bytes sent, so that TLC terminates
          LoadsInOrder   \* TRUE on x86 and x86_64, FALSE on the ARM ABIs

ASSUME RingAssumption ==
    /\ Size \in Nat \ {0}
    /\ MaxBytes \in Nat
    /\ LoadsInOrder \in BOOLEAN

VARIABLES
    write_head, read_head, buf,   \* struct ZixRingImpl
    wsize, wtodo,    \* the write under way: its size, 0 if none, and the
                     \* offsets memcpy has not copied yet
    rop,             \* the reader's call under way: "none", "peek" or "read"
    rsize, rtodo,    \* its size and the offsets not copied yet
    dst,             \* the caller's destination buffer
    sent, taken,     \* bytes published by the writer, released by the reader
    got,             \* what the last completed read or peek returned
    seen             \* the cells at the reader's last acquire fence

writerVars == <<wsize, wtodo>>
readerVars == <<rop, rsize, rtodo, dst>>
vars == <<write_head, read_head, buf, writerVars, readerVars, sent, taken, got, seen>>

\* The k-th byte sent is the number k; 0 is what malloc() left in a cell.
Garbage == 0
Byte == 0..MaxBytes
Index == 0..(Size - 1)
-----------------------------------------------------------------------------
(* read_space_internal() and write_space_internal(). *)

ReadSpace(r, w) == IF r < w THEN w - r ELSE (w - r + Size) % Size

(* Faulty: an empty ring lets its last cell be used too. *)
WriteSpaceFull(r, w) ==
    IF r = w THEN Size ELSE IF r < w THEN ((r - w + Size) % Size) - 1 ELSE (r - w) - 1

(* Faulty: the heads are swapped in the subtraction. *)
WriteSpaceSwapped(r, w) ==
    IF r = w THEN Size - 1 ELSE IF r < w THEN ((w - r + Size) % Size) - 1 ELSE (r - w) - 1

WriteSpace(r, w) ==
    CASE r = w -> Size - 1
      [] r < w -> ((r - w + Size) % Size) - 1
      [] r > w -> (r - w) - 1

(* The cell that byte j of a transfer of n bytes lives in: one memcpy() if *)
(* the transfer is contiguous, else one to the end and one from the start. *)
(* The two functions do not draw the line at the same place.               *)

WriteCell(w, n, j) ==
    IF w + n <= Size \/ j < Size - w THEN w + j ELSE j - (Size - w)

(* Faulty: the second memcpy() does not start at the first cell. *)
ReadCellUnsplit(r, n, j) ==
    IF r + n < Size \/ j < Size - r THEN r + j ELSE j

ReadCell(r, n, j) ==
    IF r + n < Size \/ j < Size - r THEN r + j ELSE j - (Size - r)

(* The heads a completed transfer publishes. *)

(* Faulty: a write that ends at the end of the buffer is not wrapped. *)
WriteHeadUnmasked(w, n) ==
    IF w + n <= Size THEN w + n ELSE n - (Size - w)

WriteHeadAfter(w, n) ==
    IF w + n <= Size THEN (w + n) % Size ELSE n - (Size - w)

ReadHeadAfter(r, n) == (r + n) % Size
-----------------------------------------------------------------------------
Init ==
    /\ write_head = 0 /\ read_head = 0
    /\ buf = [c \in Index |-> Garbage]
    /\ wsize = 0 /\ wtodo = {}
    /\ rop = "none" /\ rsize = 0 /\ rtodo = {} /\ dst = << >>
    /\ sent = 0 /\ taken = 0 /\ got = << >>
    /\ seen = buf

(* zix_ring_write(): load the heads and check the space ... *)
WriteBegin(n) ==
    /\ wsize = 0
    /\ sent + n <= MaxBytes
    /\ n <= WriteSpace(read_head, write_head)
    /\ wsize' = n
    /\ wtodo' = 0..(n - 1)
    /\ UNCHANGED <<write_head, read_head, buf, readerVars, sent, taken, got, seen>>

(* ... copy ... *)
WriteCopy(j) ==
    /\ j \in wtodo
    /\ buf' = [buf EXCEPT ![WriteCell(write_head, wsize, j)] = sent + j + 1]
    /\ wtodo' = wtodo \ {j}
    /\ UNCHANGED <<write_head, read_head, wsize, readerVars, sent, taken, got, seen>>

(* Faulty: published before all of it is copied. *)
WriteEndEarly ==
    /\ wsize > 0
    /\ write_head' = WriteHeadAfter(write_head, wsize)
    /\ sent' = sent + wsize
    /\ wsize' = 0 /\ wtodo' = {}
    /\ UNCHANGED <<read_head, buf, readerVars, taken, got, seen>>

(* ... release fence, and publish. *)
WriteEnd ==
    /\ wsize > 0
    /\ wtodo = {}
    /\ write_head' = WriteHeadAfter(write_head, wsize)
    /\ sent' = sent + wsize
    /\ wsize' = 0
    /\ UNCHANGED <<read_head, buf, wtodo, readerVars, taken, got, seen>>

(* zix_ring_read() and zix_ring_peek(): load the heads, check the space.   *)
ReadBegin(op, n) ==
    /\ rop = "none"
    /\ n <= ReadSpace(read_head, write_head)
    /\ rop' = op
    /\ rsize' = n
    /\ rtodo' = 0..(n - 1)
    /\ dst' = [i \in 1..n |-> Garbage]
    /\ UNCHANGED <<write_head, read_head, buf, writerVars, sent, taken, got, seen>>

(* peek_internal()'s copy.  Between two fences of the reader a cell is     *)
(* written at most once, so an early load returns the byte the cell held   *)
(* at the fence or the one it holds now.                                   *)
Loadable(c) == IF LoadsInOrder THEN {buf[c]} ELSE {seen[c], buf[c]}

ReadCopy(j) ==
    /\ j \in rtodo
    /\ \E b \in Loadable(ReadCell(read_head, rsize, j)) :
          dst' = [dst EXCEPT ![j + 1] = b]
    /\ rtodo' = rtodo \ {j}
    /\ UNCHANGED <<write_head, read_head, buf, writerVars, rop, rsize, sent, taken, got, seen>>

(* The call returns: a peek leaves the heads, a read passes its acquire    *)
(* fence and publishes read_head.                                          *)
PeekEnd ==
    /\ rop = "peek"
    /\ rtodo = {}
    /\ rop' = "none"
    /\ got' = dst
    /\ UNCHANGED <<write_head, read_head, buf, writerVars, rsize, rtodo, dst, sent, taken, seen>>

ReadEnd ==
    /\ rop = "read"
    /\ rtodo = {}
    /\ rop' = "none"
    /\ got' = dst
    /\ seen' = buf
    /\ read_head' = ReadHeadAfter(read_head, rsize)
    /\ taken' = taken + rsize
    /\ UNCHANGED <<write_head, buf, writerVars, rsize, rtodo, dst, sent>>

(* Faulty: no check that so much is stored. *)
SkipUnchecked(n) ==
    /\ rop = "none" /\ taken + n <= MaxBytes
    /\ seen' = buf
    /\ read_head' = ReadHeadAfter(read_head, n)
    /\ taken' = taken + n
    /\ UNCHANGED <<write_head, buf, writerVars, readerVars, sent, got>>

(* zix_ring_skip() touches no byte: load, check, fence, publish.           *)
Skip(n) ==
    /\ rop = "none"
    /\ n <= ReadSpace(read_head, write_head)
    /\ seen' = buf
    /\ read_head' = ReadHeadAfter(read_head, n)
    /\ taken' = taken + n
    /\ UNCHANGED <<write_head, buf, writerVars, readerVars, sent, got>>

(* zix_ring_reset() "may only be called when there are no readers or       *)
(* writers" (ring.h:79).                                                   *)
Reset ==
    /\ wsize = 0 /\ rop = "none"
    /\ write_head' = 0 /\ read_head' = 0
    /\ taken' = sent
    /\ seen' = buf
    /\ UNCHANGED <<buf, writerVars, readerVars, sent, got>>

Writer == (\E n \in 1..Size : WriteBegin(n)) \/ (\E j \in Index : WriteCopy(j)) \/ WriteEnd

Reader ==
    \/ \E op \in {"peek", "read"}, n \in 1..Size : ReadBegin(op, n)
    \/ \E j \in Index : ReadCopy(j)
    \/ PeekEnd
    \/ ReadEnd
    \/ \E n \in 1..Size : Skip(n)

Next == Writer \/ Reader \/ Reset

Spec == Init /\ [][Next]_vars
-----------------------------------------------------------------------------
TypeOK ==
    /\ write_head \in Index /\ read_head \in Index
    /\ buf \in [Index -> Byte] /\ seen \in [Index -> Byte]
    /\ wsize \in 0..(Size - 1) /\ wtodo \subseteq 0..(wsize - 1)
    /\ rop \in {"none", "peek", "read"}
    /\ rsize \in 0..(Size - 1) /\ rtodo \subseteq 0..(rsize - 1)
    /\ dst \in [1..rsize -> Byte]
    /\ sent \in Byte /\ taken \in Byte
    /\ got \in Seq(Byte)

(* The two heads alone say how much is stored: a full ring is never taken  *)
(* for an empty one, however often both heads have wrapped around.         *)
HeadsCountTheBytes ==
    /\ taken <= sent
    /\ ReadSpace(read_head, write_head) = sent - taken
    /\ WriteSpace(read_head, write_head) = Size - 1 - (sent - taken)

(* The cells a memcpy() of the writer and one of the reader have yet to    *)
(* touch are disjoint, although both work from heads the other may have    *)
(* moved since: no byte is read while it is written.  It can only hold     *)
(* where loads are kept in order: else the reader may at any time be       *)
(* loading a cell that it has not checked yet, of this call or a later one.*)
WriterCells == {WriteCell(write_head, wsize, j) : j \in wtodo}
ReaderCells ==
    IF LoadsInOrder THEN {ReadCell(read_head, rsize, j) : j \in rtodo} ELSE Index
NoDataRace == WriterCells \cap ReaderCells = {}

(* Every byte a read or peek has copied is the right one of the stream:    *)
(* none lost, repeated, reordered, torn by the wrap or not yet written.    *)
CopiesNextBytes ==
    rop # "none" =>
        \A j \in (0..(rsize - 1)) \ rtodo : dst[j + 1] = taken + j + 1

(* The inductive invariant behind these.  A call under way still has the   *)
(* room or the bytes it found when it loaded the heads; the heads are as   *)
(* far apart as there are unread bytes; every unread cell, and every cell  *)
(* the write under way has copied, holds its byte of the stream.           *)
At(h, j) == IF h + j < Size THEN h + j ELSE h + j - Size

PromisesKept ==
    /\ taken <= sent
    /\ sent - taken + wsize <= Size - 1
    /\ sent + wsize <= MaxBytes
    /\ IF rop = "none" THEN rtodo = {} ELSE rsize \in 1..(sent - taken)
HeadsApart == write_head = At(read_head, sent - taken)
UnreadCells ==
    \A j \in 0..(sent - taken - 1) : buf[At(read_head, j)] = taken + j + 1
WrittenCells ==
    \A j \in (0..(wsize - 1)) \ wtodo : buf[At(write_head, j)] = sent + j + 1

RingInv ==
    /\ TypeOK
    /\ PromisesKept
    /\ HeadsApart
    /\ UnreadCells
    /\ WrittenCells
    /\ LoadsInOrder => CopiesNextBytes

(* What the ring holds between the heads, as the cells themselves say it.  *)
Stored ==
    [i \in 1..ReadSpace(read_head, write_head) |-> buf[(read_head + i - 1) % Size]]

Fifo == INSTANCE BoundedFifo WITH Capacity <- Size - 1, queue <- Stored

(* The ring is a FIFO of Size - 1 bytes: each call takes effect at the     *)
(* store that publishes its head, and no other step shows.                 *)
ImplementsFifo == Fifo!FifoSpec
=============================================================================
