---------------------------- MODULE ZixRingProofs ----------------------------
(***************************************************************************)
(* Proofs about the ring of ZixRing, for every size of the ring and every  *)
(* length of the stream, by way of the inductive invariant RingInv.        *)
(***************************************************************************)
EXTENDS ZixRing, TLAPS

USE RingAssumption

(* & size_mask of an index that has gone round at most once.               *)
LEMMA WrapOnce ==
    ASSUME NEW x \in 0..(2 * Size - 1)
    PROVE  x % Size = IF x < Size THEN x ELSE x - Size
BY SMTT(30)

(* Stepping from a cell stays in the ring, and steps add up.               *)
LEMMA AtIndex ==
    ASSUME NEW h \in Index, NEW j \in 0..(Size - 1)
    PROVE  /\ At(h, j) \in Index
           /\ \A k \in 0..(Size - 1) : j + k < Size => At(At(h, j), k) = At(h, j + k)
BY DEF At, Index

(* Distinct offsets below Size are distinct cells.                         *)
LEMMA AtInjective ==
    ASSUME NEW h \in Index, NEW j \in 0..(Size - 1), NEW k \in 0..(Size - 1), j # k
    PROVE  At(h, j) # At(h, k)
BY DEF At, Index

(* read_space_internal() and write_space_internal() return what is stored  *)
(* and what is free, when the heads are n cells apart.                     *)
LEMMA Spaces ==
    ASSUME NEW r \in Index, NEW n \in 0..(Size - 1)
    PROVE  /\ ReadSpace(r, At(r, n)) = n
           /\ WriteSpace(r, At(r, n)) = Size - 1 - n
<1> DEFINE w == At(r, n)
<1>1. w \in Index
  BY AtIndex
<1>2. r >= w => w - r + Size \in 0..(2 * Size - 1)
  BY <1>1 DEF Index
<1>3. r < w => r - w + Size \in 0..(2 * Size - 1)
  BY <1>1 DEF Index
<1>4. CASE r < w
  BY <1>1, <1>3, <1>4, WrapOnce DEF ReadSpace, WriteSpace, Index, At
<1>5. CASE r = w
  <2>1. n = 0
    BY <1>5 DEF At, Index
  <2>2. (w - r + Size) % Size = 0
    BY <1>2, <1>5, WrapOnce DEF Index
  <2>3. QED
    BY <1>1, <1>5, <2>1, <2>2 DEF ReadSpace, WriteSpace, Index
<1>6. CASE r > w
  <2>1. w = r + n - Size
    BY <1>6 DEF At, Index
  <2>2. (w - r + Size) % Size = n
    BY <1>2, <1>6, <2>1, WrapOnce DEF Index
  <2>3. QED
    BY <1>1, <1>6, <2>1, <2>2 DEF ReadSpace, WriteSpace, Index
<1>7. QED
  BY <1>1, <1>4, <1>5, <1>6 DEF Index

(* Both memcpy() splits address the cells that follow the head in order.   *)
LEMMA Cells ==
    ASSUME NEW h \in Index, NEW n \in 1..(Size - 1), NEW j \in 0..(n - 1)
    PROVE  WriteCell(h, n, j) = At(h, j) /\ ReadCell(h, n, j) = At(h, j)
BY DEF WriteCell, ReadCell, At, Index

(* Both ways of advancing a head by n cells agree with stepping n cells.   *)
LEMMA HeadsAfter ==
    ASSUME NEW h \in Index, NEW n \in 1..(Size - 1)
    PROVE  WriteHeadAfter(h, n) = At(h, n) /\ ReadHeadAfter(h, n) = At(h, n)
<1>1. h + n \in 0..(2 * Size - 1)
  BY DEF Index
<1>2. QED
  BY <1>1, WrapOnce DEF WriteHeadAfter, ReadHeadAfter, At, Index
-----------------------------------------------------------------------------
(* The invariant holds at first, and each step preserves it.               *)
LEMMA InitInv == Init => RingInv
BY DEF Init, RingInv, TypeOK, PromisesKept, HeadsApart, UnreadCells, WrittenCells,
       CopiesNextBytes, Index, Byte, Garbage, At

(* What RingInv says of the counts, and of the spaces a call finds.        *)
LEMMA InvCounts ==
    ASSUME RingInv
    PROVE  /\ sent \in Nat /\ taken \in Nat
           /\ wsize \in 0..(Size - 1) /\ rsize \in 0..(Size - 1)
           /\ sent - taken \in 0..(Size - 1)
           /\ sent - taken + wsize \in 0..(Size - 1)
           /\ sent + wsize \in Byte
           /\ write_head \in Index /\ read_head \in Index
           /\ ReadSpace(read_head, write_head) = sent - taken
           /\ WriteSpace(read_head, write_head) = Size - 1 - (sent - taken)
<1>1. sent - taken \in 0..(Size - 1)
  BY DEF RingInv, TypeOK, PromisesKept, Byte
<1>2. QED
  BY <1>1, Spaces DEF RingInv, TypeOK, PromisesKept, HeadsApart, Byte

LEMMA WriteBeginInv ==
    ASSUME RingInv, NEW n \in 1..Size, WriteBegin(n)
    PROVE  RingInv'
<1>1. n <= Size - 1 - (sent - taken)
  BY InvCounts DEF WriteBegin
<1>2. TypeOK'
  BY <1>1, InvCounts DEF RingInv, TypeOK, WriteBegin, readerVars
<1>3. PromisesKept'
  BY <1>1, InvCounts DEF RingInv, PromisesKept, WriteBegin, readerVars
<1>4. HeadsApart' /\ UnreadCells'
  BY DEF RingInv, HeadsApart, UnreadCells, WriteBegin, At
<1>5. WrittenCells'
  BY DEF WrittenCells, WriteBegin
<1>6. CopiesNextBytes => CopiesNextBytes'
  BY DEF CopiesNextBytes, WriteBegin, readerVars
<1>7. QED
  BY <1>2, <1>3, <1>4, <1>5, <1>6 DEF RingInv

LEMMA WriteCopyInv ==
    ASSUME RingInv, NEW j \in Index, WriteCopy(j)
    PROVE  RingInv'
<1> DEFINE c == At(write_head, j)
           n == sent - taken
<1>1. /\ j \in 0..(wsize - 1) /\ wsize \in 1..(Size - 1) /\ j \in 0..(Size - 1)
      /\ n \in 0..(Size - 1) /\ n + j \in 0..(Size - 1)
      /\ write_head \in Index /\ read_head \in Index
      /\ write_head = At(read_head, n)
      /\ sent \in Nat
  <2>1. j \in 0..(wsize - 1)
    BY DEF RingInv, TypeOK, WriteCopy
  <2>2. QED
    BY <2>1, InvCounts DEF RingInv, HeadsApart
<1>2. sent + j + 1 \in Byte
  BY <1>1, InvCounts DEF Byte
<1>3. \A k \in 0..(n - 1) : buf[At(read_head, k)] = taken + k + 1
  BY DEF RingInv, UnreadCells
<1> HIDE DEF n
<1>4. c \in Index /\ c = At(read_head, n + j)
  BY <1>1, AtIndex
<1>5. buf' = [buf EXCEPT ![c] = sent + j + 1]
  BY <1>1, Cells DEF WriteCopy
<1>6. \A k \in 0..(n - 1) : At(read_head, k) # c
  BY <1>1, <1>4, AtInjective
<1>7. \A k \in 0..(wsize - 1) : k # j => At(write_head, k) # c
  BY <1>1, AtInjective
<1> HIDE DEF c
<1>8. buf \in [Index -> Byte]
  BY DEF RingInv, TypeOK
<1>9. TypeOK'
  BY <1>2, <1>4, <1>5, <1>8 DEF RingInv, TypeOK, WriteCopy, readerVars
<1>10. PromisesKept' /\ HeadsApart'
  BY DEF RingInv, PromisesKept, HeadsApart, WriteCopy, readerVars, At
<1>11. UnreadCells'
  <2>1. \A k \in 0..(n - 1) : buf'[At(read_head, k)] = taken + k + 1
    BY <1>1, <1>3, <1>5, <1>6, <1>8, AtIndex
  <2>2. QED
    BY <2>1 DEF UnreadCells, WriteCopy, At, n
<1>12. WrittenCells'
  <2>1. \A k \in (0..(wsize - 1)) \ wtodo' : buf'[At(write_head, k)] = sent + k + 1
    <3> SUFFICES ASSUME NEW k \in (0..(wsize - 1)) \ wtodo'
                 PROVE  buf'[At(write_head, k)] = sent + k + 1
      OBVIOUS
    <3>1. At(write_head, k) \in Index
      BY <1>1, AtIndex
    <3>2. CASE k = j
      BY <1>5, <1>8, <3>1, <3>2 DEF c
    <3>3. CASE k # j
      <4>1. buf[At(write_head, k)] = sent + k + 1
        BY <3>3 DEF RingInv, WrittenCells, WriteCopy
      <4>2. QED
        BY <1>5, <1>7, <1>8, <3>1, <3>3, <4>1
    <3>4. QED
      BY <3>2, <3>3
  <2>2. QED
    BY <2>1 DEF WrittenCells, WriteCopy, At
<1>13. CopiesNextBytes => CopiesNextBytes'
  BY DEF CopiesNextBytes, WriteCopy, readerVars
<1>14. QED
  BY <1>9, <1>10, <1>11, <1>12, <1>13 DEF RingInv

LEMMA WriteEndInv ==
    ASSUME RingInv, WriteEnd
    PROVE  RingInv'
<1> DEFINE n == sent - taken
<1>1. /\ wsize \in 1..(Size - 1) /\ sent + wsize \in Byte
      /\ n \in 0..(Size - 1) /\ n + wsize \in 0..(Size - 1)
      /\ write_head \in Index /\ read_head \in Index
      /\ write_head = At(read_head, n)
      /\ sent = taken + n /\ sent \in Nat /\ taken \in Nat
  BY InvCounts DEF WriteEnd, RingInv, HeadsApart
<1>2. \A k \in 0..(n - 1) : buf[At(read_head, k)] = taken + k + 1
  BY DEF RingInv, UnreadCells
<1>3. \A k \in 0..(wsize - 1) : buf[At(write_head, k)] = sent + k + 1
  BY DEF RingInv, WrittenCells, WriteEnd
<1>4. n' = n + wsize /\ wsize' = 0 /\ taken' = taken /\ n' = sent' - taken
  BY <1>1 DEF WriteEnd
<1> HIDE DEF n
<1>5. \A k \in 0..(Size - 1) : n + k < Size => At(write_head, k) = At(read_head, n + k)
  BY <1>1, AtIndex
<1>6. write_head' = At(write_head, wsize) /\ write_head' \in Index
  BY <1>1, HeadsAfter, AtIndex DEF WriteEnd
<1>7. write_head' = At(read_head, n + wsize)
  BY <1>1, <1>5, <1>6
<1>8. TypeOK'
  BY <1>1, <1>6 DEF RingInv, TypeOK, WriteEnd, readerVars
<1>9. PromisesKept'
  <2>1. sent' - taken' = sent + wsize - taken /\ sent' - taken' + wsize' <= Size - 1
    BY <1>1 DEF WriteEnd, n
  <2>2. taken' <= sent' /\ sent' + wsize' <= MaxBytes
    BY <1>1 DEF WriteEnd, Byte, n
  <2>3. rop # "none" => rsize <= sent + wsize - taken
    BY <1>1, InvCounts DEF RingInv, PromisesKept, n
  <2>4. QED
    BY <2>1, <2>2, <2>3 DEF RingInv, PromisesKept, WriteEnd, readerVars
<1>10. HeadsApart'
  BY <1>4, <1>7 DEF HeadsApart, WriteEnd, At, n
<1>11. UnreadCells'
  <2> DEFINE m == sent' - taken'
  <2>1. taken' = taken /\ read_head' = read_head /\ buf' = buf
    BY DEF WriteEnd
  <2>2. m = n + wsize
    BY <1>1, <2>1 DEF WriteEnd
  <2> HIDE DEF m
  <2>3. \A k \in 0..(m - 1) : buf[At(read_head, k)] = taken + k + 1
    <3> SUFFICES ASSUME NEW k \in 0..(m - 1)
                 PROVE  buf[At(read_head, k)] = taken + k + 1
      OBVIOUS
    <3>1. CASE k < n
      BY <1>1, <1>2, <2>2, <3>1
    <3>2. CASE k >= n
      <4> DEFINE d == k - n
      <4>1. d \in 0..(wsize - 1) /\ d \in 0..(Size - 1) /\ n + d = k /\ k < Size
        BY <1>1, <2>2, <3>2
      <4> HIDE DEF d
      <4>2. At(write_head, d) = At(read_head, k)
        BY <1>5, <4>1
      <4>3. sent + d + 1 = taken + k + 1
        BY <1>1, <4>1
      <4>4. QED
        BY <1>3, <4>1, <4>2, <4>3
    <3>3. QED
      BY <1>1, <2>2, <3>1, <3>2
  <2>4. QED
    BY <2>1, <2>3 DEF UnreadCells, At, m
<1>12. WrittenCells'
  BY <1>4 DEF WrittenCells
<1>13. CopiesNextBytes => CopiesNextBytes'
  BY DEF CopiesNextBytes, WriteEnd, readerVars
<1>14. QED
  BY <1>8, <1>9, <1>10, <1>11, <1>12, <1>13 DEF RingInv

LEMMA ReadBeginInv ==
    ASSUME RingInv, NEW op \in {"peek", "read"}, NEW n \in 1..Size, ReadBegin(op, n)
    PROVE  RingInv'
<1>1. n <= sent - taken /\ n \in 0..(Size - 1)
  BY InvCounts DEF ReadBegin
<1>2. TypeOK'
  <2>1. dst' \in [1..rsize' -> Byte]
    BY DEF ReadBegin, Byte, Garbage
  <2>2. QED
    BY <1>1, <2>1 DEF RingInv, TypeOK, ReadBegin, writerVars
<1>3. PromisesKept'
  BY <1>1 DEF RingInv, PromisesKept, ReadBegin, writerVars
<1>4. HeadsApart' /\ UnreadCells' /\ WrittenCells'
  BY DEF RingInv, HeadsApart, UnreadCells, WrittenCells, ReadBegin, writerVars, At
<1>5. CopiesNextBytes'
  BY DEF CopiesNextBytes, ReadBegin
<1>6. QED
  BY <1>2, <1>3, <1>4, <1>5 DEF RingInv

LEMMA ReadCopyInv ==
    ASSUME RingInv, NEW j \in Index, ReadCopy(j)
    PROVE  RingInv'
<1> DEFINE c == ReadCell(read_head, rsize, j)
<1>1. PICK b \in Loadable(c) : dst' = [dst EXCEPT ![j + 1] = b]
  BY DEF ReadCopy
<1>2. j \in 0..(rsize - 1) /\ rsize \in 1..(Size - 1) /\ rop # "none" /\ j + 1 \in 1..rsize
  <2>1. j \in 0..(rsize - 1) /\ rop # "none"
    BY DEF RingInv, TypeOK, PromisesKept, ReadCopy
  <2>2. QED
    BY <2>1, InvCounts
<1>3. c = At(read_head, j) /\ c \in Index
  <2>1. read_head \in Index /\ j \in 0..(Size - 1)
    BY <1>2, InvCounts
  <2>2. QED
    BY <1>2, <2>1, Cells, AtIndex
<1> HIDE DEF c
<1>4. b \in Byte
  BY <1>1, <1>3 DEF RingInv, TypeOK, Loadable
<1>5. TypeOK'
  BY <1>1, <1>4 DEF RingInv, TypeOK, ReadCopy, writerVars
<1>6. PromisesKept' /\ HeadsApart' /\ UnreadCells' /\ WrittenCells'
  BY <1>2 DEF RingInv, PromisesKept, HeadsApart, UnreadCells, WrittenCells, ReadCopy,
              writerVars, At
<1>7. LoadsInOrder => CopiesNextBytes'
  <2> SUFFICES ASSUME LoadsInOrder, NEW k \in (0..(rsize - 1)) \ rtodo'
               PROVE  dst'[k + 1] = taken + k + 1
    BY DEF CopiesNextBytes, ReadCopy
  <2>1. dst \in [1..rsize -> Byte] /\ k \in 0..(rsize - 1) /\ k + 1 \in 1..rsize
    BY <1>2 DEF RingInv, TypeOK
  <2>2. CASE k = j
    <3>1. b = buf[c]
      BY <1>1 DEF Loadable
    <3>2. j \in 0..(sent - taken - 1)
      BY <1>2, InvCounts DEF RingInv, PromisesKept
    <3>3. buf[c] = taken + j + 1
      BY <1>3, <3>2 DEF RingInv, UnreadCells
    <3>4. QED
      BY <1>1, <1>2, <2>1, <2>2, <3>1, <3>3
  <2>3. CASE k # j
    <3>1. dst[k + 1] = taken + k + 1
      BY <1>2, <2>3 DEF RingInv, CopiesNextBytes, ReadCopy
    <3>2. QED
      BY <1>1, <1>2, <2>1, <2>3, <3>1
  <2>4. QED
    BY <2>2, <2>3
<1>8. QED
  BY <1>5, <1>6, <1>7 DEF RingInv

LEMMA PeekEndInv ==
    ASSUME RingInv, PeekEnd
    PROVE  RingInv'
<1>1. dst \in Seq(Byte)
  BY InvCounts DEF RingInv, TypeOK
<1>2. TypeOK'
  BY <1>1 DEF RingInv, TypeOK, PeekEnd, writerVars
<1>3. PromisesKept' /\ HeadsApart' /\ UnreadCells' /\ WrittenCells' /\ CopiesNextBytes'
  BY DEF RingInv, PromisesKept, HeadsApart, UnreadCells, WrittenCells, CopiesNextBytes,
         PeekEnd, writerVars, At
<1>4. QED
  BY <1>2, <1>3 DEF RingInv

(* Reading and skipping move read_head alike.                              *)
LEMMA AdvanceReadHead ==
    ASSUME RingInv, NEW n \in 1..(sent - taken),
           read_head' = ReadHeadAfter(read_head, n), taken' = taken + n,
           UNCHANGED <<write_head, buf, sent, writerVars>>
    PROVE  /\ read_head' \in Index /\ taken' \in Byte
           /\ taken' <= sent' /\ sent' - taken' + wsize' <= Size - 1
           /\ HeadsApart' /\ UnreadCells' /\ WrittenCells'
<1> DEFINE m == sent - taken
<1>1. /\ m \in 0..(Size - 1) /\ n \in 1..(Size - 1) /\ m - n \in 0..(Size - 1)
      /\ sent \in Nat /\ taken \in Nat /\ read_head \in Index
      /\ m + wsize <= Size - 1 /\ wsize \in Nat
  BY InvCounts
<1>2. write_head = At(read_head, m)
  BY DEF RingInv, HeadsApart
<1>3. \A k \in 0..(m - 1) : buf[At(read_head, k)] = taken + k + 1
  BY DEF RingInv, UnreadCells
<1>4. sent' - taken' = m - n /\ sent' \in Nat /\ taken' \in Nat /\ taken' \in Byte
  BY <1>1, InvCounts DEF RingInv, TypeOK, Byte
<1> HIDE DEF m
<1>5. read_head' = At(read_head, n) /\ read_head' \in Index
  BY <1>1, HeadsAfter, AtIndex
<1>6. \A k \in 0..(Size - 1) : n + k < Size => At(read_head', k) = At(read_head, n + k)
  BY <1>1, <1>5, AtIndex
<1>7. HeadsApart'
  <2>1. At(read_head', m - n) = At(read_head, m)
    BY <1>1, <1>6
  <2>2. QED
    BY <1>2, <1>4, <2>1 DEF HeadsApart, At
<1>8. UnreadCells'
  <2>1. \A k \in 0..(m - n - 1) : buf[At(read_head', k)] = taken + n + k + 1
    <3> SUFFICES ASSUME NEW k \in 0..(m - n - 1)
                 PROVE  buf[At(read_head', k)] = taken + n + k + 1
      OBVIOUS
    <3>1. n + k \in 0..(m - 1) /\ k \in 0..(Size - 1) /\ n + k < Size
      BY <1>1
    <3>2. QED
      BY <1>1, <1>3, <1>6, <3>1
  <2>2. 0..(sent' - taken' - 1) = 0..(m - n - 1)
    BY <1>1, <1>4
  <2>3. \A k \in 0..(sent' - taken' - 1) : buf'[At(read_head', k)] = taken' + k + 1
    BY <2>1, <2>2
  <2>4. QED
    BY <2>3 DEF UnreadCells, At
<1>9. WrittenCells'
  BY DEF RingInv, WrittenCells, writerVars, At
<1>10. QED
  BY <1>1, <1>4, <1>5, <1>7, <1>8, <1>9 DEF writerVars

LEMMA ReadEndInv ==
    ASSUME RingInv, ReadEnd
    PROVE  RingInv'
<1>1. rsize \in 1..(sent - taken)
  BY DEF RingInv, PromisesKept, ReadEnd
<1>2. /\ read_head' \in Index /\ taken' \in Byte
      /\ taken' <= sent' /\ sent' - taken' + wsize' <= Size - 1
      /\ HeadsApart' /\ UnreadCells' /\ WrittenCells'
  BY <1>1, AdvanceReadHead DEF ReadEnd
<1>3. dst \in Seq(Byte)
  BY InvCounts DEF RingInv, TypeOK
<1>4. TypeOK'
  BY <1>2, <1>3 DEF RingInv, TypeOK, ReadEnd, writerVars
<1>5. PromisesKept' /\ CopiesNextBytes'
  BY <1>2 DEF RingInv, PromisesKept, CopiesNextBytes, ReadEnd, writerVars
<1>6. QED
  BY <1>2, <1>4, <1>5 DEF RingInv

LEMMA SkipInv ==
    ASSUME RingInv, NEW n \in 1..Size, Skip(n)
    PROVE  RingInv'
<1>1. n \in 1..(sent - taken)
  BY InvCounts DEF Skip
<1>2. /\ read_head' \in Index /\ taken' \in Byte
      /\ taken' <= sent' /\ sent' - taken' + wsize' <= Size - 1
      /\ HeadsApart' /\ UnreadCells' /\ WrittenCells'
  BY <1>1, AdvanceReadHead DEF Skip
<1>3. TypeOK'
  BY <1>2 DEF RingInv, TypeOK, Skip, writerVars, readerVars
<1>4. PromisesKept' /\ CopiesNextBytes'
  BY <1>2 DEF RingInv, PromisesKept, CopiesNextBytes, Skip, writerVars, readerVars
<1>5. QED
  BY <1>2, <1>3, <1>4 DEF RingInv

LEMMA ResetInv ==
    ASSUME RingInv, Reset
    PROVE  RingInv'
<1>1. sent' - taken' = 0 /\ wsize' = 0 /\ sent' \in Byte
  BY InvCounts DEF RingInv, TypeOK, Reset, writerVars
<1>2. TypeOK'
  BY DEF RingInv, TypeOK, Reset, writerVars, readerVars, Index
<1>3. PromisesKept'
  BY <1>1 DEF RingInv, PromisesKept, Reset, writerVars, readerVars, Byte
<1>4. HeadsApart' /\ UnreadCells' /\ WrittenCells' /\ CopiesNextBytes'
  BY <1>1 DEF HeadsApart, UnreadCells, WrittenCells, CopiesNextBytes, Reset, writerVars,
              readerVars, At
<1>5. QED
  BY <1>2, <1>3, <1>4 DEF RingInv
-----------------------------------------------------------------------------
(* RingInv holds in every reachable state, on every processor.             *)
THEOREM RingInvariant == Spec => []RingInv
<1>1. RingInv /\ [Next]_vars => RingInv'
  <2> SUFFICES ASSUME RingInv, [Next]_vars PROVE RingInv'
    OBVIOUS
  <2>1. CASE Writer
    BY <2>1, WriteBeginInv, WriteCopyInv, WriteEndInv DEF Writer
  <2>2. CASE Reader
    BY <2>2, ReadBeginInv, ReadCopyInv, PeekEndInv, ReadEndInv, SkipInv DEF Reader
  <2>3. CASE Reset
    BY <2>3, ResetInv
  <2>4. CASE UNCHANGED vars
    BY <2>4 DEF RingInv, TypeOK, PromisesKept, HeadsApart, UnreadCells, WrittenCells,
                CopiesNextBytes, vars, writerVars, readerVars, At
  <2>5. QED
    BY <2>1, <2>2, <2>3, <2>4 DEF Next
<1>2. QED
  BY <1>1, InitInv, PTL DEF Spec

(* Every variable keeps its type.                                          *)
THEOREM TypeCorrect == Spec => []TypeOK
<1>1. RingInv => TypeOK
  BY DEF RingInv
<1>2. QED
  BY <1>1, RingInvariant, PTL

(* The heads alone tell how much is stored: the ring never takes full for  *)
(* empty.                                                                  *)
THEOREM HeadsCount == Spec => []HeadsCountTheBytes
<1>1. RingInv => HeadsCountTheBytes
  BY InvCounts DEF RingInv, PromisesKept, HeadsCountTheBytes
<1>2. QED
  BY <1>1, RingInvariant, PTL

(* On a processor that keeps loads in order, the writer's memcpy() and the *)
(* reader's never touch the same cell.                                     *)
THEOREM NoRace ==
    ASSUME LoadsInOrder
    PROVE  Spec => []NoDataRace
<1>1. RingInv => NoDataRace
  <2> SUFFICES ASSUME RingInv, NEW i \in wtodo, NEW j \in rtodo
               PROVE  WriteCell(write_head, wsize, i) # ReadCell(read_head, rsize, j)
    BY DEF NoDataRace, WriterCells, ReaderCells
  <2> DEFINE n == sent - taken
  <2>1. i \in 0..(wsize - 1) /\ j \in 0..(rsize - 1) /\ rsize <= n
    BY DEF RingInv, TypeOK, PromisesKept
  <2>2. /\ n \in 0..(Size - 1) /\ n + i \in 0..(Size - 1) /\ j < n
        /\ i \in 0..(Size - 1) /\ j \in 0..(Size - 1)
        /\ wsize \in 1..(Size - 1) /\ rsize \in 1..(Size - 1)
        /\ write_head \in Index /\ read_head \in Index
    BY <2>1, InvCounts
  <2>3. write_head = At(read_head, n)
    BY DEF RingInv, HeadsApart
  <2> HIDE DEF n
  <2>4. WriteCell(write_head, wsize, i) = At(read_head, n + i)
    BY <2>1, <2>2, <2>3, Cells, AtIndex
  <2>5. ReadCell(read_head, rsize, j) = At(read_head, j)
    BY <2>1, <2>2, Cells
  <2>6. QED
    BY <2>2, <2>4, <2>5, AtInjective
<1>2. QED
  BY <1>1, RingInvariant, PTL

(* On a processor that keeps loads in order, what a read or peek copies is *)
(* the next part of the stream.                                            *)
THEOREM ReadsAreFifo ==
    ASSUME LoadsInOrder
    PROVE  Spec => []CopiesNextBytes
<1>1. RingInv => CopiesNextBytes
  BY DEF RingInv
<1>2. QED
  BY <1>1, RingInvariant, PTL
=============================================================================
