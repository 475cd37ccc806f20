-------------------------- MODULE ZixRingRefinement --------------------------
(***************************************************************************)
(* The ring of ZixRing implements the atomic FIFO of BoundedFifo: for any  *)
(* size of the ring, and on a processor that keeps loads in order, every   *)
(* step of the two threads is a step of the FIFO or does not show.         *)
(***************************************************************************)
EXTENDS ZixRingProofs

(* The bytes of the stream that follow the a-th one.                       *)
Run(a, n) == [i \in 1..n |-> a + i]

LEMMA RunLen ==
    ASSUME NEW a \in Nat, NEW n \in Nat
    PROVE  Run(a, n) \in Seq(Nat) /\ Len(Run(a, n)) = n
BY DEF Run

LEMMA RunFront ==
    ASSUME NEW a \in Nat, NEW m \in Nat, NEW n \in 0..m
    PROVE  SubSeq(Run(a, m), 1, n) = Run(a, n)
BY DEF Run

LEMMA RunBack ==
    ASSUME NEW a \in Nat, NEW m \in Nat, NEW n \in 0..m
    PROVE  SubSeq(Run(a, m), n + 1, m) = Run(a + n, m - n)
BY DEF Run

LEMMA RunConcat ==
    ASSUME NEW a \in Nat, NEW m \in Nat, NEW n \in Nat
    PROVE  Run(a, m) \o Run(a + m, n) = Run(a, m + n)
BY DEF Run

(* The same of the bytes between two positions of the stream.              *)
Between(t, s) == Run(t, s - t)

LEMMA BetweenLen ==
    ASSUME NEW t \in Nat, NEW s \in Nat, t <= s
    PROVE  Between(t, s) \in Seq(Nat) /\ Len(Between(t, s)) = s - t
<1>1. s - t \in Nat
  OBVIOUS
<1>2. QED
  BY <1>1, RunLen DEF Between

LEMMA BetweenConcat ==
    ASSUME NEW t \in Nat, NEW s \in Nat, t <= s, NEW n \in Nat
    PROVE  Between(t, s) \o Run(s, n) = Between(t, s + n)
<1> DEFINE k == s - t
<1>1. k \in Nat /\ t + k = s /\ k + n = s + n - t
  OBVIOUS
<1>2. Between(t, s) = Run(t, k) /\ Between(t, s + n) = Run(t, k + n)
  BY <1>1 DEF Between
<1> HIDE DEF k
<1>3. Run(t, k) \o Run(t + k, n) = Run(t, k + n)
  BY <1>1, RunConcat
<1>4. Run(t + k, n) = Run(s, n)
  BY <1>1
<1>5. QED
  BY <1>2, <1>3, <1>4

LEMMA BetweenSplit ==
    ASSUME NEW t \in Nat, NEW s \in Nat, t <= s, NEW m \in 0..(s - t)
    PROVE  /\ SubSeq(Between(t, s), 1, m) = Run(t, m)
           /\ SubSeq(Between(t, s), m + 1, Len(Between(t, s))) = Between(t + m, s)
<1> DEFINE k == s - t
<1>1. k \in Nat /\ m \in 0..k /\ k - m = s - (t + m)
  OBVIOUS
<1>2. Between(t, s) = Run(t, k) /\ Between(t + m, s) = Run(t + m, k - m)
  BY <1>1 DEF Between
<1> HIDE DEF k
<1>3. Len(Run(t, k)) = k
  BY <1>1, RunLen
<1>4. SubSeq(Run(t, k), 1, m) = Run(t, m)
  BY <1>1, RunFront
<1>5. SubSeq(Run(t, k), m + 1, k) = Run(t + m, k - m)
  BY <1>1, RunBack
<1>6. QED
  BY <1>2, <1>3, <1>4, <1>5
-----------------------------------------------------------------------------
(* What the cells between the heads hold is the unread part of the stream. *)
StoredIsUnread == Stored = Between(taken, sent)

LEMMA StoredRun ==
    ASSUME RingInv
    PROVE  StoredIsUnread
<1> DEFINE n == sent - taken
<1>1. ReadSpace(read_head, write_head) = n /\ n \in 0..(Size - 1)
      /\ read_head \in Index /\ taken \in Nat /\ Size \in Nat \ {0}
  BY InvCounts, RingAssumption
<1>2. \A j \in 0..(n - 1) : buf[At(read_head, j)] = taken + j + 1
  BY DEF RingInv, UnreadCells
<1>3. Stored = [i \in 1..n |-> buf[(read_head + i - 1) % Size]]
  BY <1>1 DEF Stored
<1>4. Between(taken, sent) = [i \in 1..n |-> taken + i]
  BY DEF Between, Run
<1> HIDE DEF n
<1>5. ASSUME NEW i \in 1..n
      PROVE  buf[(read_head + i - 1) % Size] = taken + i
  <2> DEFINE j == i - 1
  <2>1. j \in 0..(n - 1) /\ j \in 0..(Size - 1) /\ i = j + 1 /\ read_head + i - 1 = read_head + j
    BY <1>1 DEF Index
  <2> HIDE DEF j
  <2>2. (read_head + j) % Size = At(read_head, j)
    BY <1>1, <2>1 DEF At, Index
  <2>3. taken + j + 1 = taken + i
    BY <1>1, <2>1
  <2>4. QED
    BY <1>2, <2>1, <2>2, <2>3
<1>6. QED
  BY <1>3, <1>4, <1>5 DEF StoredIsUnread

(* A completed copy is the run of bytes that comes next.                   *)
LEMMA CopiedRun ==
    ASSUME RingInv, LoadsInOrder, rop # "none", rtodo = {}
    PROVE  dst = Run(taken, rsize)
<1>1. dst \in [1..rsize -> Byte] /\ rsize \in Nat /\ taken \in Nat
  BY InvCounts DEF RingInv, TypeOK
<1>2. ASSUME NEW i \in 1..rsize
      PROVE  dst[i] = taken + i
  <2>1. i - 1 \in 0..(rsize - 1)
    BY <1>1
  <2>2. dst[(i - 1) + 1] = taken + (i - 1) + 1
    BY <2>1 DEF RingInv, CopiesNextBytes
  <2>3. QED
    BY <1>1, <2>2
<1>3. QED
  BY <1>1, <1>2 DEF Run

LEMMA StoredRunNext == RingInv' => StoredIsUnread'
<1>1. RingInv => StoredIsUnread
  BY StoredRun
<1>2. QED
  BY <1>1, PTL

(* A step that moves no head and publishes nothing does not show.          *)
LEMMA Hidden ==
    ASSUME RingInv, RingInv', UNCHANGED <<sent, taken, got>>
    PROVE  UNCHANGED Fifo!fifoVars
BY StoredRun, StoredRunNext DEF StoredIsUnread, Between, Run, Fifo!fifoVars

LEMMA InitFifo == Init => Fifo!FifoInit
<1> SUFFICES ASSUME Init PROVE Fifo!FifoInit
  OBVIOUS
<1>1. Stored = Between(taken, sent) /\ taken = 0 /\ sent = 0
  BY InitInv, StoredRun DEF Init, StoredIsUnread
<1>2. QED
  BY <1>1 DEF Init, Fifo!FifoInit, Between, Run

(* A completed write is Put.                                               *)
LEMMA WriteEndPuts ==
    ASSUME RingInv, RingInv', WriteEnd
    PROVE  Fifo!Put(wsize) /\ wsize \in 1..(Size - 1)
<1>1. /\ taken \in Nat /\ sent \in Nat /\ wsize \in 1..(Size - 1) /\ taken <= sent
      /\ (sent - taken) + wsize <= Size - 1 /\ sent + wsize <= MaxBytes
      /\ sent' = sent + wsize /\ taken' = taken /\ got' = got
  BY InvCounts DEF RingInv, PromisesKept, WriteEnd
<1>2. Stored = Between(taken, sent) /\ Stored' = Between(taken, sent + wsize)
  BY <1>1, StoredRun, StoredRunNext DEF StoredIsUnread, Between, Run
<1>3. wsize \in Nat
  BY <1>1
<1>4. Stored' = Stored \o Run(sent, wsize)
  BY <1>1, <1>2, <1>3, BetweenConcat
<1>5. Len(Stored) = sent - taken
  BY <1>1, <1>2, BetweenLen
<1>6. Len(Stored) + wsize <= Size - 1
  BY <1>1, <1>5
<1>7. QED
  BY <1>1, <1>4, <1>6 DEF Fifo!Put, Run

(* Advancing read_head by m cells removes the m oldest bytes.              *)
LEMMA AdvanceRemoves ==
    ASSUME RingInv, RingInv', NEW m \in 1..(sent - taken), taken' = taken + m, sent' = sent
    PROVE  /\ m <= Len(Stored) /\ m \in 1..(Size - 1)
           /\ Stored' = SubSeq(Stored, m + 1, Len(Stored))
           /\ SubSeq(Stored, 1, m) = Run(taken, m)
<1>1. /\ taken \in Nat /\ sent \in Nat /\ taken <= sent /\ sent - taken \in 0..(Size - 1)
      /\ Size \in Nat
  BY InvCounts, RingAssumption DEF RingInv, PromisesKept
<1>2. m \in 0..(sent - taken) /\ m \in 1..(Size - 1) /\ m <= sent - taken
  BY <1>1
<1>3. Stored = Between(taken, sent) /\ Stored' = Between(taken + m, sent)
  BY StoredRun, StoredRunNext DEF StoredIsUnread, Between, Run
<1>4. Len(Stored) = sent - taken
  BY <1>1, <1>3, BetweenLen
<1>5. Stored' = SubSeq(Stored, m + 1, Len(Stored)) /\ SubSeq(Stored, 1, m) = Run(taken, m)
  BY <1>1, <1>2, <1>3, BetweenSplit
<1>6. QED
  BY <1>2, <1>4, <1>5

LEMMA ReadEndGets ==
    ASSUME RingInv, RingInv', LoadsInOrder, ReadEnd
    PROVE  Fifo!Get(rsize) /\ rsize \in 1..(Size - 1)
<1>1. rsize \in 1..(sent - taken) /\ taken' = taken + rsize /\ sent' = sent /\ got' = dst
  BY DEF RingInv, PromisesKept, ReadEnd
<1>2. dst = Run(taken, rsize)
  BY CopiedRun DEF ReadEnd
<1>3. QED
  BY <1>1, <1>2, AdvanceRemoves DEF Fifo!Get

LEMMA PeekEndPeeks ==
    ASSUME RingInv, RingInv', LoadsInOrder, PeekEnd
    PROVE  Fifo!Peek(rsize) /\ rsize \in 1..(Size - 1)
<1>1. /\ taken \in Nat /\ sent \in Nat /\ taken <= sent /\ sent - taken \in 0..(Size - 1)
      /\ rsize \in 1..(sent - taken) /\ Size \in Nat
      /\ sent' = sent /\ taken' = taken /\ got' = dst
  BY InvCounts, RingAssumption DEF RingInv, PromisesKept, PeekEnd
<1>2. rsize \in 0..(sent - taken) /\ rsize \in 1..(Size - 1) /\ rsize <= sent - taken
  BY <1>1
<1>3. dst = Run(taken, rsize)
  BY CopiedRun DEF PeekEnd
<1>4. Stored = Between(taken, sent) /\ Stored' = Stored
  BY <1>1, StoredRun, StoredRunNext DEF StoredIsUnread, Between, Run
<1>5. Len(Stored) = sent - taken
  BY <1>1, <1>4, BetweenLen
<1>6. SubSeq(Stored, 1, rsize) = Run(taken, rsize)
  BY <1>1, <1>2, <1>4, BetweenSplit
<1>7. QED
  BY <1>1, <1>2, <1>3, <1>4, <1>5, <1>6 DEF Fifo!Peek

LEMMA SkipDrops ==
    ASSUME RingInv, RingInv', NEW n \in 1..Size, Skip(n)
    PROVE  Fifo!Drop(n) /\ n \in 1..(Size - 1)
<1>1. n \in 1..(sent - taken) /\ taken' = taken + n /\ sent' = sent /\ got' = got
  BY InvCounts DEF Skip
<1>2. QED
  BY <1>1, AdvanceRemoves DEF Fifo!Drop

LEMMA ResetClears ==
    ASSUME RingInv, RingInv', Reset
    PROVE  Fifo!Clear
<1>1. sent \in Nat /\ taken' = sent /\ sent' = sent /\ got' = got
  BY InvCounts DEF Reset
<1>2. Stored' = Between(sent, sent)
  BY <1>1, StoredRunNext DEF StoredIsUnread, Between, Run
<1>3. QED
  BY <1>1, <1>2 DEF Fifo!Clear, Between, Run

(* Every step of the ring is a step of the FIFO or a stutter.              *)
LEMMA StepRefines ==
    ASSUME LoadsInOrder, RingInv, RingInv', [Next]_vars
    PROVE  [Fifo!FifoNext]_Fifo!fifoVars
<1>1. CASE Writer
  <2>1. CASE WriteEnd
    BY <2>1, WriteEndPuts DEF Fifo!FifoNext
  <2>2. CASE (\E n \in 1..Size : WriteBegin(n)) \/ (\E j \in Index : WriteCopy(j))
    BY <2>2, Hidden DEF WriteBegin, WriteCopy
  <2>3. QED
    BY <1>1, <2>1, <2>2 DEF Writer
<1>2. CASE Reader
  <2>1. CASE \/ \E op \in {"peek", "read"}, n \in 1..Size : ReadBegin(op, n)
             \/ \E j \in Index : ReadCopy(j)
    BY <2>1, Hidden DEF ReadBegin, ReadCopy
  <2>2. CASE PeekEnd
    BY <2>2, PeekEndPeeks DEF Fifo!FifoNext
  <2>3. CASE ReadEnd
    BY <2>3, ReadEndGets DEF Fifo!FifoNext
  <2>4. CASE \E n \in 1..Size : Skip(n)
    BY <2>4, SkipDrops DEF Fifo!FifoNext
  <2>5. QED
    BY <1>2, <2>1, <2>2, <2>3, <2>4 DEF Reader
<1>3. CASE Reset
  BY <1>3, ResetClears DEF Fifo!FifoNext
<1>4. CASE UNCHANGED vars
  BY <1>4, Hidden DEF vars
<1>5. QED
  BY <1>1, <1>2, <1>3, <1>4 DEF Next

(* The ring implements the FIFO.                                           *)
THEOREM RingRefinesFifo ==
    ASSUME LoadsInOrder
    PROVE  Spec => ImplementsFifo
<1>1. RingInv /\ RingInv' /\ [Next]_vars => [Fifo!FifoNext]_Fifo!fifoVars
  BY StepRefines
<1>2. QED
  BY <1>1, InitFifo, RingInvariant, PTL DEF Spec, ImplementsFifo, Fifo!FifoSpec
=============================================================================
