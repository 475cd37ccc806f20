-------------------------- MODULE JalvWorkerProofs --------------------------
(***************************************************************************)
(* Proofs about the worker extension of JalvWorker, for rings of any size, *)
(* requests and responses of any sizes and any number of them, by way of   *)
(* the inductive invariants ThreadsInv, TypeInv and OrderInv.               *)
(***************************************************************************)
EXTENDS JalvWorker, SequenceTheorems, DataLemmas, TLAPS

USE DEF Threads, Goto, InWork, HostPcs, AudioPcs, WorkerPcs

LEMMA InitThreads == Init => ThreadsInv
BY DEF Init, ThreadsInv, WorkExclusive, Workers, RingsAt, Starting, Stopping

(* Creating the instance: the thread sleeps until every ring is there.     *)
LEMMA WorkerInitThreads ==
    ASSUME ThreadsInv, WorkerInit
    PROVE  ThreadsInv'
<1>1. CASE CreateThread
  BY <1>1 DEF CreateThread, ThreadsInv, WorkExclusive, RingsAt, Starting, Stopping, hostVars,
              semVars, emitVars, data
<1>2. CASE NewRing("new_requests", "requests", "new_responses")
  BY <1>2 DEF NewRing, ThreadsInv, WorkExclusive, RingsAt, Starting, Stopping, semVars, emitVars
<1>3. CASE NewRing("new_responses", "worker", "new_state_responses")
  BY <1>3 DEF NewRing, ThreadsInv, WorkExclusive, RingsAt, Starting, Stopping, semVars, emitVars
<1>4. CASE NewRing("new_state_responses", "state", "idle")
  BY <1>4 DEF NewRing, ThreadsInv, WorkExclusive, RingsAt, Starting, Stopping, semVars, emitVars
<1>5. QED
  BY <1>1, <1>2, <1>3, <1>4 DEF WorkerInit

(* Restoring a state, and deleting the instance.                           *)
LEMMA HostThreads ==
    ThreadsInv /\ (Restore \/ Delete \/ FinishPost \/ FinishJoin \/ Destroy) => ThreadsInv'
BY DEF Restore, Delete, FinishPost, FinishJoin, Destroy, ThreadsInv, WorkExclusive, RingsAt,
       Starting, Stopping, Workers, hostVars, semVars, emitVars, data

(* work(), in either thread.                                               *)
LEMMA WorkThreads ==
    ASSUME ThreadsInv, NEW t \in {"host", "worker"}, Work(t)
    PROVE  ThreadsInv'
<1>1. CASE WorkLock(t)
  BY <1>1 DEF WorkLock, ThreadsInv, WorkExclusive, RingsAt, Starting, Stopping, Workers,
              hostVars, semVars, emitVars
<1>2. CASE WorkUnlock(t)
  BY <1>2 DEF WorkUnlock, ThreadsInv, WorkExclusive, RingsAt, Starting, Stopping, Workers,
              hostVars, semVars, emitVars
<1>3. CASE \E n \in ResponseSizes : RespondSize(t, n)
  BY <1>3 DEF RespondSize, ThreadsInv, WorkExclusive, RingsAt, Starting, Stopping, Workers,
              hostVars, semVars, emitVars
<1>4. CASE RespondBody(t)
  BY <1>4 DEF RespondBody, ThreadsInv, WorkExclusive, RingsAt, Starting, Stopping, Workers,
              hostVars, semVars, emitVars
<1>5. QED
  BY <1>1, <1>2, <1>3, <1>4 DEF Work

(* worker_func() around work().                                            *)
LEMMA WorkerFuncThreads ==
    ThreadsInv /\ (Wait \/ CheckExit \/ ReadSize \/ Realloc \/ ReadBody) => ThreadsInv'
BY DEF Wait, CheckExit, ReadSize, Realloc, ReadBody, ThreadsInv, WorkExclusive, RingsAt,
       Starting, Stopping, Workers, hostVars, semVars, emitVars, data

(* process().                                                              *)
LEMMA AudioThreads ==
    ASSUME ThreadsInv, AudioThread
    PROVE  ThreadsInv'
<1>1. CASE Process \/ LoadSpace \/ EmitSize \/ EmitBody \/ EmitDone
  BY <1>1 DEF Process, LoadSpace, EmitSize, EmitBody, EmitDone, ThreadsInv, WorkExclusive,
              RingsAt, Starting, Stopping, Workers, hostVars, semVars, emitVars
<1>2. CASE (\E n \in RequestSizes : ScheduleSize(n)) \/ ScheduleBody \/ SchedulePost \/ RunReturns
  BY <1>2 DEF ScheduleSize, ScheduleBody, SchedulePost, RunReturns, ThreadsInv, WorkExclusive,
              RingsAt, Starting, Stopping, Workers, hostVars, semVars, emitVars, data
<1>3. QED
  BY <1>1, <1>2 DEF AudioThread, AudioCall

(* Who holds work_lock, which rings exist and whether the worker thread    *)
(* runs follow from where the three threads are.                           *)
THEOREM ThreadsInvariant == Spec => []ThreadsInv
<1>1. ThreadsInv /\ [Next]_vars => ThreadsInv'
  <2> SUFFICES ASSUME ThreadsInv, [Next]_vars PROVE ThreadsInv'
    OBVIOUS
  <2>1. CASE HostThread
    BY <2>1, WorkerInitThreads, HostThreads, WorkThreads DEF HostThread, HostCall
  <2>2. CASE AudioThread
    BY <2>2, AudioThreads
  <2>3. CASE WorkerThread
    BY <2>3, WorkerFuncThreads, WorkThreads DEF WorkerThread
  <2>4. CASE Deleted \/ UNCHANGED vars
    BY <2>4 DEF Deleted, vars, data, hostVars, semVars, emitVars, ThreadsInv, WorkExclusive
  <2>5. QED
    BY <2>1, <2>2, <2>3, <2>4 DEF Next
<1>2. QED
  BY <1>1, InitThreads, PTL DEF Spec

(* The plugin's work() never runs in two threads at once.                  *)
THEOREM WorkIsExclusive == Spec => []WorkExclusive
<1>1. ThreadsInv => WorkExclusive
  BY DEF ThreadsInv
<1>2. QED
  BY <1>1, ThreadsInvariant, PTL

(* No ring is used before it is allocated or after it is freed.            *)
THEOREM RingsStayAlive == Spec => []RingsAlive
<1>1. ThreadsInv => RingsAlive
  BY DEF ThreadsInv, RingsAlive, RingsAt, Starting, Stopping, Workers
<1>2. QED
  BY <1>1, ThreadsInvariant, PTL
-----------------------------------------------------------------------------
(* The types: the sizes that a thread reads from a ring are numbers,       *)
(* because the cells of a ring belong to messages that were sent.          *)

LEMMA WrittenIs ==
    ASSUME NEW S, NEW ring \in Seq(S), NEW cells \in Seq(S), NEW space \in Nat, Len(ring) <= space
    PROVE  Written(ring, cells, space) \in Seq(S) /\ Len(Written(ring, cells, space)) <= space
BY ConcatProperties DEF Written

LEMMA RestIs ==
    ASSUME NEW S, NEW ring \in Seq(S), NEW n \in Nat
    PROVE  Rest(ring, n) \in Seq(S) /\ Len(Rest(ring, n)) <= Len(ring)
<1>1. CASE CanRead(ring, n)
  <2>1. \A k \in (n + 1)..Len(ring) : ring[k] \in S
    OBVIOUS
  <2>2. SubSeq(ring, n + 1, Len(ring)) \in Seq(S)
    BY <2>1, SubSeqProperties
  <2>3. Len(SubSeq(ring, n + 1, Len(ring))) <= Len(ring)
    BY <1>1, <2>1, SubSeqProperties DEF CanRead
  <2>4. QED
    BY <1>1, <2>2, <2>3 DEF Rest
<1>2. CASE ~CanRead(ring, n)
  BY <1>2 DEF Rest
<1>3. QED
  BY <1>1, <1>2

LEMMA CellsGrow ==
    ASSUME NEW S, NEW sizes \in Seq(S), NEW n \in S, NEW ring \in Seq(Cells(sizes))
    PROVE  /\ ring \in Seq(Cells(Append(sizes, n)))
           /\ <<Header(Len(sizes) + 1)>> \in Seq(Cells(Append(sizes, n)))
<1>1. Len(Append(sizes, n)) = Len(sizes) + 1
  BY AppendProperties
<1>2. Cells(sizes) \subseteq Cells(Append(sizes, n))
  BY <1>1 DEF Cells
<1>3. ring \in Seq(Cells(Append(sizes, n)))
  <2> DEFINE A == Cells(sizes)
             B == Cells(Append(sizes, n))
  <2>1. A \subseteq B /\ ring \in Seq(A)
    BY <1>2
  <2> HIDE DEF A, B
  <2>2. ring \in Seq(B)
    BY <2>1
  <2>3. QED
    BY <2>2 DEF B
<1>4. Header(Len(sizes) + 1) \in Cells(Append(sizes, n))
  BY <1>1 DEF Cells, Header
<1>5. QED
  BY <1>3, <1>4

LEMMA BodyIs ==
    ASSUME NEW S, S \subseteq Nat, NEW sizes \in Seq(S), Len(sizes) > 0
    PROVE  Body(Len(sizes), sizes[Len(sizes)]) \in Seq(Cells(sizes))
<1>1. sizes[Len(sizes)] \in S
  BY ElementOfSeq
<1>2. PICK n \in Nat : n = sizes[Len(sizes)]
  BY <1>1
<1>3. \A k \in 1..n : <<Len(sizes), k>> \in Cells(sizes)
  BY DEF Cells
<1>4. [k \in 1..n |-> <<Len(sizes), k>>] \in Seq(Cells(sizes))
  BY <1>3
<1>5. QED
  BY <1>2, <1>4 DEF Body

LEMMA HeaderSizesIs ==
    ASSUME NEW S, S \subseteq Nat, NEW sizes \in Seq(S), NEW ring \in Seq(Cells(sizes)),
           NEW space \in Nat
    PROVE  HeaderSizes(ring, sizes, space) \subseteq Nat
<1>1. CASE ring = << >>
  BY <1>1 DEF HeaderSizes
<1>2. CASE ring # << >>
  <2>1. Head(ring) \in Cells(sizes)
    BY <1>2, HeadTailProperties
  <2>2. Head(ring)[1] \in 1..Len(sizes)
    BY <2>1 DEF Cells
  <2>3. sizes[Head(ring)[1]] \in Nat
    BY <2>2, ElementOfSeq
  <2>4. QED
    BY <1>2, <2>3 DEF HeaderSizes
<1>3. QED
  BY <1>1, <1>2

LEMMA InitTypes ==
    ASSUME Init
    PROVE  TypeInv
<1> USE WorkerAssumption
<1>1. RequestsInv
  BY DEF Init, RequestsInv
<1>2. ResponsesInv
  <2>1. \A w \in Workers : responses[w] = << >>
    BY DEF Init
  <2>2. responses \in [Workers -> Seq(Nat \X Nat)] /\ responded \in [Workers -> Seq(ResponseSizes)]
    BY DEF Init
  <2>3. pc["host"] = "create" /\ pc["worker"] = "none"
    BY DEF Init
  <2>4. QED
    BY <2>1, <2>2, <2>3 DEF ResponsesInv
<1>3. LocalsInv
  <2>1. exit \in BOOLEAN /\ size \in [{"audio", "worker"} -> Nat]
    BY DEF Init
  <2>2. read_space \in 0..(Modulus - 1) /\ restores \in 0..MaxRestores
    BY DEF Init
  <2>3. 0 \in 0..(MaxResponses + 1)
    OBVIOUS
  <2>4. delivered \in [Workers -> 0..(MaxResponses + 1)]
    BY <2>3 DEF Init
  <2>5. QED
    BY <2>1, <2>2, <2>4 DEF LocalsInv
<1>4. QED
  BY <1>1, <1>2, <1>3 DEF TypeInv

(* The requests ring, and what was scheduled.                              *)
LEMMA RequestsStep ==
    ASSUME ThreadsInv, TypeInv, [Next]_vars
    PROVE  RequestsInv'
<1> USE WorkerAssumption DEF TypeInv, RequestsInv
<1>1. CASE \E n \in RequestSizes : ScheduleSize(n)
  <2>1. PICK n \in RequestSizes : ScheduleSize(n)
    BY <1>1
  <2>2. scheduled' = Append(scheduled, n) /\ scheduled' \in Seq(RequestSizes) /\ Len(scheduled') > 0
    BY <2>1, AppendProperties DEF ScheduleSize
  <2>3. requests \in Seq(Cells(scheduled')) /\ <<Header(Len(scheduled) + 1)>> \in Seq(Cells(scheduled'))
    BY <2>2, CellsGrow
  <2>4. requests' = Written(requests, <<Header(Len(scheduled) + 1)>>, RequestSpace)
    BY <2>1 DEF ScheduleSize
  <2>5. requests' \in Seq(Cells(scheduled')) /\ Len(requests') <= RequestSpace
    BY <2>3, <2>4, WrittenIs
  <2>6. QED
    BY <2>2, <2>5
<1>2. CASE ScheduleBody
  <2>1. UNCHANGED scheduled /\ pc'["audio"] = "schedule_post" /\ Len(scheduled) > 0
    BY <1>2 DEF ScheduleBody, ThreadsInv
  <2>2. Body(Len(scheduled), scheduled[Len(scheduled)]) \in Seq(Cells(scheduled))
    BY <2>1, BodyIs
  <2>3. requests' = Written(requests, Body(Len(scheduled), scheduled[Len(scheduled)]), RequestSpace)
    BY <1>2 DEF ScheduleBody
  <2>4. requests' \in Seq(Cells(scheduled)) /\ Len(requests') <= RequestSpace
    BY <2>2, <2>3, WrittenIs
  <2>5. QED
    BY <2>1, <2>4
<1>3. CASE ReadSize \/ ReadBody
  <2>1. PICK n \in Nat : requests' = Rest(requests, n)
    BY <1>3 DEF ReadSize, ReadBody, LocalsInv
  <2>2. UNCHANGED scheduled /\ pc'["audio"] = pc["audio"]
    BY <1>3 DEF ReadSize, ReadBody, ThreadsInv
  <2>3. requests' \in Seq(Cells(scheduled)) /\ Len(requests') <= Len(requests)
    BY <2>1, RestIs
  <2>4. QED
    BY <2>2, <2>3
<1>4. CASE UNCHANGED <<requests, scheduled>> /\ pc'["audio"] # "schedule_body"
  BY <1>4
<1>5. CASE UNCHANGED <<requests, scheduled, pc>>
  BY <1>5
<1>6. CASE HostThread
  <2>1. UNCHANGED <<requests, scheduled>> /\ pc'["audio"] = pc["audio"]
    BY <1>6 DEF HostThread, HostCall, Restore, Delete, WorkerInit, CreateThread, NewRing, FinishPost,
       FinishJoin, Destroy, Work, WorkLock, WorkUnlock, RespondSize, RespondBody, ThreadsInv, data, ringVars
  <2>2. QED
    BY <2>1
<1>7. CASE Wait \/ CheckExit \/ Realloc \/ Work("worker")
  <2>1. UNCHANGED <<requests, scheduled>> /\ pc'["audio"] = pc["audio"]
    BY <1>7 DEF Wait, CheckExit, Realloc, Work, WorkLock, WorkUnlock, RespondSize, RespondBody,
       ThreadsInv, data, ringVars
  <2>2. QED
    BY <2>1
<1>8. CASE Process \/ LoadSpace \/ EmitSize \/ EmitBody \/ EmitDone \/ SchedulePost \/ RunReturns
  <2>1. UNCHANGED <<requests, scheduled>> /\ pc'["audio"] # "schedule_body"
    BY <1>8 DEF Process, LoadSpace, EmitSize, EmitBody, EmitDone, SchedulePost, RunReturns,
       ThreadsInv, data, ringVars
  <2>2. QED
    BY <2>1
<1>9. QED
  BY <1>1, <1>2, <1>3, <1>5, <1>6, <1>7, <1>8
     DEF Next, AudioThread, AudioCall, WorkerThread, Deleted, vars, data, ringVars

(* The response rings, and what was answered.                              *)
LEMMA RespondStep ==
    ASSUME ThreadsInv, TypeInv, NEW t \in {"host", "worker"}, Work(t)
    PROVE  ResponsesInv'
<1> USE WorkerAssumption DEF TypeInv, ResponsesInv
<1> DEFINE w == WorkerOf(t)
<1>0. w \in Workers /\ \A u \in {"host", "worker"} : u # t => WorkerOf(u) # w
  BY DEF WorkerOf, Workers
<1>1. CASE \E n \in ResponseSizes : RespondSize(t, n)
  <2>1. PICK n \in ResponseSizes : RespondSize(t, n)
    BY <1>1
  <2> DEFINE sizes == responded[w]
             cell == <<Header(Len(sizes) + 1)>>
             ring == Written(responses[w], cell, ResponseSpace)
  <2>2. /\ responded' = [responded EXCEPT ![w] = Append(sizes, n)]
        /\ responses' = [responses EXCEPT ![w] = ring]
    BY <2>1 DEF RespondSize
  <2>3. /\ sizes \in Seq(ResponseSizes) /\ responses[w] \in Seq(Cells(sizes))
        /\ Append(sizes, n) \in Seq(ResponseSizes) /\ Len(Append(sizes, n)) > 0
    BY <1>0, AppendProperties
  <2>4. responses[w] \in Seq(Cells(Append(sizes, n))) /\ cell \in Seq(Cells(Append(sizes, n)))
    BY <2>3, CellsGrow
  <2>5. ring \in Seq(Cells(Append(sizes, n))) /\ Len(ring) <= ResponseSpace
    BY <2>4, <1>0, WrittenIs
  <2>6. ring \in Seq(Nat \X Nat)
    BY <2>3, <2>5 DEF Cells
  <2> HIDE DEF ring, sizes, w
  <2>7. \A v \in Workers : /\ responded'[v] = IF v = w THEN Append(sizes, n) ELSE responded[v]
                           /\ responses'[v] = IF v = w THEN ring ELSE responses[v]
    BY <2>2, <1>0
  <2>8. pc'[t] = "respond" /\ \A u \in {"host", "worker"} : u # t => pc'[u] = pc[u]
    BY <2>1 DEF RespondSize, ThreadsInv
  <2>9. responded' \in [Workers -> Seq(ResponseSizes)] /\ responses' \in [Workers -> Seq(Nat \X Nat)]
    BY <2>2, <2>3, <2>6
  <2>10. \A v \in Workers : responses'[v] \in Seq(Cells(responded'[v])) /\ Len(responses'[v]) <= ResponseSpace
    BY <2>5, <2>7
  <2>11. \A u \in {"host", "worker"} : pc'[u] = "respond" => Len(responded'[WorkerOf(u)]) > 0
    BY <1>0, <2>3, <2>7, <2>8 DEF WorkerOf, Workers, w
  <2>12. QED
    BY <2>9, <2>10, <2>11 DEF Workers
<1>2. CASE RespondBody(t)
  <2> DEFINE sizes == responded[w]
             body == Body(Len(sizes), sizes[Len(sizes)])
             ring == Written(responses[w], body, ResponseSpace)
  <2>1. responses' = [responses EXCEPT ![w] = ring] /\ UNCHANGED responded
    BY <1>2 DEF RespondBody, workVars
  <2>2. sizes \in Seq(ResponseSizes) /\ Len(sizes) > 0
    BY <1>0, <1>2 DEF RespondBody
  <2>3. body \in Seq(Cells(sizes))
    BY <2>2, BodyIs
  <2>4. ring \in Seq(Cells(sizes)) /\ Len(ring) <= ResponseSpace
    BY <1>0, <2>3, WrittenIs
  <2>5. ring \in Seq(Nat \X Nat)
    BY <2>2, <2>4 DEF Cells
  <2> HIDE DEF ring
  <2>6. pc'[t] = "work" /\ \A u \in {"host", "worker"} : u # t => pc'[u] = pc[u]
    BY <1>2 DEF RespondBody, ThreadsInv
  <2>7. responses' \in [Workers -> Seq(Nat \X Nat)]
    BY <2>1, <2>5
  <2>8. \A v \in Workers : responses'[v] \in Seq(Cells(responded[v])) /\ Len(responses'[v]) <= ResponseSpace
    BY <2>1, <2>4
  <2>9. QED
    BY <2>1, <2>6, <2>7, <2>8 DEF Workers
<1>3. CASE WorkLock(t) \/ WorkUnlock(t)
  <2>1. UNCHANGED <<responses, responded>>
    BY <1>3 DEF WorkLock, WorkUnlock, ringVars, workVars
  <2>2. pc'[t] # "respond" /\ \A u \in {"host", "worker"} : u # t => pc'[u] = pc[u]
    BY <1>3 DEF WorkLock, WorkUnlock, ThreadsInv
  <2>3. QED
    BY <2>1, <2>2
<1>4. QED
  BY <1>1, <1>2, <1>3 DEF Work

LEMMA ResponsesStep ==
    ASSUME ThreadsInv, TypeInv, [Next]_vars
    PROVE  ResponsesInv'
<1> USE WorkerAssumption DEF TypeInv, ResponsesInv
<1>1. CASE Work("host") \/ Work("worker")
  BY <1>1, RespondStep
<1>2. CASE EmitSize \/ EmitBody
  <2>1. PICK n \in Nat : responses' = [responses EXCEPT ![emitting] = Rest(@, n)]
    BY <1>2 DEF EmitSize, EmitBody, LocalsInv
  <2>2. emitting \in Workers
    BY DEF ThreadsInv
  <2>3. UNCHANGED responded /\ \A u \in {"host", "worker"} : pc'[u] = pc[u]
    BY <1>2 DEF EmitSize, EmitBody, ThreadsInv, workVars
  <2>4. /\ Rest(responses[emitting], n) \in Seq(Cells(responded[emitting]))
        /\ Len(Rest(responses[emitting], n)) <= Len(responses[emitting])
        /\ Rest(responses[emitting], n) \in Seq(Nat \X Nat)
    BY <2>2, RestIs
  <2> DEFINE ring == Rest(responses[emitting], n)
  <2>5. responses' = [responses EXCEPT ![emitting] = ring]
    BY <2>1
  <2> HIDE DEF ring
  <2>6. responses' \in [Workers -> Seq(Nat \X Nat)]
    BY <2>2, <2>4, <2>5 DEF ring
  <2>7. \A v \in Workers : responses'[v] \in Seq(Cells(responded[v])) /\ Len(responses'[v]) <= ResponseSpace
    <3> SUFFICES ASSUME NEW v \in Workers
                 PROVE  responses'[v] \in Seq(Cells(responded[v])) /\ Len(responses'[v]) <= ResponseSpace
      OBVIOUS
    <3>1. responses'[v] = IF v = emitting THEN ring ELSE responses[v]
      BY <2>2, <2>5
    <3>2. Len(responses[v]) \in Nat /\ Len(ring) \in Nat /\ Len(responses[v]) <= ResponseSpace
      BY <2>4 DEF ring
    <3>3. QED
      BY <2>4, <3>1, <3>2 DEF ring
  <2>8. QED
    BY <2>3, <2>6, <2>7
<1>3. CASE Restore \/ Delete \/ WorkerInit \/ FinishPost \/ FinishJoin \/ Destroy
  <2>1. UNCHANGED <<responses, responded>> /\ \A u \in {"host", "worker"} : pc'[u] # "respond"
                                                          \/ pc'[u] = pc[u]
    BY <1>3 DEF Restore, Delete, WorkerInit, CreateThread, NewRing, FinishPost, FinishJoin, Destroy,
       ThreadsInv, data, ringVars, workVars
  <2>2. QED
    BY <2>1
<1>4. CASE Wait \/ CheckExit \/ ReadSize \/ Realloc \/ ReadBody
  <2>1. UNCHANGED <<responses, responded>> /\ \A u \in {"host", "worker"} : pc'[u] # "respond"
                                                          \/ pc'[u] = pc[u]
    BY <1>4 DEF Wait, CheckExit, ReadSize, Realloc, ReadBody, ThreadsInv, data, ringVars, workVars
  <2>2. QED
    BY <2>1
<1>5. CASE \/ Process \/ LoadSpace \/ EmitDone \/ (\E n \in RequestSizes : ScheduleSize(n))
           \/ ScheduleBody \/ SchedulePost \/ RunReturns
  <2>1. UNCHANGED <<responses, responded>> /\ \A u \in {"host", "worker"} : pc'[u] = pc[u]
    BY <1>5 DEF Process, LoadSpace, EmitDone, ScheduleSize, ScheduleBody, SchedulePost, RunReturns,
       ThreadsInv, data, ringVars, workVars
  <2>2. QED
    BY <2>1
<1>6. CASE UNCHANGED <<responses, responded, pc>>
  BY <1>6
<1>7. QED
  BY <1>1, <1>2, <1>3, <1>4, <1>5, <1>6
     DEF Next, HostThread, HostCall, AudioThread, AudioCall, WorkerThread, Deleted, vars, data,
         ringVars, workVars

(* What the threads keep to themselves.                                    *)
LEMMA LocalsStep ==
    ASSUME ThreadsInv, TypeInv, [Next]_vars
    PROVE  LocalsInv'
<1> USE WorkerAssumption DEF TypeInv, LocalsInv
<1>1. CASE EmitBody
  <2>1. size["audio"] \in Nat /\ emitting \in Workers
    BY DEF ThreadsInv
  <2>2. read_space' = (read_space - (1 + size["audio"])) % Modulus
    BY <1>1 DEF EmitBody, SpaceLeft
  <2>3. read_space' \in 0..(Modulus - 1)
    BY <2>1, <2>2
  <2>4. PICK n \in 0..(MaxResponses + 1) : delivered' = [delivered EXCEPT ![emitting] = n]
    <3>1. delivered[emitting] \in 0..(MaxResponses + 1)
      BY <2>1
    <3> DEFINE n == IF delivered[emitting] + 1 > MaxResponses THEN MaxResponses + 1
                    ELSE delivered[emitting] + 1
    <3>2. n \in 0..(MaxResponses + 1)
      BY <3>1
    <3>3. delivered' = [delivered EXCEPT ![emitting] = n]
      BY <1>1 DEF EmitBody
    <3>4. QED
      BY <3>2, <3>3
  <2>5. delivered' \in [Workers -> 0..(MaxResponses + 1)]
    BY <2>4
  <2>6. UNCHANGED <<exit, size, restores>>
    BY <1>1 DEF EmitBody, hostVars
  <2>7. QED
    BY <2>3, <2>5, <2>6
<1>2. CASE LoadSpace
  <2>1. Len(responses[emitting]) \in 0..(Modulus - 1)
    BY DEF ThreadsInv, ResponsesInv
  <2>2. read_space' = Len(responses[emitting]) /\ UNCHANGED <<exit, size, restores, delivered>>
    BY <1>2 DEF LoadSpace, hostVars
  <2>3. QED
    BY <2>1, <2>2
<1>3. CASE EmitSize
  <2>1. /\ responded[emitting] \in Seq(ResponseSizes)
        /\ responses[emitting] \in Seq(Cells(responded[emitting]))
    BY DEF ThreadsInv, ResponsesInv
  <2>2. HeaderSizes(responses[emitting], responded[emitting], ResponseSpace) \subseteq Nat
    BY <2>1, HeaderSizesIs
  <2>3. size' \in [{"audio", "worker"} -> Nat]
    BY <1>3, <2>2 DEF EmitSize
  <2>4. UNCHANGED <<exit, restores, read_space, delivered>>
    BY <1>3 DEF EmitSize, hostVars, emitVars
  <2>5. QED
    BY <2>3, <2>4
<1>4. CASE ReadSize
  <2>1. HeaderSizes(requests, scheduled, RequestSpace) \subseteq Nat
    BY HeaderSizesIs DEF RequestsInv
  <2>2. size' \in [{"audio", "worker"} -> Nat]
    BY <1>4, <2>1 DEF ReadSize
  <2>3. UNCHANGED <<exit, restores, read_space, delivered>>
    BY <1>4 DEF ReadSize, hostVars, emitVars
  <2>4. QED
    BY <2>2, <2>3
<1>5. CASE Restore \/ Delete
  <2>1. exit' \in BOOLEAN /\ UNCHANGED <<size, read_space, delivered>>
    BY <1>5 DEF Restore, Delete, emitVars
  <2>2. (restores < MaxRestores /\ restores' = restores + 1) \/ UNCHANGED restores
    BY <1>5 DEF Restore, Delete
  <2>3. QED
    BY <2>1, <2>2
<1>6. CASE WorkerInit \/ FinishPost \/ FinishJoin \/ Destroy \/ Work("host") \/ Work("worker")
           \/ Wait \/ CheckExit \/ Realloc \/ ReadBody
  <2>1. UNCHANGED <<exit, restores, size, read_space, delivered>>
    BY <1>6 DEF WorkerInit, CreateThread, NewRing, FinishPost, FinishJoin, Destroy, Work, WorkLock,
       WorkUnlock, RespondSize, RespondBody, Wait, CheckExit, Realloc, ReadBody, data, hostVars, emitVars
  <2>2. QED
    BY <2>1
<1>7. CASE \/ Process \/ EmitDone \/ (\E n \in RequestSizes : ScheduleSize(n))
           \/ ScheduleBody \/ SchedulePost \/ RunReturns
  <2>1. UNCHANGED <<exit, restores, size, read_space, delivered>>
    BY <1>7 DEF Process, EmitDone, ScheduleSize, ScheduleBody, SchedulePost, RunReturns, data,
       hostVars, emitVars
  <2>2. QED
    BY <2>1
<1>8. CASE UNCHANGED vars
  BY <1>8 DEF vars, data, hostVars, emitVars
<1>9. QED
  BY <1>1, <1>2, <1>3, <1>4, <1>5, <1>6, <1>7, <1>8
     DEF Next, HostThread, HostCall, AudioThread, AudioCall, WorkerThread, Deleted

(* The inductive invariant of the types.                                   *)
THEOREM TypesInvariant == Spec => []TypeInv
<1>1. ThreadsInv /\ TypeInv /\ [Next]_vars => TypeInv'
  BY RequestsStep, ResponsesStep, LocalsStep DEF TypeInv
<1>2. QED
  BY <1>1, InitTypes, ThreadsInvariant, PTL DEF Spec

(* Every variable of the workers keeps its type: no ring holds more than   *)
(* its space, and read_space stays an unsigned number even where it wraps. *)
THEOREM TypeCorrect == Spec => []TypeOK
<1>1. ThreadsInv /\ TypeInv => TypeOK
  <2> SUFFICES ASSUME ThreadsInv, TypeInv PROVE TypeOK
    OBVIOUS
  <2>1. \A k \in 1..Len(requests) : requests[k] \in Nat \X Nat
    <3>1. requests \in Seq(Cells(scheduled))
      BY DEF TypeInv, RequestsInv
    <3>2. \A k \in 1..Len(requests) : requests[k] \in Cells(scheduled)
      BY <3>1, ElementOfSeq
    <3>3. QED
      BY <3>2 DEF Cells
  <2>2. requests \in Seq(Nat \X Nat)
    BY <2>1 DEF TypeInv, RequestsInv
  <2>3. rings \subseteq {"requests", "worker", "state"} /\ work_lock \in {0, 1}
    BY DEF ThreadsInv, RingsAt
  <2>4. QED
    BY <2>2, <2>3 DEF TypeOK, TypeInv, RequestsInv, ResponsesInv, LocalsInv, ThreadsInv
<1>2. QED
  BY <1>1, ThreadsInvariant, TypesInvariant, PTL
-----------------------------------------------------------------------------
(* The order of the requests: the ring calls first.                       *)

(* What is behind the first cells of a ring.                               *)
LEMMA CellsBehind ==
    ASSUME NEW S, NEW ring \in Seq(S), NEW n \in 0..Len(ring)
    PROVE  LET rest == SubSeq(ring, n + 1, Len(ring))
           IN  /\ rest \in Seq(S) /\ Len(rest) = Len(ring) - n
               /\ \A k \in 1..Len(rest) : rest[k] = ring[k + n]
BY SubSeqProperties

(* Headers among the cells of a ring: how many there are, with one more    *)
(* written, with a body written, and with some cells read.                 *)
LEMMA HeadersCount ==
    ASSUME NEW ring \in Seq(Nat \X Nat)
    PROVE  IsFiniteSet(HeadersOf(ring)) /\ Cardinality(HeadersOf(ring)) \in Nat
<1>1. HeadersOf(ring) \in SUBSET (1..Len(ring)) /\ IsFiniteSet(1..Len(ring))
  BY FS_Interval DEF HeadersOf
<1>2. QED
  BY <1>1, FS_Subset, FS_CardinalityType

LEMMA HeaderWritten ==
    ASSUME NEW ring \in Seq(Nat \X Nat), NEW i \in Nat
    PROVE  Cardinality(HeadersOf(ring \o <<Header(i)>>)) = Cardinality(HeadersOf(ring)) + 1
<1> DEFINE longer == ring \o <<Header(i)>>
<1>1. Len(longer) = Len(ring) + 1 /\ \A k \in 1..Len(longer) :
          longer[k] = IF k <= Len(ring) THEN ring[k] ELSE <<i, 0>>
  <2>1. <<Header(i)>> \in Seq(Nat \X Nat) /\ Len(<<Header(i)>>) = 1 /\ <<Header(i)>>[1] = <<i, 0>>
    BY DEF Header
  <2>2. QED
    BY <2>1
<1>2. HeadersOf(longer) = HeadersOf(ring) \cup {Len(ring) + 1}
  BY <1>1 DEF HeadersOf
<1>3. Len(ring) + 1 \notin HeadersOf(ring)
  BY DEF HeadersOf
<1>4. QED
  BY <1>2, <1>3, HeadersCount, FS_AddElement

LEMMA BodyWritten ==
    ASSUME NEW ring \in Seq(Nat \X Nat), NEW i \in Nat, NEW n \in Nat
    PROVE  HeadersOf(ring \o Body(i, n)) = HeadersOf(ring)
<1> DEFINE longer == ring \o Body(i, n)
<1>1. Body(i, n) \in Seq(Nat \X Nat) /\ Len(Body(i, n)) = n
  BY DEF Body
<1>2. Len(longer) = Len(ring) + n /\ \A k \in 1..Len(longer) :
          longer[k] = IF k <= Len(ring) THEN ring[k] ELSE <<i, k - Len(ring)>>
  BY <1>1 DEF Body
<1>3. \A k \in Int : k \in HeadersOf(longer) <=> k \in HeadersOf(ring)
  <2> HIDE DEF longer
  <2>1. ASSUME NEW k \in 1..Len(longer), k > Len(ring)
        PROVE  longer[k][2] # 0
    BY <1>2, <2>1
  <2>2. QED
    BY <1>2, <2>1 DEF HeadersOf
<1>4. QED
  BY <1>3 DEF HeadersOf

LEMMA HeadersBehind ==
    ASSUME NEW ring \in Seq(Nat \X Nat), NEW n \in 0..Len(ring)
    PROVE  Cardinality(HeadersOf(SubSeq(ring, n + 1, Len(ring))))
              = Cardinality({k \in HeadersOf(ring) : k > n})
<1> DEFINE rest == SubSeq(ring, n + 1, Len(ring))
           S == {k \in HeadersOf(ring) : k > n}
<1>1. Len(rest) = Len(ring) - n /\ \A k \in 1..Len(rest) : rest[k] = ring[k + n]
  BY CellsBehind
<1>2. HeadersOf(rest) = {k + (-n) : k \in S}
  <2>1. ASSUME NEW k \in HeadersOf(rest)
        PROVE  k + n \in S /\ k = (k + n) + (-n)
    BY <1>1 DEF HeadersOf
  <2>2. ASSUME NEW k \in S
        PROVE  k + (-n) \in HeadersOf(rest) /\ k \in Int
    <3>1. k \in 1..Len(ring) /\ k > n /\ ring[k][2] = 0
      BY DEF HeadersOf
    <3>2. k + (-n) \in 1..Len(rest) /\ (k + (-n)) + n = k
      BY <1>1, <3>1
    <3>3. rest[k + (-n)] = ring[k]
      BY <1>1, <3>2, Zenon
    <3> HIDE DEF rest
    <3>4. QED
      BY <3>1, <3>2, <3>3 DEF HeadersOf
  <2> HIDE DEF S, rest
  <2>3. QED
    BY <2>1, <2>2
<1>3. S \in SUBSET Int /\ IsFiniteSet(S)
  <2>1. S \in SUBSET HeadersOf(ring)
    OBVIOUS
  <2>2. IsFiniteSet(S)
    BY <2>1, HeadersCount, FS_Subset, Zenon
  <2>3. S \in SUBSET Int
    BY DEF HeadersOf
  <2>4. QED
    BY <2>2, <2>3
<1> HIDE DEF S, rest
<1>4. -n \in Int
  OBVIOUS
<1>5. Cardinality({k + (-n) : k \in S}) = Cardinality(S)
  BY <1>3, <1>4, CountShifted
<1>6. QED
  BY <1>2, <1>5 DEF S, rest

(* The cells of a ring in order, as it is written and read.                *)
LEMMA NextCellGrows ==
    ASSUME NEW sizes \in Seq(Nat), NEW n \in Nat, NEW c \in Cells(sizes)
    PROVE  NextCell(Append(sizes, n), c) = NextCell(sizes, c)
BY AppendProperties DEF NextCell, Cells

LEMMA AreConsecutive ==
    ASSUME NEW ring, Len(ring) \in Nat, Len(ring) > 0, NEW sizes, NEW end,
           NextCell(sizes, ring[Len(ring)]) = end,
           \A k \in 1..(Len(ring) - 1) : ring[k + 1] = NextCell(sizes, ring[k])
    PROVE  Consecutive(ring, sizes, ring[1], end)
BY DEF Consecutive

LEMMA WriteHeader ==
    ASSUME NEW sizes \in Seq(Nat), NEW ring \in Seq(Cells(sizes)), NEW n \in Nat, NEW first,
           Consecutive(ring, sizes, first, Header(Len(sizes) + 1))
    PROVE  LET longer == Append(sizes, n)
               i == Len(sizes) + 1
           IN  Consecutive(ring \o <<Header(i)>>, longer, first, NextCell(longer, Header(i)))
<1> DEFINE longer == Append(sizes, n)
           i == Len(sizes) + 1
           more == ring \o <<Header(i)>>
<1>1. Len(more) = Len(ring) + 1 /\ \A k \in 1..Len(more) :
          more[k] = IF k <= Len(ring) THEN ring[k] ELSE Header(i)
  OBVIOUS
<1>2. \A k \in 1..Len(ring) : NextCell(longer, ring[k]) = NextCell(sizes, ring[k])
  <2>1. \A k \in 1..Len(ring) : ring[k] \in Cells(sizes)
    BY ElementOfSeq
  <2>2. QED
    BY <2>1, NextCellGrows
<1>3. ASSUME NEW k \in 1..(Len(more) - 1)
      PROVE  more[k + 1] = NextCell(longer, more[k])
  <2>1. CASE k < Len(ring)
    BY <2>1, <1>1, <1>2 DEF Consecutive
  <2>2. CASE k = Len(ring)
    BY <2>2, <1>1, <1>2 DEF Consecutive
  <2>3. QED
    BY <2>1, <2>2, <1>1
<1>4. more[1] = first
  BY <1>1 DEF Consecutive
<1> HIDE DEF more, longer
<1>5. QED
  BY <1>1, <1>3, <1>4 DEF Consecutive, more, longer

LEMMA WriteBody ==
    ASSUME NEW sizes \in Seq(Nat), NEW ring \in Seq(Cells(sizes)), NEW first,
           Len(sizes) > 0,
           Consecutive(ring, sizes, first, NextCell(sizes, Header(Len(sizes))))
    PROVE  LET i == Len(sizes)
           IN  Consecutive(ring \o Body(i, sizes[i]), sizes, first, Header(i + 1))
<1> DEFINE i == Len(sizes)
           n == sizes[i]
           more == ring \o Body(i, n)
<1>0. n \in Nat /\ Body(i, n) \in Seq(Nat \X Nat) /\ Len(Body(i, n)) = n
  BY DEF Body
<1>1. Len(more) = Len(ring) + n /\ \A k \in 1..Len(more) :
          more[k] = IF k <= Len(ring) THEN ring[k] ELSE <<i, k - Len(ring)>>
  BY <1>0 DEF Body
<1>2. CASE n = 0
  <2>1. more = ring
    BY <1>2, <1>0, <1>1, ConcatEmptySeq
  <2>2. NextCell(sizes, Header(i)) = Header(i + 1)
    BY <1>2 DEF NextCell, Header
  <2> HIDE DEF more
  <2>3. QED
    BY <2>1, <2>2 DEF more
<1>3. CASE n > 0
  <2>1. NextCell(sizes, Header(i)) = <<i, 1>> /\ NextCell(sizes, <<i, n>>) = Header(i + 1)
    BY <1>3, <1>0 DEF NextCell, Header
  <2>2. ASSUME NEW k \in 1..(Len(more) - 1)
        PROVE  more[k + 1] = NextCell(sizes, more[k])
    <3>1. CASE k < Len(ring)
      BY <3>1, <1>1 DEF Consecutive
    <3>2. CASE k = Len(ring)
      <4>1. more[k] = ring[k] /\ more[k + 1] = <<i, 1>>
        <5>1. k + 1 - Len(ring) = 1 /\ ~(k + 1 <= Len(ring)) /\ k <= Len(ring)
          BY <3>2
        <5> HIDE DEF more, n
        <5>2. k \in 1..Len(more) /\ k + 1 \in 1..Len(more)
          BY <3>2, <1>0, <1>1, <1>3
        <5>3. QED
          BY <5>1, <5>2, <1>1
      <4>2. NextCell(sizes, ring[k]) = NextCell(sizes, Header(i))
        BY <3>2 DEF Consecutive
      <4> HIDE DEF more
      <4>3. QED
        BY <4>1, <4>2, <2>1
    <3>3. CASE k > Len(ring)
      <4>1. more[k] = <<i, k - Len(ring)>> /\ more[k + 1] = <<i, k + 1 - Len(ring)>>
        <5>1. k \in 1..Len(more) /\ k + 1 \in 1..Len(more) /\ k > Len(ring) /\ k + 1 > Len(ring)
          BY <3>3, <1>0, <1>1
        <5>2. ~(k <= Len(ring)) /\ ~(k + 1 <= Len(ring))
          BY <5>1
        <5> HIDE DEF more, n
        <5>3. QED
          BY <5>1, <5>2, <1>1
      <4>2. k - Len(ring) < n /\ k - Len(ring) \in Nat
        BY <3>3, <1>0, <1>1
      <4>3. QED
        BY <4>1, <4>2 DEF NextCell
    <3>4. QED
      BY <3>1, <3>2, <3>3
  <2>3. more[1] = first
    <3>1. 1 \in 1..Len(more)
      BY <1>0, <1>1, <1>3
    <3>2. more[1] = IF 1 <= Len(ring) THEN ring[1] ELSE <<i, 1 - Len(ring)>>
      BY <1>1, <3>1
    <3> HIDE DEF more
    <3>3. CASE Len(ring) > 0
      BY <3>2, <3>3 DEF Consecutive
    <3>4. CASE Len(ring) = 0
      BY <3>2, <3>4, <2>1 DEF Consecutive
    <3>5. QED
      BY <3>3, <3>4
  <2> HIDE DEF more, n
  <2>4. NextCell(sizes, more[Len(more)]) = Header(i + 1)
    <3>1. Len(more) \in 1..Len(more) /\ Len(more) - Len(ring) = n /\ ~(Len(more) <= Len(ring))
      BY <1>0, <1>1, <1>3
    <3>2. more[Len(more)] = <<i, n>>
      BY <1>1, <3>1
    <3>3. QED
      BY <2>1, <3>2
  <2> HIDE DEF i
  <2>5. QED
    <3>1. Len(more) > 0
      BY <1>0, <1>1, <1>3
    <3>2. Len(more) \in Nat
      BY <1>0, <1>1
    <3>3. Consecutive(more, sizes, more[1], Header(i + 1))
      BY <2>2, <2>4, <3>1, <3>2, AreConsecutive
    <3>4. QED
      BY <2>3, <3>3 DEF more, n, i
<1>4. QED
  BY <1>0, <1>2, <1>3

LEMMA ReadCell ==
    ASSUME NEW sizes \in Seq(Nat), NEW ring \in Seq(Cells(sizes)), NEW first, NEW end,
           Consecutive(ring, sizes, first, end), Len(ring) > 0
    PROVE  Consecutive(SubSeq(ring, 1 + 1, Len(ring)), sizes, NextCell(sizes, first), end)
<1> DEFINE rest == SubSeq(ring, 1 + 1, Len(ring))
<1>1. Len(rest) = Len(ring) - 1 /\ \A k \in 1..Len(rest) : rest[k] = ring[k + 1]
  <2>1. 1 \in 0..Len(ring)
    OBVIOUS
  <2>2. QED
    BY <2>1, CellsBehind
<1> HIDE DEF rest
<1>2. Len(ring) \in Nat /\ ring[1] = first /\ NextCell(sizes, ring[Len(ring)]) = end
  BY DEF Consecutive
<1>3. CASE Len(ring) = 1
  <2>1. Len(rest) = 0 /\ NextCell(sizes, first) = end
    BY <1>1, <1>2, <1>3
  <2>2. QED
    BY <2>1 DEF Consecutive, rest
<1>4. CASE Len(ring) > 1
  <2>1. Len(rest) \in Nat /\ Len(rest) > 0 /\ Len(rest) + 1 = Len(ring)
    BY <1>1, <1>2, <1>4
  <2>2. \A k \in 1..(Len(ring) - 1) : ring[k + 1] = NextCell(sizes, ring[k])
    BY DEF Consecutive
  <2>3. rest[1] = NextCell(sizes, first)
    <3>1. 1 \in 1..Len(rest) /\ 1 \in 1..(Len(ring) - 1)
      BY <2>1
    <3>2. QED
      BY <1>1, <1>2, <2>2, <3>1
  <2>4. NextCell(sizes, rest[Len(rest)]) = end
    <3>1. Len(rest) \in 1..Len(rest)
      BY <2>1
    <3>2. QED
      BY <1>1, <1>2, <2>1, <3>1
  <2>5. \A k \in 1..(Len(rest) - 1) : rest[k + 1] = NextCell(sizes, rest[k])
    <3> SUFFICES ASSUME NEW k \in 1..(Len(rest) - 1)
                 PROVE  rest[k + 1] = NextCell(sizes, rest[k])
      OBVIOUS
    <3>1. k \in 1..Len(rest) /\ k + 1 \in 1..Len(rest) /\ k + 1 \in 1..(Len(ring) - 1)
      BY <2>1
    <3>2. rest[k] = ring[k + 1] /\ rest[k + 1] = ring[(k + 1) + 1]
      BY <1>1, <3>1
    <3>3. QED
      BY <2>2, <3>1, <3>2
  <2>6. QED
    BY <2>1, <2>3, <2>4, <2>5, AreConsecutive DEF rest
<1>5. Len(ring) = 1 \/ Len(ring) > 1
  <2>1. \A n \in Nat : n > 0 => n = 1 \/ n > 1
    OBVIOUS
  <2>2. QED
    BY <1>2, <2>1, Zenon
<1>6. QED
  BY <1>3, <1>4, <1>5, Zenon

(* The end of the ring, for a request r that the audio thread has written. *)
WholeRequest(sizes, end, r) ==
    \/ end = Header(Len(sizes) + 1) /\ r <= Len(sizes)
    \/ end = NextCell(sizes, Header(Len(sizes))) /\ r < Len(sizes)

(* A request that has been posted is in the ring, its header in front.     *)
LEMMA ReadHeader ==
    ASSUME NEW sizes \in Seq(Nat), NEW ring \in Seq(Cells(sizes)), NEW r \in 1..Len(sizes), NEW end,
           WholeRequest(sizes, end, r), Consecutive(ring, sizes, Header(r), end)
    PROVE  /\ HeaderSizes(ring, sizes, RequestSpace) = {sizes[r]}
           /\ Consecutive(Rest(ring, 1), sizes, NextCell(sizes, Header(r)), end)
           /\ Cardinality(HeadersOf(Rest(ring, 1))) = Cardinality(HeadersOf(ring)) - 1
<1>1. Len(ring) > 0 /\ ring[1] = Header(r)
  <2>1. end # Header(r)
    BY DEF WholeRequest, NextCell, Header
  <2>2. QED
    BY <2>1 DEF Consecutive
<1>2. HeaderSizes(ring, sizes, RequestSpace) = {sizes[r]}
  <2>1. ring # << >> /\ Head(ring) = <<r, 0>>
    BY <1>1 DEF Header
  <2>2. QED
    BY <2>1 DEF HeaderSizes
<1>3. Rest(ring, 1) = SubSeq(ring, 1 + 1, Len(ring))
  BY <1>1 DEF Rest, CanRead
<1>4. ring \in Seq(Nat \X Nat)
  BY SeqMonotonic DEF Cells
<1>5. Cardinality(HeadersOf(Rest(ring, 1))) = Cardinality(HeadersOf(ring)) - 1
  <2>1. {k \in HeadersOf(ring) : k > 1} = HeadersOf(ring) \ {1}
    BY DEF HeadersOf
  <2>2. 1 \in HeadersOf(ring) /\ 1 \in 0..Len(ring)
    BY <1>1 DEF HeadersOf, Header
  <2>3. Cardinality(HeadersOf(ring) \ {1}) = Cardinality(HeadersOf(ring)) - 1
    BY <1>4, <2>2, HeadersCount, FS_RemoveElement
  <2>4. QED
    BY <1>3, <1>4, <2>1, <2>2, <2>3, HeadersBehind
<1>6. QED
  BY <1>1, <1>2, <1>3, <1>5, ReadCell

(* ... and its body behind the header.                                     *)
LEMMA BodyInFront ==
    ASSUME NEW sizes \in Seq(Nat), NEW ring \in Seq(Cells(sizes)), NEW r \in 1..Len(sizes), NEW end,
           WholeRequest(sizes, end, r), Consecutive(ring, sizes, NextCell(sizes, Header(r)), end)
    PROVE  /\ sizes[r] <= Len(ring)
           /\ \A k \in 1..sizes[r] : ring[k] = <<r, k>>
<1> DEFINE n == sizes[r]
           S == {k \in 1..n : ~(k <= Len(ring) /\ ring[k] = <<r, k>>)}
<1>1. SUFFICES ASSUME S # {}
               PROVE  FALSE
  OBVIOUS
<1> S \in SUBSET Nat
  OBVIOUS
<1>2. PICK k \in S : \A j \in S : k <= j
  BY <1>1, LeastNatural
<1>3. end # <<r, k>>
  BY <1>2 DEF WholeRequest, NextCell, Header
<1>4. CASE k = 1
  <2>1. NextCell(sizes, Header(r)) = <<r, 1>>
    BY <1>2 DEF NextCell, Header
  <2>2. QED
    BY <1>2, <1>3, <1>4, <2>1 DEF Consecutive
<1>5. CASE k > 1
  <2>1. k - 1 \in 1..n /\ k - 1 \notin S
    BY <1>2, <1>5
  <2>2. k - 1 <= Len(ring) /\ ring[k - 1] = <<r, k - 1>>
    BY <2>1
  <2>3. NextCell(sizes, <<r, k - 1>>) = <<r, k>>
    BY <1>2, <2>1 DEF NextCell
  <2>4. CASE k - 1 = Len(ring)
    <3>1. Len(ring) > 0 /\ ring[Len(ring)] = <<r, k - 1>>
      BY <1>5, <2>2, <2>4
    <3>2. end = NextCell(sizes, ring[Len(ring)])
      BY <3>1 DEF Consecutive
    <3>3. QED
      BY <1>3, <2>3, <3>1, <3>2
  <2>5. CASE k - 1 < Len(ring)
    <3>1. k - 1 \in 1..(Len(ring) - 1) /\ (k - 1) + 1 = k
      BY <2>1, <2>5
    <3>2. ring[(k - 1) + 1] = NextCell(sizes, ring[k - 1])
      BY <3>1 DEF Consecutive
    <3>3. QED
      BY <1>2, <2>2, <2>3, <2>5, <3>1, <3>2
  <2>6. QED
    BY <2>2, <2>4, <2>5, <2>1
<1>6. QED
  BY <1>2, <1>4, <1>5

LEMMA ReadWholeBody ==
    ASSUME NEW sizes \in Seq(Nat), NEW ring \in Seq(Cells(sizes)), NEW r \in 1..Len(sizes), NEW end,
           WholeRequest(sizes, end, r), Consecutive(ring, sizes, NextCell(sizes, Header(r)), end)
    PROVE  /\ Contents(ring, sizes[r]) = Body(r, sizes[r])
           /\ Consecutive(Rest(ring, sizes[r]), sizes, Header(r + 1), end)
           /\ Cardinality(HeadersOf(Rest(ring, sizes[r]))) = Cardinality(HeadersOf(ring))
<1> DEFINE n == sizes[r]
<1>1. n \in Nat /\ n <= Len(ring) /\ \A k \in 1..n : ring[k] = <<r, k>>
  BY BodyInFront
<1>2. NextCell(sizes, Header(r)) = (IF n = 0 THEN Header(r + 1) ELSE <<r, 1>>)
      /\ (n > 0 => NextCell(sizes, <<r, n>>) = Header(r + 1))
  BY <1>1 DEF NextCell, Header
<1> HIDE DEF n
<1>3. CASE n = 0
  <2>1. Rest(ring, n) = ring
    BY <1>3 DEF Rest, CanRead
  <2>2. Contents(ring, n) = << >> /\ Body(r, n) = << >>
    BY <1>3 DEF Contents, Body
  <2>3. QED
    BY <1>2, <1>3, <2>1, <2>2 DEF n
<1>4. CASE n > 0
  <2> DEFINE rest == SubSeq(ring, n + 1, Len(ring))
             read == SubSeq(ring, 1, n)
  <2>0. n \in 0..Len(ring) /\ Len(ring) \in Nat
    BY <1>1
  <2>1. Rest(ring, n) = rest /\ Contents(ring, n) = read
    BY <1>1, <1>4 DEF Rest, CanRead, Contents
  <2>2. read = Body(r, n)
    <3>1. \A k \in 1..n : ring[k] \in Nat \X Nat
      <4>1. ring \in Seq(Nat \X Nat)
        BY SeqMonotonic DEF Cells
      <4>2. QED
        BY <4>1, <1>1
    <3>2. read \in Seq(Nat \X Nat) /\ Len(read) = n /\ \A k \in 1..n : read[k] = ring[k]
      BY <1>1, <1>4, <3>1, SubSeqProperties
    <3>3. Body(r, n) \in Seq(Nat \X Nat) /\ Len(Body(r, n)) = n
      BY <1>1 DEF Body
    <3>4. \A k \in 1..n : read[k] = Body(r, n)[k]
      BY <1>1, <3>2 DEF Body
    <3> HIDE DEF read
    <3>5. QED
      BY <3>2, <3>3, <3>4, SeqEqual
  <2>3. Len(rest) = Len(ring) - n /\ \A k \in 1..Len(rest) : rest[k] = ring[k + n]
    BY <2>0, CellsBehind
  <2> HIDE DEF rest, read
  <2>4. n \in 1..n /\ ring[n] = <<r, n>> /\ NextCell(sizes, ring[n]) = Header(r + 1)
    <3>1. n \in 1..n
      BY <1>1, <1>4
    <3>2. ring[n] = <<r, n>>
      BY <1>1, <3>1
    <3>3. QED
      BY <1>2, <1>4, <3>1, <3>2
  <2>5. Consecutive(rest, sizes, Header(r + 1), end)
    <3>1. CASE n = Len(ring)
      <4>1. Len(rest) = 0 /\ Len(ring) > 0
        BY <1>4, <2>3, <3>1
      <4>2. end = Header(r + 1)
        BY <4>1, <2>4, <3>1 DEF Consecutive
      <4>3. QED
        BY <4>1, <4>2 DEF Consecutive
    <3>2. CASE n < Len(ring)
      <4>1. rest[1] = Header(r + 1)
        <5>1. n \in 1..(Len(ring) - 1) /\ 1 \in 1..Len(rest) /\ 1 + n = n + 1
          BY <1>1, <1>4, <2>3, <3>2
        <5>2. ring[n + 1] = NextCell(sizes, ring[n])
          BY <5>1 DEF Consecutive
        <5>3. rest[1] = ring[1 + n]
          BY <5>1, <2>3
        <5>4. QED
          BY <5>1, <5>2, <5>3, <2>4
      <4>2. NextCell(sizes, rest[Len(rest)]) = end
        <5>1. Len(rest) \in 1..Len(rest) /\ Len(rest) + n = Len(ring) /\ Len(ring) > 0
          BY <1>1, <2>3, <3>2
        <5>2. rest[Len(rest)] = ring[Len(rest) + n]
          BY <5>1, <2>3
        <5>3. NextCell(sizes, ring[Len(ring)]) = end
          BY <5>1 DEF Consecutive
        <5>4. QED
          BY <5>1, <5>2, <5>3
      <4>3. ASSUME NEW k \in 1..(Len(rest) - 1)
            PROVE  rest[k + 1] = NextCell(sizes, rest[k])
        <5>1. /\ k \in 1..Len(rest) /\ k + 1 \in 1..Len(rest)
              /\ k + n \in 1..(Len(ring) - 1) /\ (k + 1) + n = (k + n) + 1
          BY <1>1, <2>3, <3>2
        <5>2. rest[k] = ring[k + n] /\ rest[k + 1] = ring[(k + 1) + n]
          BY <5>1, <2>3
        <5>3. ring[(k + n) + 1] = NextCell(sizes, ring[k + n])
          BY <5>1 DEF Consecutive
        <5>4. QED
          BY <5>1, <5>2, <5>3
      <4>4. Len(rest) > 0
        BY <2>3, <3>2, <1>1
      <4>5. QED
        BY <4>1, <4>2, <4>3, <4>4 DEF Consecutive
    <3>3. QED
      BY <1>1, <2>0, <3>1, <3>2
  <2>6. Cardinality(HeadersOf(rest)) = Cardinality(HeadersOf(ring))
    <3>1. ring \in Seq(Nat \X Nat)
      BY SeqMonotonic DEF Cells
    <3>2. \A k \in HeadersOf(ring) : k > n
      <4>1. ASSUME NEW k \in 1..Len(ring), k <= n
            PROVE  ring[k][2] # 0
        BY <1>1, <4>1
      <4>2. QED
        BY <4>1, <1>1 DEF HeadersOf
    <3>3. {k \in HeadersOf(ring) : k > n} = HeadersOf(ring)
      BY <3>2
    <3>4. QED
      BY <2>0, <3>1, <3>3, HeadersBehind DEF rest
  <2>7. QED
    BY <2>1, <2>2, <2>5, <2>6 DEF n
<1>5. QED
  BY <1>1, <1>3, <1>4
-----------------------------------------------------------------------------
(* The steps of the threads.                                               *)

LEMMA RequestFacts ==
    ASSUME ThreadsInv, TypeInv
    PROVE  /\ scheduled \in Seq(Nat) /\ Len(scheduled) \in Nat
           /\ requests \in Seq(Cells(scheduled)) /\ requests \in Seq(Nat \X Nat)
           /\ Headers \in Nat /\ sem \in Nat
           /\ Scheduling \in {0, 1} /\ Taken \in {0, 1}
<1>1. scheduled \in Seq(Nat)
  BY WorkerAssumption, SeqMonotonic DEF TypeInv, RequestsInv
<1>2. requests \in Seq(Cells(scheduled))
  BY DEF TypeInv, RequestsInv
<1>3. requests \in Seq(Nat \X Nat)
  BY <1>2, SeqMonotonic DEF Cells
<1>4. Headers \in Nat
  BY <1>3, HeadersCount DEF Headers
<1>5. QED
  BY <1>1, <1>2, <1>3, <1>4 DEF ThreadsInv, Scheduling, Taken

(* Steps that neither touch the ring nor the request being read; exit may  *)
(* be set.                                                                 *)
LEMMA OrderKept ==
    ASSUME ThreadsInv, TypeInv, OrderInv, UNCHANGED <<requests, scheduled, worked, buf>>,
           size'["worker"] = size["worker"],
           ~exit' => ~exit /\ sem' = sem,
           pc'["host"] \in Stopping => exit',
           pc'["worker"] = pc["worker"]
              \/ {pc["worker"], pc'["worker"]} \subseteq {"none", "wait", "work", "respond"},
           pc'["audio"] = pc["audio"]
              \/ {pc["audio"], pc'["audio"]} \subseteq {"idle", "load_space", "emit", "emit_body", "run"}
    PROVE  OrderInv'
<1>1. Headers' = Headers
  BY DEF Headers
<1>2. Begun' = Begun
  BY <1>1 DEF Begun
<1>3. Scheduling' = Scheduling /\ (pc'["audio"] = "schedule_body" <=> pc["audio"] = "schedule_body")
  BY DEF Scheduling
<1>4. Taken' = Taken /\ (Reading' <=> Reading)
      /\ \A p \in {"read_size", "lock", "ended"} : pc'["worker"] = p <=> pc["worker"] = p
  BY DEF Taken, Reading
<1>5. FirstCell' = FirstCell /\ EndCell' = EndCell
  BY <1>2, <1>3, <1>4 DEF FirstCell, EndCell
<1>6. ReadInOrder'
  BY <1>2, <1>3, <1>4, <1>5 DEF OrderInv, ReadInOrder
<1>7. EachPostIsOneRequest'
  BY <1>1, <1>3, <1>4 DEF OrderInv, EachPostIsOneRequest
<1>8. WorkedInOrder'
  BY DEF OrderInv, WorkedInOrder
<1>9. pc'["audio"] = "schedule_body" => Len(requests') + scheduled'[Len(scheduled')] <= RequestSpace
  BY <1>3 DEF OrderInv
<1>10. QED
  BY <1>6, <1>7, <1>8, <1>9 DEF OrderInv

(* Scheduling a request writes its header, ...                             *)
LEMMA OrderScheduleSize ==
    ASSUME ThreadsInv, TypeInv, OrderInv, RequestsFit, NEW n \in RequestSizes, ScheduleSize(n)
    PROVE  OrderInv'
<1> DEFINE i == Len(scheduled) + 1
<1>0. n \in Nat
  BY WorkerAssumption
<1>1. /\ scheduled' = Append(scheduled, n) /\ Len(scheduled') = i /\ scheduled'[i] = n
      /\ \A k \in 1..Len(scheduled) : scheduled'[k] = scheduled[k]
  BY RequestFacts, AppendProperties DEF ScheduleSize
<1>2. /\ pc["audio"] = "run" /\ pc'["audio"] = "schedule_body"
      /\ pc'["worker"] = pc["worker"] /\ pc'["host"] = pc["host"]
      /\ UNCHANGED <<exit, sem, worked, buf, size>>
  BY DEF ScheduleSize, ThreadsInv, hostVars, semVars, workVars
<1>3. Len(requests) + 1 + n <= RequestSpace
  <2>1. scheduled' # scheduled
    BY <1>1, RequestFacts
  <2>2. QED
    BY <1>1, <2>1 DEF RequestsFit
<1>4. requests' = requests \o <<Header(i)>> /\ Len(requests') = Len(requests) + 1
  <2>1. Len(<<Header(i)>>) = 1 /\ requests' = Written(requests, <<Header(i)>>, RequestSpace)
    BY DEF ScheduleSize
  <2>2. Len(requests) + 1 <= RequestSpace
    BY <1>0, <1>3, RequestFacts, WorkerAssumption
  <2>3. requests' = requests \o <<Header(i)>>
    BY <2>1, <2>2 DEF Written
  <2>4. QED
    BY <2>3, RequestFacts DEF Header
<1>5. Headers' = Headers + 1
  BY <1>4, RequestFacts, HeaderWritten DEF Headers
<1>6. Begun' = Begun
  BY <1>1, <1>5, RequestFacts DEF Begun
<1>7. Scheduling = 0 /\ Scheduling' = 1 /\ Taken' = Taken /\ (Reading' <=> Reading)
  BY <1>2 DEF Scheduling, Taken, Reading
<1>8. Begun \in Int /\ Begun <= Len(scheduled)
  BY RequestFacts DEF Begun
<1>9. Reading \/ pc["worker"] = "lock" => Begun \in 1..Len(scheduled)
  <2>1. Reading \/ pc["worker"] = "lock" => Begun = Len(worked) + 1 /\ Len(worked) \in Nat
    BY DEF OrderInv, ReadInOrder, Reading
  <2>2. QED
    BY <2>1, <1>8
<1>10. FirstCell' = FirstCell
  <2>1. CASE Reading
    <3>1. Header(Begun) \in Cells(scheduled)
      BY <1>9, <2>1 DEF Header, Cells
    <3>2. NextCell(scheduled', Header(Begun)) = NextCell(scheduled, Header(Begun))
      BY <1>0, <1>1, <3>1, RequestFacts, NextCellGrows
    <3>3. QED
      BY <1>6, <1>7, <2>1, <3>2 DEF FirstCell
  <2>2. CASE ~Reading
    BY <1>6, <1>7, <2>2 DEF FirstCell
  <2>3. QED
    BY <2>1, <2>2
<1>11. EndCell = Header(i) /\ EndCell' = NextCell(scheduled', Header(i))
  BY <1>1, <1>2 DEF EndCell
<1>12. Consecutive(requests, scheduled, FirstCell, EndCell)
          => Consecutive(requests', scheduled', FirstCell', EndCell')
  BY <1>0, <1>1, <1>4, <1>10, <1>11, RequestFacts, WriteHeader
<1>13. ReadInOrder'
  <2>1. Begun' + Scheduling' + (IF pc'["worker"] = "read_size" THEN 1 ELSE 0) <= Len(scheduled')
    BY <1>1, <1>2, <1>6, <1>7, <1>8, RequestFacts DEF OrderInv, ReadInOrder
  <2>2. (Reading => size["worker"] = scheduled'[Begun])
        /\ (pc["worker"] = "lock" => buf = Body(Begun, scheduled'[Begun]))
    BY <1>1, <1>9 DEF OrderInv, ReadInOrder
  <2>3. pc["worker"] # "ended" =>
          /\ Begun = Len(worked) + (IF Reading \/ pc["worker"] = "lock" THEN 1 ELSE 0)
          /\ Consecutive(requests', scheduled', FirstCell', EndCell')
    BY <1>12 DEF OrderInv, ReadInOrder
  <2>4. worked \in Seq(Seq(Nat \X Nat))
    BY DEF OrderInv, ReadInOrder
  <2>5. QED
    BY <1>2, <1>6, <1>7, <2>1, <2>2, <2>3, <2>4 DEF ReadInOrder
<1>14. EachPostIsOneRequest'
  BY <1>2, <1>5, <1>7, RequestFacts DEF OrderInv, EachPostIsOneRequest
<1>15. WorkedInOrder'
  <2>1. ASSUME NEW k \in 1..Len(worked)
        PROVE  k <= Len(scheduled') /\ worked[k] = Body(k, scheduled'[k])
    <3>1. k <= Len(scheduled) /\ worked[k] = Body(k, scheduled[k]) /\ k \in Nat /\ k > 0
      BY DEF OrderInv, WorkedInOrder
    <3>2. k \in 1..Len(scheduled)
      BY <3>1, RequestFacts
    <3>3. QED
      BY <1>1, <3>1, <3>2, RequestFacts
  <2>2. QED
    BY <1>2, <2>1 DEF WorkedInOrder
<1>16. Len(requests') + scheduled'[Len(scheduled')] <= RequestSpace
  BY <1>1, <1>3, <1>4
<1>17. QED
  BY <1>2, <1>13, <1>14, <1>15, <1>16 DEF OrderInv

(* ... then its body, for which there is room, ...                         *)
LEMMA OrderScheduleBody ==
    ASSUME ThreadsInv, TypeInv, OrderInv, ScheduleBody
    PROVE  OrderInv'
<1> DEFINE i == Len(scheduled)
<1>1. i > 0 /\ scheduled[i] \in Nat
  BY RequestFacts DEF ScheduleBody, TypeInv, RequestsInv
<1>2. /\ pc["audio"] = "schedule_body" /\ pc'["audio"] = "schedule_post"
      /\ pc'["worker"] = pc["worker"] /\ pc'["host"] = pc["host"]
      /\ UNCHANGED <<exit, sem, worked, buf, size, scheduled>>
  BY DEF ScheduleBody, ThreadsInv, hostVars, semVars, workVars
<1>3. requests' = requests \o Body(i, scheduled[i])
  <2>1. Len(Body(i, scheduled[i])) = scheduled[i]
    BY <1>1 DEF Body
  <2>2. Len(requests) + scheduled[i] <= RequestSpace
    BY <1>2 DEF OrderInv
  <2>3. requests' = Written(requests, Body(i, scheduled[i]), RequestSpace)
    BY DEF ScheduleBody
  <2>4. QED
    BY <2>1, <2>2, <2>3 DEF Written
<1>4. Headers' = Headers
  <2>1. i \in Nat
    BY RequestFacts
  <2>2. HeadersOf(requests') = HeadersOf(requests)
    BY <1>1, <1>3, <2>1, RequestFacts, BodyWritten
  <2>3. QED
    BY <2>2 DEF Headers
<1>5. Begun' = Begun
  BY <1>2, <1>4 DEF Begun
<1>6. Scheduling' = Scheduling /\ Taken' = Taken /\ (Reading' <=> Reading)
  BY <1>2 DEF Scheduling, Taken, Reading
<1>7. FirstCell' = FirstCell
  BY <1>2, <1>5, <1>6 DEF FirstCell
<1>8. EndCell = NextCell(scheduled, Header(i)) /\ EndCell' = Header(i + 1)
  BY <1>2 DEF EndCell
<1>9. Consecutive(requests, scheduled, FirstCell, EndCell)
         => Consecutive(requests', scheduled', FirstCell', EndCell')
  BY <1>1, <1>2, <1>3, <1>7, <1>8, RequestFacts, WriteBody
<1>10. ReadInOrder'
  BY <1>2, <1>5, <1>6, <1>9 DEF OrderInv, ReadInOrder
<1>11. EachPostIsOneRequest'
  BY <1>2, <1>4, <1>6 DEF OrderInv, EachPostIsOneRequest
<1>12. WorkedInOrder'
  BY <1>2 DEF OrderInv, WorkedInOrder
<1>13. QED
  BY <1>2, <1>10, <1>11, <1>12 DEF OrderInv

(* ... then posts.                                                         *)
LEMMA OrderSchedulePost ==
    ASSUME ThreadsInv, TypeInv, OrderInv, SchedulePost
    PROVE  OrderInv'
<1>1. /\ pc["audio"] = "schedule_post" /\ pc'["audio"] = "run" /\ sem' = sem + 1
      /\ pc'["worker"] = pc["worker"] /\ pc'["host"] = pc["host"]
      /\ UNCHANGED <<exit, worked, buf, size, scheduled, requests>>
  BY DEF SchedulePost, ThreadsInv, hostVars, ringVars, workVars
<1>2. Headers' = Headers
  BY <1>1 DEF Headers
<1>3. Begun' = Begun /\ Begun \in Int
  BY <1>1, <1>2, RequestFacts DEF Begun
<1>4. Scheduling = 1 /\ Scheduling' = 0 /\ Taken' = Taken /\ (Reading' <=> Reading)
  BY <1>1 DEF Scheduling, Taken, Reading
<1>5. FirstCell' = FirstCell /\ EndCell' = EndCell
  BY <1>1, <1>3, <1>4 DEF FirstCell, EndCell
<1>6. ReadInOrder'
  <2>1. Begun + 0 + (IF pc["worker"] = "read_size" THEN 1 ELSE 0) <= Len(scheduled)
    BY <1>3, <1>4, RequestFacts DEF OrderInv, ReadInOrder
  <2>2. QED
    BY <1>1, <1>3, <1>4, <1>5, <2>1 DEF OrderInv, ReadInOrder
<1>7. EachPostIsOneRequest'
  BY <1>1, <1>2, <1>4, RequestFacts DEF OrderInv, EachPostIsOneRequest
<1>8. WorkedInOrder'
  BY <1>1 DEF OrderInv, WorkedInOrder
<1>9. QED
  BY <1>1, <1>6, <1>7, <1>8 DEF OrderInv

(* The worker thread takes a post, ...                                     *)
LEMMA OrderWait ==
    ASSUME ThreadsInv, TypeInv, OrderInv, Wait
    PROVE  OrderInv'
<1>1. /\ pc["worker"] = "wait" /\ pc'["worker"] = "check_exit" /\ sem' = sem - 1
      /\ pc'["audio"] = pc["audio"] /\ pc'["host"] = pc["host"]
      /\ UNCHANGED <<exit, worked, buf, size, scheduled, requests>>
  BY DEF Wait, ThreadsInv, hostVars, ringVars, workVars
<1>2. Headers' = Headers
  BY <1>1 DEF Headers
<1>3. Begun' = Begun
  BY <1>1, <1>2 DEF Begun
<1>4. Scheduling' = Scheduling /\ Taken = 0 /\ Taken' = 1 /\ ~Reading /\ ~Reading'
  BY <1>1 DEF Scheduling, Taken, Reading
<1>5. FirstCell' = FirstCell /\ EndCell' = EndCell
  BY <1>1, <1>3, <1>4 DEF FirstCell, EndCell
<1>6. ReadInOrder'
  BY <1>1, <1>3, <1>4, <1>5 DEF OrderInv, ReadInOrder
<1>7. EachPostIsOneRequest'
  BY <1>1, <1>2, <1>4, RequestFacts DEF OrderInv, EachPostIsOneRequest
<1>8. WorkedInOrder'
  BY <1>1 DEF OrderInv, WorkedInOrder
<1>9. QED
  BY <1>1, <1>6, <1>7, <1>8 DEF OrderInv

(* ... finds that there is a request, unless it is to end, ...             *)
LEMMA OrderCheckExit ==
    ASSUME ThreadsInv, TypeInv, OrderInv, CheckExit
    PROVE  OrderInv'
<1>1. /\ pc["worker"] = "check_exit" /\ pc'["worker"] = (IF exit THEN "ended" ELSE "read_size")
      /\ pc'["audio"] = pc["audio"] /\ pc'["host"] = pc["host"]
      /\ UNCHANGED <<exit, sem, worked, buf, size, scheduled, requests>>
  BY DEF CheckExit, ThreadsInv, data, hostVars, semVars, ringVars, workVars
<1>2. Headers' = Headers
  BY <1>1 DEF Headers
<1>3. Begun' = Begun
  BY <1>1, <1>2 DEF Begun
<1>4. Scheduling' = Scheduling /\ Taken = 1 /\ (~exit => Taken' = 1) /\ ~Reading /\ ~Reading'
  BY <1>1 DEF Scheduling, Taken, Reading
<1>5. FirstCell' = FirstCell /\ EndCell' = EndCell
  BY <1>1, <1>3, <1>4 DEF FirstCell, EndCell
<1>6. ReadInOrder'
  <2>1. ~exit => Begun + Scheduling + 1 <= Len(scheduled)
    BY <1>4, RequestFacts DEF OrderInv, EachPostIsOneRequest, Begun
  <2>2. Begun + Scheduling + (IF pc'["worker"] = "read_size" THEN 1 ELSE 0) <= Len(scheduled)
    BY <1>1, <2>1 DEF OrderInv, ReadInOrder
  <2>3. QED
    BY <1>1, <1>3, <1>4, <1>5, <2>2 DEF OrderInv, ReadInOrder
<1>7. EachPostIsOneRequest'
  BY <1>1, <1>2, <1>4 DEF OrderInv, EachPostIsOneRequest
<1>8. WorkedInOrder'
  BY <1>1 DEF OrderInv, WorkedInOrder
<1>9. QED
  BY <1>1, <1>6, <1>7, <1>8 DEF OrderInv

(* ... reads its header, ...                                               *)
LEMMA OrderReadSize ==
    ASSUME ThreadsInv, TypeInv, OrderInv, ReadSize
    PROVE  OrderInv'
<1> DEFINE r == Begun + 1
<1>1. /\ pc["worker"] = "read_size" /\ pc'["worker"] = "realloc"
      /\ pc'["audio"] = pc["audio"] /\ pc'["host"] = pc["host"]
      /\ requests' = Rest(requests, 1)
      /\ UNCHANGED <<exit, sem, worked, buf, scheduled>>
  BY DEF ReadSize, ThreadsInv, hostVars, semVars, workVars
<1>2. Scheduling' = Scheduling /\ Taken = 1 /\ Taken' = 0 /\ ~Reading /\ Reading'
  BY <1>1 DEF Scheduling, Taken, Reading
<1>3. Begun \in Nat /\ Begun = Len(worked) /\ r + Scheduling <= Len(scheduled)
  BY <1>1, <1>2, RequestFacts DEF OrderInv, ReadInOrder
<1>4. r \in 1..Len(scheduled) /\ (Scheduling = 1 => r < Len(scheduled))
  BY <1>3, RequestFacts
<1>5. WholeRequest(scheduled, EndCell, r)
  BY <1>4 DEF WholeRequest, EndCell, Scheduling
<1>6. Consecutive(requests, scheduled, Header(r), EndCell)
  BY <1>1, <1>2 DEF OrderInv, ReadInOrder, FirstCell
<1>7. /\ HeaderSizes(requests, scheduled, RequestSpace) = {scheduled[r]}
      /\ Consecutive(requests', scheduled, NextCell(scheduled, Header(r)), EndCell)
      /\ Headers' = Headers - 1
  <2> HIDE DEF r
  <2>1. /\ HeaderSizes(requests, scheduled, RequestSpace) = {scheduled[r]}
        /\ Consecutive(Rest(requests, 1), scheduled, NextCell(scheduled, Header(r)), EndCell)
        /\ Cardinality(HeadersOf(Rest(requests, 1))) = Cardinality(HeadersOf(requests)) - 1
    BY <1>4, <1>5, <1>6, RequestFacts, ReadHeader
  <2>2. QED
    BY <1>1, <2>1 DEF Headers
<1>8. size'["worker"] = scheduled[r]
  BY <1>7 DEF ReadSize, TypeInv, LocalsInv
<1>9. Begun' = r
  BY <1>1, <1>7, RequestFacts DEF Begun
<1>10. FirstCell' = NextCell(scheduled, Header(r)) /\ EndCell' = EndCell
  BY <1>1, <1>2, <1>9 DEF FirstCell, EndCell
<1>11. ReadInOrder'
  <2>1. worked \in Seq(Seq(Nat \X Nat))
    BY DEF OrderInv, ReadInOrder
  <2>2. Begun' + Scheduling' + 0 <= Len(scheduled)
    BY <1>2, <1>3, <1>9, RequestFacts
  <2>3. Begun' = Len(worked) + 1 /\ Consecutive(requests', scheduled, FirstCell', EndCell')
    BY <1>3, <1>7, <1>9, <1>10
  <2>4. QED
    BY <1>1, <1>2, <1>8, <1>9, <2>1, <2>2, <2>3 DEF ReadInOrder
<1>12. EachPostIsOneRequest'
  BY <1>1, <1>2, <1>7, RequestFacts DEF OrderInv, EachPostIsOneRequest
<1>13. WorkedInOrder'
  BY <1>1 DEF OrderInv, WorkedInOrder
<1>14. pc'["audio"] = "schedule_body" => Len(requests') + scheduled'[Len(scheduled')] <= RequestSpace
  <2>1. Len(requests') <= Len(requests) /\ Len(requests') \in Nat /\ Len(requests) \in Nat
    BY <1>1, RequestFacts, RestIs
  <2>2. pc["audio"] = "schedule_body" => scheduled[Len(scheduled)] \in Nat
    BY RequestFacts DEF TypeInv, RequestsInv
  <2>3. QED
    BY <1>1, <2>1, <2>2, WorkerAssumption DEF OrderInv
<1>15. QED
  BY <1>1, <1>11, <1>12, <1>13, <1>14 DEF OrderInv

(* ... makes room for its body, or ends, ...                               *)
LEMMA OrderRealloc ==
    ASSUME ThreadsInv, TypeInv, OrderInv, Realloc
    PROVE  OrderInv'
<1>1. /\ pc["worker"] = "realloc" /\ pc'["worker"] \in {"read_body", "ended"}
      /\ pc'["audio"] = pc["audio"] /\ pc'["host"] = pc["host"]
      /\ UNCHANGED <<exit, sem, worked, size, scheduled, requests>>
  BY DEF Realloc, ThreadsInv, hostVars, semVars, ringVars
<1>2. Headers' = Headers
  BY <1>1 DEF Headers
<1>3. Begun' = Begun
  BY <1>1, <1>2 DEF Begun
<1>4. Scheduling' = Scheduling /\ Taken = 0 /\ Taken' = 0 /\ Reading
      /\ (pc'["worker"] # "ended" => Reading')
  BY <1>1 DEF Scheduling, Taken, Reading
<1>5. (Reading' => FirstCell' = FirstCell) /\ EndCell' = EndCell
  BY <1>1, <1>3, <1>4 DEF FirstCell, EndCell
<1>6. ReadInOrder'
  BY <1>1, <1>3, <1>4, <1>5 DEF OrderInv, ReadInOrder
<1>7. EachPostIsOneRequest'
  BY <1>1, <1>2, <1>4 DEF OrderInv, EachPostIsOneRequest
<1>8. WorkedInOrder'
  BY <1>1 DEF OrderInv, WorkedInOrder
<1>9. QED
  BY <1>1, <1>6, <1>7, <1>8 DEF OrderInv

(* ... reads the body, ...                                                 *)
LEMMA OrderReadBody ==
    ASSUME ThreadsInv, TypeInv, OrderInv, ReadBody
    PROVE  OrderInv'
<1> DEFINE r == Begun
           n == scheduled[r]
<1>1. /\ pc["worker"] = "read_body" /\ pc'["worker"] = "lock"
      /\ pc'["audio"] = pc["audio"] /\ pc'["host"] = pc["host"]
      /\ requests' = Rest(requests, size["worker"]) /\ buf' = Contents(requests, size["worker"])
      /\ UNCHANGED <<exit, sem, worked, size, scheduled>>
  BY DEF ReadBody, ThreadsInv, hostVars, semVars
<1>2. Scheduling' = Scheduling /\ Taken' = Taken /\ Reading /\ ~Reading'
  BY <1>1 DEF Scheduling, Taken, Reading
<1>3. r \in Nat /\ r = Len(worked) + 1 /\ r + Scheduling <= Len(scheduled)
  BY <1>1, <1>2, RequestFacts DEF OrderInv, ReadInOrder
<1>4. r \in 1..Len(scheduled) /\ (Scheduling = 1 => r < Len(scheduled))
  <2>1. Len(worked) \in Nat
    BY DEF OrderInv, ReadInOrder
  <2>2. QED
    BY <1>3, <2>1, RequestFacts
<1>5. WholeRequest(scheduled, EndCell, r)
  BY <1>4 DEF WholeRequest, EndCell, Scheduling
<1>6. Consecutive(requests, scheduled, NextCell(scheduled, Header(r)), EndCell) /\ size["worker"] = n
  BY <1>1, <1>2 DEF OrderInv, ReadInOrder, FirstCell
<1>7. /\ buf' = Body(r, n)
      /\ Consecutive(requests', scheduled, Header(r + 1), EndCell)
      /\ Headers' = Headers
  <2> HIDE DEF r
  <2>1. QED
    BY <1>1, <1>4, <1>5, <1>6, RequestFacts, ReadWholeBody DEF Headers
<1>8. Begun' = r
  BY <1>1, <1>7 DEF Begun
<1>9. FirstCell' = Header(r + 1) /\ EndCell' = EndCell
  BY <1>1, <1>2, <1>8 DEF FirstCell, EndCell
<1>10. ReadInOrder'
  <2>1. worked \in Seq(Seq(Nat \X Nat))
    BY DEF OrderInv, ReadInOrder
  <2>2. Begun' + Scheduling' + 0 <= Len(scheduled)
    BY <1>2, <1>3, <1>8, RequestFacts
  <2>3. Begun' = Len(worked) + 1 /\ Consecutive(requests', scheduled, FirstCell', EndCell')
    BY <1>3, <1>7, <1>8, <1>9
  <2>4. QED
    BY <1>1, <1>2, <1>7, <1>8, <2>1, <2>2, <2>3 DEF ReadInOrder
<1>11. EachPostIsOneRequest'
  BY <1>1, <1>2, <1>7 DEF OrderInv, EachPostIsOneRequest
<1>12. WorkedInOrder'
  BY <1>1 DEF OrderInv, WorkedInOrder
<1>13. pc'["audio"] = "schedule_body" => Len(requests') + scheduled'[Len(scheduled')] <= RequestSpace
  <2>1. Len(requests') <= Len(requests) /\ Len(requests') \in Nat /\ Len(requests) \in Nat
    BY <1>1, RequestFacts, RestIs DEF TypeInv, LocalsInv
  <2>2. pc["audio"] = "schedule_body" => scheduled[Len(scheduled)] \in Nat
    BY RequestFacts DEF TypeInv, RequestsInv
  <2>3. QED
    BY <1>1, <2>1, <2>2, WorkerAssumption DEF OrderInv
<1>14. QED
  BY <1>1, <1>10, <1>11, <1>12, <1>13 DEF OrderInv

(* ... and calls work() with it.                                           *)
LEMMA OrderWorkLock ==
    ASSUME ThreadsInv, TypeInv, OrderInv, WorkLock("worker")
    PROVE  OrderInv'
<1> DEFINE r == Begun
<1>1. /\ pc["worker"] = "lock" /\ pc'["worker"] = "work"
      /\ pc'["audio"] = pc["audio"] /\ pc'["host"] = pc["host"]
      /\ worked' = Append(worked, buf)
      /\ UNCHANGED <<exit, sem, buf, size, scheduled, requests>>
  BY DEF WorkLock, ThreadsInv, hostVars, ringVars
<1>2. Headers' = Headers
  BY <1>1 DEF Headers
<1>3. Begun' = r
  BY <1>1, <1>2 DEF Begun
<1>4. Scheduling' = Scheduling /\ Taken' = Taken /\ ~Reading /\ ~Reading'
  BY <1>1 DEF Scheduling, Taken, Reading
<1>5. FirstCell' = FirstCell /\ EndCell' = EndCell
  BY <1>1, <1>3, <1>4 DEF FirstCell, EndCell
<1>6. worked \in Seq(Seq(Nat \X Nat)) /\ r = Len(worked) + 1
      /\ r + Scheduling <= Len(scheduled) /\ buf = Body(r, scheduled[r])
      /\ Consecutive(requests, scheduled, FirstCell, EndCell)
  BY <1>1, RequestFacts DEF OrderInv, ReadInOrder, Begun
<1>7. r \in 1..Len(scheduled)
  BY <1>6, RequestFacts
<1>8. buf \in Seq(Nat \X Nat)
  <2>1. scheduled[r] \in Nat /\ r \in Nat
    BY <1>7, RequestFacts
  <2>2. Body(r, scheduled[r]) \in Seq(Nat \X Nat)
    BY <2>1 DEF Body
  <2>3. QED
    BY <1>6, <2>2
<1>9. /\ worked' \in Seq(Seq(Nat \X Nat)) /\ Len(worked') = r /\ worked'[r] = buf
      /\ \A k \in 1..Len(worked) : worked'[k] = worked[k]
  BY <1>1, <1>6, <1>8, AppendProperties
<1>10. ReadInOrder'
  BY <1>1, <1>3, <1>4, <1>5, <1>6, <1>9, RequestFacts DEF ReadInOrder
<1>11. EachPostIsOneRequest'
  BY <1>1, <1>2, <1>4 DEF OrderInv, EachPostIsOneRequest
<1>12. WorkedInOrder'
  <2>1. ASSUME NEW k \in 1..Len(worked')
        PROVE  k <= Len(scheduled) /\ worked'[k] = Body(k, scheduled[k])
    <3>1. CASE k = r
      BY <1>6, <1>7, <1>9, <3>1
    <3>2. CASE k # r
      <4>1. k \in 1..Len(worked)
        BY <1>6, <1>7, <1>9, <3>2
      <4>2. QED
        BY <1>9, <4>1 DEF OrderInv, WorkedInOrder
    <3>3. QED
      BY <3>1, <3>2
  <2>2. QED
    BY <1>1, <2>1 DEF WorkedInOrder
<1>13. QED
  BY <1>1, <1>10, <1>11, <1>12 DEF OrderInv

LEMMA OrderStep ==
    ASSUME ThreadsInv, TypeInv, OrderInv, [Next]_vars, [RequestsFit]_vars
    PROVE  OrderInv'
<1>1. CASE Restore \/ Delete \/ WorkerInit \/ FinishPost \/ FinishJoin \/ Destroy
  <2>1. /\ UNCHANGED <<requests, scheduled, worked, buf, size>>
        /\ ~exit' => ~exit /\ sem' = sem
        /\ pc'["host"] \in Stopping => exit'
    BY <1>1 DEF Restore, Delete, WorkerInit, CreateThread, NewRing, FinishPost, FinishJoin, Destroy,
       ThreadsInv, OrderInv, Stopping, data, hostVars, semVars, ringVars, workVars
  <2>2. /\ pc'["audio"] = pc["audio"]
        /\ pc'["worker"] = pc["worker"]
              \/ {pc["worker"], pc'["worker"]} \subseteq {"none", "wait", "work", "respond"}
    BY <1>1 DEF Restore, Delete, WorkerInit, CreateThread, NewRing, FinishPost, FinishJoin, Destroy,
       ThreadsInv, Starting
  <2>3. QED
    BY <2>1, <2>2, OrderKept
<1>2. CASE \E t \in {"host", "worker"} : Work(t) /\ ~(t = "worker" /\ WorkLock(t))
  <2>1. PICK t \in {"host", "worker"} : Work(t) /\ ~(t = "worker" /\ WorkLock(t))
    BY <1>2
  <2>2. UNCHANGED <<requests, scheduled, worked, buf, size, exit, sem>>
    BY <2>1 DEF Work, WorkLock, WorkUnlock, RespondSize, RespondBody, hostVars, semVars, ringVars,
       workVars
  <2>3. /\ pc'["audio"] = pc["audio"]
        /\ pc'["host"] \in Stopping => exit
        /\ pc'["worker"] = pc["worker"]
              \/ {pc["worker"], pc'["worker"]} \subseteq {"none", "wait", "work", "respond"}
    BY <2>1 DEF Work, WorkLock, WorkUnlock, RespondSize, RespondBody, ThreadsInv, OrderInv, Stopping
  <2>4. QED
    BY <2>2, <2>3, OrderKept
<1>3. CASE Process \/ LoadSpace \/ EmitSize \/ EmitBody \/ EmitDone \/ RunReturns
  <2>1. /\ UNCHANGED <<requests, scheduled, worked, buf, exit, sem>>
        /\ size'["worker"] = size["worker"]
    BY <1>3 DEF Process, LoadSpace, EmitSize, EmitBody, EmitDone, RunReturns, data, hostVars,
       semVars, ringVars, workVars, TypeInv, LocalsInv
  <2>2. /\ pc'["worker"] = pc["worker"] /\ pc'["host"] = pc["host"]
        /\ {pc["audio"], pc'["audio"]} \subseteq {"idle", "load_space", "emit", "emit_body", "run"}
    BY <1>3 DEF Process, LoadSpace, EmitSize, EmitBody, EmitDone, RunReturns, ThreadsInv
  <2>3. QED
    BY <2>1, <2>2, OrderKept DEF OrderInv
<1>4. CASE UNCHANGED vars
  <2>1. UNCHANGED <<requests, scheduled, worked, buf, size, exit, sem, pc>>
    BY <1>4 DEF vars, data, hostVars, semVars, ringVars, workVars
  <2>2. QED
    BY <2>1, OrderKept DEF OrderInv
<1>5. CASE \E n \in RequestSizes : ScheduleSize(n)
  <2>1. PICK n \in RequestSizes : ScheduleSize(n)
    BY <1>5
  <2>2. vars' # vars
    <3>1. pc["audio"] = "run" /\ pc'["audio"] = "schedule_body"
      BY <2>1 DEF ScheduleSize, ThreadsInv
    <3>2. QED
      BY <3>1 DEF vars
  <2>3. QED
    BY <2>1, <2>2, OrderScheduleSize
<1>6. CASE ScheduleBody \/ SchedulePost
  BY <1>6, OrderScheduleBody, OrderSchedulePost
<1>7. CASE Wait \/ CheckExit \/ ReadSize \/ Realloc \/ ReadBody \/ WorkLock("worker")
  BY <1>7, OrderWait, OrderCheckExit, OrderReadSize, OrderRealloc, OrderReadBody, OrderWorkLock
<1>8. CASE Work("host") \/ Work("worker")
  BY <1>2, <1>7, <1>8
<1>9. QED
  BY <1>1, <1>3, <1>4, <1>5, <1>6, <1>7, <1>8
     DEF Next, HostThread, HostCall, AudioThread, AudioCall, WorkerThread, Deleted

LEMMA InitOrder ==
    ASSUME Init
    PROVE  OrderInv
<1>1. requests = << >> /\ scheduled = << >> /\ worked = << >> /\ sem = 0 /\ exit = FALSE
      /\ pc = [host |-> "create", audio |-> "idle", worker |-> "none"]
  BY DEF Init
<1>2. Headers = 0
  <2>1. HeadersOf(requests) = {}
    BY <1>1 DEF HeadersOf
  <2>2. QED
    BY <2>1, FS_EmptySet DEF Headers
<1>3. Begun = 0 /\ Taken = 0 /\ Scheduling = 0 /\ ~Reading
  BY <1>1, <1>2 DEF Begun, Taken, Scheduling, Reading
<1>4. FirstCell = Header(1) /\ EndCell = Header(1)
  BY <1>1, <1>3 DEF FirstCell, EndCell
<1>5. ReadInOrder
  BY <1>1, <1>3, <1>4 DEF ReadInOrder, Consecutive
<1>6. QED
  BY <1>1, <1>2, <1>3, <1>5 DEF OrderInv, EachPostIsOneRequest, WorkedInOrder, Stopping

(* The requests ring holds consecutive cells of the requests scheduled,    *)
(* each post to the semaphore stands for a header in it, and the worker    *)
(* thread has called work() with every request before it: in any run in    *)
(* which no request is scheduled that the ring has no room for.            *)
THEOREM OrderInvariant == Spec /\ [][RequestsFit]_vars => []OrderInv
<1>1. ThreadsInv /\ TypeInv /\ OrderInv /\ [Next]_vars /\ [RequestsFit]_vars => OrderInv'
  BY OrderStep
<1>2. QED
  BY <1>1, InitOrder, ThreadsInvariant, TypesInvariant, PTL DEF Spec

(* work() gets every request once, whole, and in the order scheduled, when *)
(* the ring has room for each.                                             *)
THEOREM RequestsWorkedInOrder == Spec /\ [][RequestsFit]_vars => []WorkedInOrder
<1>1. OrderInv => WorkedInOrder
  BY DEF OrderInv
<1>2. QED
  BY <1>1, OrderInvariant, PTL

(* Each post stands for one request in the ring, when the ring has room    *)
(* for each.                                                               *)
THEOREM PostsAreRequests == Spec /\ [][RequestsFit]_vars => []EachPostIsOneRequest
<1>1. OrderInv => EachPostIsOneRequest
  BY DEF OrderInv
<1>2. QED
  BY <1>1, OrderInvariant, PTL
=============================================================================
