----------------------------- MODULE JalvWorker -----------------------------
(***************************************************************************)
(* The worker extension of one plugin instance: jalv_worker_*() and the    *)
(* two JalvWorkers of the context, from aap_lv2_plugin_new() to            *)
(* aap_lv2_plugin_delete().  Three threads take part:                      *)
(*   "audio"   process(): emit_responses() for both workers, then run(),   *)
(*             from which the plugin calls schedule_work();                *)
(*   "worker"  worker_func(), which calls the plugin's work();             *)
(*   "host"    creates and deletes the instance, and restores states: the  *)
(*             plugin's restore() schedules on state_worker, which is not  *)
(*             threaded and calls work() at once.                          *)
(* Both sides of work() may respond(), each on the ring of its worker.     *)
(*                                                                         *)
(* A ring is the FIFO that ZixRing implements, its calls atomic.  It is    *)
(* measured in cells of four bytes, the size of a message's header; a      *)
(* cell is <<i, k>>, cell k of the i-th message, its header being cell 0.  *)
(***************************************************************************)
EXTENDS Integers, Sequences, FiniteSets

CONSTANTS
    RequestSpace,    \* cells the requests ring holds
    ResponseSpace,   \* cells a responses ring holds
    RequestSizes,    \* the sizes of requests a plugin schedules, in cells
    ResponseSizes,   \* the sizes of responses a plugin gives
    Modulus,         \* how many values the uint32_t read_space has
    MaxRequests,     \* bounds, so that TLC terminates: on the requests,
    MaxResponses,    \* on the responses of each worker
    MaxRestores      \* and on the state restores

ASSUME WorkerAssumption ==
    /\ RequestSpace \in Nat /\ ResponseSpace \in Nat
    /\ RequestSizes \subseteq Nat /\ ResponseSizes \subseteq Nat
    /\ Modulus \in Nat /\ Modulus > ResponseSpace
    /\ MaxRequests \in Nat /\ MaxResponses \in Nat /\ MaxRestores \in Nat

VARIABLES
    pc,              \* where each thread is
    exit,            \* AAPLV2PluginContext::exit
    sem,             \* worker.sem
    work_lock,       \* AAPLV2PluginContext::work_lock
    rings,           \* the rings that are allocated
    requests,        \* worker.requests
    responses,       \* worker.responses and state_worker.responses
    size,            \* the local variable size of emit_responses and worker_func
    buf,             \* worker_func's buf: what was read into it
    read_space,      \* emit_responses' read_space
    emitting,        \* the worker whose responses are being emitted
    scheduled,       \* the sizes of the requests scheduled so far
    worked,          \* what the worker thread has called work() with
    responded,       \* the sizes of the responses given so far, per worker
    delivered,       \* how many times work_response() was called, per worker
    answer,          \* what it was last called with
    restores         \* how many restores have begun

hostVars == <<exit, rings, restores>>
semVars == <<sem, work_lock>>
ringVars == <<requests, responses>>
workVars == <<buf, worked, responded>>
emitVars == <<read_space, emitting, delivered, answer>>
data == <<hostVars, semVars, ringVars, workVars, emitVars, size, scheduled>>
vars == <<pc, data>>

Workers == {"worker", "state"}
Threads == {"host", "audio", "worker"}

(* jalv_worker_respond() is handed the worker whose work() is running.     *)
WorkerOf(t) == IF t = "host" THEN "state" ELSE "worker"

Null == <<<<0, 0>>>>     \* no buffer
Junk == <<<<0, 1>>>>     \* a buffer nothing was read into
-----------------------------------------------------------------------------
(* Messages, and the ring calls.  A call that finds too little space or    *)
(* too few cells does nothing, and so does one of size 0.                  *)

Header(i) == <<i, 0>>
Body(i, n) == [k \in 1..n |-> <<i, k>>]

Written(ring, cells, space) ==
    IF Len(ring) + Len(cells) <= space THEN ring \o cells ELSE ring

CanRead(ring, n) == n > 0 /\ n <= Len(ring)
Rest(ring, n) == IF CanRead(ring, n) THEN SubSeq(ring, n + 1, Len(ring)) ELSE ring
Contents(ring, n) ==
    IF n = 0 THEN << >> ELSE IF CanRead(ring, n) THEN SubSeq(ring, 1, n) ELSE Junk

(* The sizes that reading a header can yield: 0 if nothing could be read,  *)
(* and any number, up to one too big for the ring, if the cell read is     *)
(* part of a body.                                                         *)
HeaderSizes(ring, sizes, space) ==
    IF ring = << >> THEN {0}
    ELSE IF Head(ring)[2] = 0 THEN {sizes[Head(ring)[1]]}
    ELSE 0..(space + 1)
-----------------------------------------------------------------------------
Init ==
    /\ pc = [host |-> "create", audio |-> "idle", worker |-> "none"]
    /\ exit = FALSE
    /\ sem = 0
    /\ work_lock = 1
    /\ rings = {}
    /\ requests = << >>
    /\ responses = [w \in Workers |-> << >>]
    /\ size = [t \in {"audio", "worker"} |-> 0]
    /\ buf = Null
    /\ read_space = 0
    /\ emitting = "state"
    /\ scheduled = << >>
    /\ worked = << >>
    /\ responded = [w \in Workers |-> << >>]
    /\ delivered = [w \in Workers |-> 0]
    /\ answer = [worker |-> "worker", n |-> 0, data |-> << >>]
    /\ restores = 0

Goto(t, from, to) == pc[t] = from /\ pc' = [pc EXCEPT ![t] = to]

-----------------------------------------------------------------------------
(* aap_lv2_plugin_new(): jalv_worker_init() of worker, which starts the    *)
(* thread before it allocates the rings, then of state_worker.             *)

CreateThread ==
    /\ pc["host"] = "create"
    /\ pc' = [pc EXCEPT !["host"] = "new_requests", !["worker"] = "wait"]
    /\ UNCHANGED data

NewRing(from, ring, to) ==
    /\ Goto("host", from, to)
    /\ rings' = rings \cup {ring}
    /\ UNCHANGED <<semVars, ringVars, workVars, emitVars, exit, restores, size, scheduled>>

WorkerInit ==
    \/ CreateThread
    \/ NewRing("new_requests", "requests", "new_responses")
    \/ NewRing("new_responses", "worker", "new_state_responses")
    \/ NewRing("new_state_responses", "state", "idle")

(* restore() schedules: jalv_worker_schedule() of a worker without thread. *)
Restore ==
    /\ restores < MaxRestores
    /\ Goto("host", "idle", "lock")
    /\ restores' = restores + 1
    /\ UNCHANGED <<semVars, ringVars, workVars, emitVars, exit, rings, size, scheduled>>

(* aap_lv2_plugin_delete(), which a host calls when it no longer processes *)
Delete ==
    /\ pc["audio"] = "idle"
    /\ Goto("host", "idle", "finish")
    /\ exit' = TRUE
    /\ UNCHANGED <<semVars, ringVars, workVars, emitVars, rings, restores, size, scheduled>>

(* Faulty: nothing wakes the thread. *)
FinishNoPost ==
    /\ Goto("host", "finish", "join")
    /\ UNCHANGED data

(* Faulty: the thread is left to itself. *)
FinishDetach ==
    /\ Goto("host", "join", "destroy")
    /\ UNCHANGED data

(* ... jalv_worker_finish(): wake the thread and join it ...               *)
FinishPost ==
    /\ Goto("host", "finish", "join")
    /\ sem' = sem + 1
    /\ UNCHANGED <<hostVars, ringVars, workVars, emitVars, work_lock, size, scheduled>>

FinishJoin ==
    /\ pc["worker"] = "ended"
    /\ Goto("host", "join", "destroy")
    /\ UNCHANGED data

(* ... and jalv_worker_destroy() of worker; state_worker keeps its rings.  *)
Destroy ==
    /\ Goto("host", "destroy", "deleted")
    /\ rings' = rings \ {"requests", "worker"}
    /\ UNCHANGED <<semVars, ringVars, workVars, emitVars, exit, restores, size, scheduled>>
-----------------------------------------------------------------------------
(* work(), between zix_sem_wait() and zix_sem_post() of work_lock, for the *)
(* thread t that calls it.                                                 *)

(* Faulty: work_lock is not waited for. *)
WorkNoLock(t) ==
    /\ Goto(t, "lock", "work")
    /\ worked' = IF t = "worker" THEN Append(worked, buf) ELSE worked
    /\ UNCHANGED <<hostVars, semVars, ringVars, emitVars, buf, responded, size, scheduled>>

WorkLock(t) ==
    /\ work_lock > 0
    /\ Goto(t, "lock", "work")
    /\ work_lock' = work_lock - 1
    /\ worked' = IF t = "worker" THEN Append(worked, buf) ELSE worked
    /\ UNCHANGED <<hostVars, ringVars, emitVars, sem, buf, responded, size, scheduled>>

WorkUnlock(t) ==
    /\ Goto(t, "work", IF t = "host" THEN "idle" ELSE "wait")
    /\ work_lock' = work_lock + 1
    /\ UNCHANGED <<hostVars, ringVars, workVars, emitVars, sem, size, scheduled>>

(* jalv_worker_respond() writes the header and the body one after another. *)
RespondSize(t, n) ==
    LET w == WorkerOf(t) IN
    /\ Len(responded[w]) < MaxResponses
    /\ Goto(t, "work", "respond")
    /\ responded' = [responded EXCEPT ![w] = Append(@, n)]
    /\ responses' = [responses EXCEPT
          ![w] = Written(@, <<Header(Len(responded[w]) + 1)>>, ResponseSpace)]
    /\ UNCHANGED <<hostVars, semVars, emitVars, requests, buf, worked, size, scheduled>>

RespondBody(t) ==
    LET w == WorkerOf(t)
        i == Len(responded[w])
    IN
    /\ Goto(t, "respond", "work")
    /\ responses' = [responses EXCEPT
          ![w] = Written(@, Body(i, responded[w][i]), ResponseSpace)]
    /\ UNCHANGED <<hostVars, semVars, workVars, emitVars, requests, size, scheduled>>

Work(t) ==
    \/ WorkLock(t)
    \/ WorkUnlock(t)
    \/ \E n \in ResponseSizes : RespondSize(t, n)
    \/ RespondBody(t)
-----------------------------------------------------------------------------
(* worker_func().                                                          *)

(* Faulty: the semaphore is looked at, not taken. *)
WaitNoTake ==
    /\ sem > 0
    /\ Goto("worker", "wait", "check_exit")
    /\ UNCHANGED data

Wait ==
    /\ sem > 0
    /\ Goto("worker", "wait", "check_exit")
    /\ sem' = sem - 1
    /\ UNCHANGED <<hostVars, ringVars, workVars, emitVars, work_lock, size, scheduled>>

CheckExit ==
    /\ Goto("worker", "check_exit", IF exit THEN "ended" ELSE "read_size")
    /\ UNCHANGED data

ReadSize ==
    /\ Goto("worker", "read_size", "realloc")
    /\ \E n \in HeaderSizes(requests, scheduled, RequestSpace) :
          size' = [size EXCEPT !["worker"] = n]
    /\ requests' = Rest(requests, 1)
    /\ UNCHANGED <<hostVars, semVars, workVars, emitVars, responses, scheduled>>

(* realloc() of a buffer to size 0 frees it and returns NULL, as it may    *)
(* for a size that no request has; then the thread ends.                   *)
Realloc ==
    LET n == size["worker"] IN
    \/ /\ n = 0 => buf = Null
       /\ Goto("worker", "realloc", "read_body")
       /\ buf' = Junk
       /\ UNCHANGED <<hostVars, semVars, ringVars, emitVars, worked, responded, size, scheduled>>
    \/ /\ (n = 0 /\ buf # Null) \/ n > RequestSpace
       /\ Goto("worker", "realloc", "ended")
       /\ buf' = Null
       /\ UNCHANGED <<hostVars, semVars, ringVars, emitVars, worked, responded, size, scheduled>>

(* Faulty: the body is peeked at and stays in the ring. *)
PeekBody ==
    /\ Goto("worker", "read_body", "lock")
    /\ buf' = Contents(requests, size["worker"])
    /\ UNCHANGED <<hostVars, semVars, ringVars, emitVars, worked, responded, size, scheduled>>

ReadBody ==
    LET n == size["worker"] IN
    /\ Goto("worker", "read_body", "lock")
    /\ buf' = Contents(requests, n)
    /\ requests' = Rest(requests, n)
    /\ UNCHANGED <<hostVars, semVars, emitVars, responses, worked, responded, size, scheduled>>

WorkerThread == Wait \/ CheckExit \/ ReadSize \/ Realloc \/ ReadBody \/ Work("worker")
-----------------------------------------------------------------------------
(* process(): emit_responses() of state_worker, then of worker ...         *)

Process ==
    /\ pc["host"] \in {"idle", "lock", "work", "respond"}
    /\ Goto("audio", "idle", "load_space")
    /\ emitting' = "state"
    /\ UNCHANGED <<hostVars, semVars, ringVars, workVars, read_space, delivered, answer, size, scheduled>>

LoadSpace ==
    /\ Goto("audio", "load_space", "emit")
    /\ read_space' = Len(responses[emitting])
    /\ UNCHANGED <<hostVars, semVars, ringVars, workVars, emitting, delivered, answer, size, scheduled>>

EmitSize ==
    /\ read_space > 0
    /\ Goto("audio", "emit", "emit_body")
    /\ \E n \in HeaderSizes(responses[emitting], responded[emitting], ResponseSpace) :
          size' = [size EXCEPT !["audio"] = n]
    /\ responses' = [responses EXCEPT ![emitting] = Rest(@, 1)]
    /\ UNCHANGED <<hostVars, semVars, workVars, emitVars, requests, scheduled>>

(* What is left of read_space after a message of n cells and its header.   *)
(* Faulty first: in signed arithmetic. *)
SpaceLeftSigned(space, n) == space - (1 + n)
SpaceLeft(space, n) == (space - (1 + n)) % Modulus

(* work_response(), and the loop counter goes down by what a whole message *)
(* would have taken, in unsigned arithmetic.                               *)
EmitBody ==
    LET n == size["audio"]
        calls == delivered[emitting] + 1
    IN
    /\ Goto("audio", "emit_body", "emit")
    /\ responses' = [responses EXCEPT ![emitting] = Rest(@, n)]
    /\ answer' = [worker |-> emitting, n |-> calls,
                  data |-> Contents(responses[emitting], n)]
    /\ delivered' = [delivered EXCEPT
          ![emitting] = IF calls > MaxResponses THEN MaxResponses + 1 ELSE calls]
    /\ read_space' = SpaceLeft(read_space, n)
    /\ UNCHANGED <<hostVars, semVars, workVars, requests, emitting, size, scheduled>>

EmitDone ==
    /\ read_space = 0
    /\ Goto("audio", "emit", IF emitting = "state" THEN "load_space" ELSE "run")
    /\ emitting' = "worker"
    /\ UNCHANGED <<hostVars, semVars, ringVars, workVars, read_space, delivered, answer, size, scheduled>>

(* ... then run(), where jalv_worker_schedule() writes a header and a body *)
(* and posts, whether or not they fitted.                                  *)
ScheduleSize(n) ==
    /\ Len(scheduled) < MaxRequests
    /\ Goto("audio", "run", "schedule_body")
    /\ scheduled' = Append(scheduled, n)
    /\ requests' = Written(requests, <<Header(Len(scheduled) + 1)>>, RequestSpace)
    /\ UNCHANGED <<hostVars, semVars, workVars, emitVars, responses, size>>

ScheduleBody ==
    LET i == Len(scheduled) IN
    /\ Goto("audio", "schedule_body", "schedule_post")
    /\ requests' = Written(requests, Body(i, scheduled[i]), RequestSpace)
    /\ UNCHANGED <<hostVars, semVars, workVars, emitVars, responses, size, scheduled>>

(* Faulty: no post for a thread that is not waiting. *)
SchedulePostIfWaiting ==
    /\ Goto("audio", "schedule_post", "run")
    /\ sem' = IF pc["worker"] = "wait" THEN sem + 1 ELSE sem
    /\ UNCHANGED <<hostVars, ringVars, workVars, emitVars, work_lock, size, scheduled>>

SchedulePost ==
    /\ Goto("audio", "schedule_post", "run")
    /\ sem' = sem + 1
    /\ UNCHANGED <<hostVars, ringVars, workVars, emitVars, work_lock, size, scheduled>>

RunReturns ==
    /\ Goto("audio", "run", "idle")
    /\ UNCHANGED data

(* What a thread does on its own, and what its caller has it begin.        *)
AudioCall ==
    \/ LoadSpace \/ EmitSize \/ EmitBody \/ EmitDone
    \/ \E n \in RequestSizes : ScheduleSize(n)
    \/ ScheduleBody \/ SchedulePost \/ RunReturns
AudioThread == Process \/ AudioCall

HostCall == WorkerInit \/ FinishPost \/ FinishJoin \/ Destroy \/ Work("host")
HostThread == Restore \/ Delete \/ HostCall

(* The instance is gone. *)
Deleted == pc["host"] = "deleted" /\ UNCHANGED vars

Next == HostThread \/ AudioThread \/ WorkerThread \/ Deleted

(* The scheduler runs every thread that can run, until the call it is in   *)
(* returns; nothing makes the host process, restore or delete.             *)
Fairness == WF_vars(HostCall) /\ WF_vars(AudioCall) /\ WF_vars(WorkerThread)

Spec == Init /\ [][Next]_vars /\ Fairness
-----------------------------------------------------------------------------
HostPcs == {"create", "new_requests", "new_responses", "new_state_responses", "idle",
            "lock", "work", "respond", "finish", "join", "destroy", "deleted"}
AudioPcs == {"idle", "load_space", "emit", "emit_body", "run", "schedule_body",
             "schedule_post"}
WorkerPcs == {"none", "wait", "check_exit", "read_size", "realloc", "read_body", "lock",
              "work", "respond", "ended"}

TypeOK ==
    /\ DOMAIN pc = Threads
    /\ pc["host"] \in HostPcs /\ pc["audio"] \in AudioPcs /\ pc["worker"] \in WorkerPcs
    /\ exit \in BOOLEAN
    /\ sem \in Nat
    /\ work_lock \in {0, 1}
    /\ rings \subseteq {"requests", "worker", "state"}
    /\ requests \in Seq(Nat \X Nat) /\ Len(requests) <= RequestSpace
    /\ \A w \in Workers : /\ responses[w] \in Seq(Nat \X Nat)
                         /\ Len(responses[w]) <= ResponseSpace
    /\ size \in [{"audio", "worker"} -> Nat]
    /\ read_space \in 0..(Modulus - 1)
    /\ emitting \in Workers
    /\ scheduled \in Seq(RequestSizes)
    /\ responded \in [Workers -> Seq(ResponseSizes)]
    /\ delivered \in [Workers -> 0..(MaxResponses + 1)]
    /\ restores \in 0..MaxRestores

InWork(t) == pc[t] \in {"work", "respond"}

(* work_lock does what it is for: the plugin's work() never runs in the    *)
(* worker thread and, for a restore(), in the host's thread at once.       *)
WorkExclusive == ~(InWork("host") /\ InWork("worker"))

(* No thread touches a ring before it is allocated or after it is freed,   *)
(* though the worker thread starts before its rings exist and the host     *)
(* frees them behind it.                                                   *)
RingsAlive ==
    /\ pc["worker"] \in {"read_size", "read_body"} => "requests" \in rings
    /\ InWork("worker") => "worker" \in rings
    /\ InWork("host") => "state" \in rings
    /\ pc["audio"] \in {"load_space", "emit", "emit_body"} => emitting \in rings
    /\ pc["audio"] \in {"run", "schedule_body"} => "requests" \in rings
    /\ pc["host"] = "deleted" => pc["worker"] = "ended"

Starting == {"create", "new_requests", "new_responses", "new_state_responses"}
Stopping == {"finish", "join", "destroy", "deleted"}

RingsAt(h) ==
    CASE h \in {"create", "new_requests"} -> {}
      [] h = "new_responses" -> {"requests"}
      [] h = "new_state_responses" -> {"requests", "worker"}
      [] h = "deleted" -> {"state"}
      [] OTHER -> {"requests", "worker", "state"}

(* The inductive invariant behind the two: the lock is held exactly while  *)
(* a thread is in work(); which rings exist depends on where the host is;  *)
(* until they all do no thread can have been woken; and the host does not  *)
(* free them before the worker thread has ended.                           *)
ThreadsInv ==
    /\ pc \in [Threads -> HostPcs \cup AudioPcs \cup WorkerPcs]
    /\ pc["host"] \in HostPcs /\ pc["audio"] \in AudioPcs /\ pc["worker"] \in WorkerPcs
    /\ sem \in Nat /\ emitting \in Workers
    /\ work_lock = IF InWork("host") \/ InWork("worker") THEN 0 ELSE 1
    /\ WorkExclusive
    /\ rings = RingsAt(pc["host"])
    /\ pc["host"] \in Starting =>
          sem = 0 /\ pc["worker"] \in {"none", "wait"} /\ pc["audio"] = "idle"
    /\ pc["host"] \in Stopping => pc["audio"] = "idle"
    /\ pc["host"] \in {"destroy", "deleted"} => pc["worker"] = "ended"

(* What the types of the sizes rest on: a header in a ring is that of a    *)
(* message that was sent.                                                  *)
Cells(sizes) == (1..Len(sizes)) \X Nat

RequestsInv ==
    /\ scheduled \in Seq(RequestSizes)
    /\ requests \in Seq(Cells(scheduled)) /\ Len(requests) <= RequestSpace
    /\ pc["audio"] = "schedule_body" => Len(scheduled) > 0

ResponsesInv ==
    /\ responded \in [Workers -> Seq(ResponseSizes)]
    /\ responses \in [Workers -> Seq(Nat \X Nat)]
    /\ \A w \in Workers : /\ responses[w] \in Seq(Cells(responded[w]))
                         /\ Len(responses[w]) <= ResponseSpace
    /\ \A t \in {"host", "worker"} : pc[t] = "respond" => Len(responded[WorkerOf(t)]) > 0

LocalsInv ==
    /\ exit \in BOOLEAN
    /\ size \in [{"audio", "worker"} -> Nat]
    /\ read_space \in 0..(Modulus - 1)
    /\ delivered \in [Workers -> 0..(MaxResponses + 1)]
    /\ restores \in 0..MaxRestores

TypeInv == RequestsInv /\ ResponsesInv /\ LocalsInv

(* Deleting an instance ends, whatever its worker thread was doing.        *)
DeleteCompletes == exit ~> pc["host"] = "deleted"

(* work() gets every request once, whole, and in the order scheduled.      *)
WorkedInOrder ==
    \A i \in 1..Len(worked) :
        i <= Len(scheduled) /\ worked[i] = Body(i, scheduled[i])

(* Each post to the semaphore stands for one request that is in the ring,  *)
(* header first: the thread never wakes for nothing, unless to end.        *)
HeadersOf(ring) == {k \in 1..Len(ring) : ring[k][2] = 0}
Headers == Cardinality(HeadersOf(requests))
Taken == IF pc["worker"] \in {"check_exit", "read_size"} THEN 1 ELSE 0
Scheduling == IF pc["audio"] \in {"schedule_body", "schedule_post"} THEN 1 ELSE 0
EachPostIsOneRequest == ~exit => Headers = sem + Taken + Scheduling

(* Every request is worked on, unless the instance is deleted first.       *)
EveryRequestIsWorked ==
    \A i \in 1..MaxRequests : Len(scheduled) >= i ~> (Len(worked) >= i \/ exit)

(* The order of the requests rests on what the ring holds: the cells of    *)
(* the requests scheduled, one behind the other, from the first that the   *)
(* worker thread has not read to the last that the audio thread wrote.     *)
NextCell(sizes, c) ==
    IF c[2] < sizes[c[1]] THEN <<c[1], c[2] + 1>> ELSE Header(c[1] + 1)

Consecutive(ring, sizes, first, end) ==
    LET n == Len(ring) IN
    /\ n = 0 => first = end
    /\ n > 0 => ring[1] = first /\ NextCell(sizes, ring[n]) = end
    /\ \A k \in 1..(n - 1) : ring[k + 1] = NextCell(sizes, ring[k])

\* The requests whose header the worker thread has read.
Begun == Len(scheduled) - Headers
Reading == pc["worker"] \in {"realloc", "read_body"}

FirstCell == IF Reading THEN NextCell(scheduled, Header(Begun)) ELSE Header(Begun + 1)
EndCell ==
    IF pc["audio"] = "schedule_body" THEN NextCell(scheduled, Header(Len(scheduled)))
    ELSE Header(Len(scheduled) + 1)

(* Nothing is read that has not been posted, and each body is read behind  *)
(* its own header.                                                         *)
ReadInOrder ==
    /\ worked \in Seq(Seq(Nat \X Nat))
    /\ Begun + Scheduling + (IF pc["worker"] = "read_size" THEN 1 ELSE 0) <= Len(scheduled)
    /\ pc["worker"] # "ended" =>
          /\ Begun = Len(worked) + (IF Reading \/ pc["worker"] = "lock" THEN 1 ELSE 0)
          /\ Consecutive(requests, scheduled, FirstCell, EndCell)
    /\ Reading => size["worker"] = scheduled[Begun]
    /\ pc["worker"] = "lock" => buf = Body(Begun, scheduled[Begun])

(* The requests ring holds the requests behind the one worked on, whole    *)
(* and in order, a post for each, whichever cells of them the two threads  *)
(* have got to, and the worker thread has worked on all in front of them.  *)
OrderInv ==
    /\ ReadInOrder
    /\ EachPostIsOneRequest
    /\ WorkedInOrder
    /\ pc["host"] \in Stopping => exit
    /\ pc["audio"] = "schedule_body" =>
          Len(requests) + scheduled[Len(scheduled)] <= RequestSpace

(* What it needs: each request that is scheduled finds room for all of it. *)
RequestsFit ==
    scheduled' # scheduled =>
        Len(requests) + 1 + scheduled'[Len(scheduled')] <= RequestSpace

(* work_response() gets every response of its worker once, whole, and in   *)
(* the order given.                                                        *)
ResponsesAreWhole ==
    answer.n > 0 =>
        /\ answer.n <= Len(responded[answer.worker])
        /\ answer.data = Body(answer.n, responded[answer.worker][answer.n])
=============================================================================
