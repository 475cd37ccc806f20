# TLA+ models of aap-lv2

aap-lv2 lets an Android audio host (AAP) run LV2 plugins. This directory holds
TLA+ models of its concurrent and stateful core, the TLC runs that check them
on small instances, and TLAPS proofs about them for every instance.
`PROJECT.json` maps each definition to the source lines it models and lists
the runs, the mutants, the hazards and the theorems. Paths below are relative
to `src/androidaudioplugin-lv2/src/main/cpp/src/`.

## 1. The system

| component | source | state | operations | model |
|---|---|---|---|---|
| byte ring | `zix/ring.c` | two heads, the cells | write, read, peek, skip, reset | `ZixRing` |
| worker extension | `aap-lv2-extensions.cpp:53-181`, `:446-579` | two `JalvWorker`s, each with rings, a buffer, a semaphore and a thread | init, schedule, respond, worker_func, emit_responses, finish, destroy | `JalvWorker` |
| semaphores, threads | `zix/sem.h`, `zix/thread.h` | a counter, a thread | wait, post, create, join | inside `JalvWorker` and `Symap` |
| parameter values | `android-audio-plugin-lv2-bridge.cpp:424-475`, `aap-lv2-internal.h:382-387` | control ports, the values last told, a flag | a change by the host, run, emission, restore, mark | `Parameters` |
| MIDI and parameter input | `...-bridge.cpp:285-422` | Atom forges and sequences, time | one pass over the host's messages per cycle | `MidiIn`; a change against a concurrent restore in `Parameters` |
| instance life cycle | `...-bridge.cpp:245-281, 480-579`, `...-extensions.cpp:446-579` | `instance_state`, `cached_buffer`, the ports' connections | new, prepare, activate, process, deactivate, delete | `PluginInstance`; the workers' part in `JalvWorker` |
| port mapping | `...-bridge.cpp:65-243` | the maps between LV2 and AAP ports, the buffers | allocatePortBuffers, clearBufferForRun | `Ports` |
| state, presets | `...-extensions.cpp:185-326` | control ports, the list of presets | get/set state, load and set presets | `PluginInstance`; what a restore does to the ports in `Parameters`, to the worker in `JalvWorker` |
| parameters extension | `aap-lv2-internal.h:290-425` | lists built once | registration, lookups | lists and enumerations in `Ports` |
| URI map | `symap.cpp`, `aap-lv2-internal.h:434-452` | symbols, their sorted index, a semaphore | map, unmap | `Symap` |
| metadata importer | `tools/aap-import-lv2-metadata` | none | writes XML offline | the ports it writes, in `Ports` |
| stream I/O | `abstract_io.c` | one global asset manager | open, read, close | not modelled |
| JNI, Kotlin service | `AudioPluginLV2LocalHost_jni.cpp` | that global | set, clear | not modelled |

**How they interact.** The host's audio thread calls `process()`: it emits the
workers' responses to the plugin, writes the host's messages to Atom sequences
and control ports, calls the plugin's `run()`, and tells the host the values
that changed. From `run()` the plugin calls `schedule_work()`, which hands a
request to the worker thread through a ring and a semaphore; `work()` there
hands responses back through a second ring. Another thread of the host
restores states and presets: the plugin's `restore()` may schedule on the
second, synchronous worker, which calls `work()` in place under `work_lock`,
and the restored values go to the control ports that `process()` is reading.
Deleting the instance sets `exit`, posts the semaphore and joins the thread.
The plugin maps URIs from any of its threads. Before any of this the ports are
registered as parameters when the instance is created, and allocated and
connected when it is prepared; `process()` connects them again when the host
passes another buffer.

**What is hard.** No lock protects a ring, a control port or the notes of what
was told; messages are two separate writes; the semaphore counts posts, not
messages; failures of ring calls are not looked at; the worker thread is older
than its rings; heads wrap; buffers of the host fill. What must hold:

* ring: no byte lost, repeated, reordered or torn; no cell read while written;
  full and empty never confused;
* worker: `work()` in one thread at a time; every request worked on once, whole
  and in order; responses delivered as they were given; no ring used before or
  after its life; deletion ends;
* parameters: whatever happens during a cycle, the host's idea of a parameter
  does not stay wrong;
* life cycle: the plugin runs only while active and on the memory of this very
  call, whatever address the host's buffers have had; a state call goes through no
  buffer that was freed;
* ports: each port has memory of its own; audio ports are those the metadata name;
  the host finds a parameter's own enumeration;
* MIDI: events keep their order and their time, none is written beyond its sequence,
  and a parameter change reaches the control port it names, if it has one, and
  disturbs no other;
* URI map: equal URIs have equal ids for good, whichever threads ask.

## 2. The modules

### BoundedFifo: what a ring promises
A FIFO of at most `Capacity` bytes with atomic `Put`, `Get`, `Peek`, `Drop` and
`Clear`. The k-th byte sent is the number k, which tells every wrong byte from
the right one without modelling contents.

### ZixRing: the ring at the grain of bytes
One writer, one reader. A call is cut where the other thread can see it:
`WriteBegin` (load the heads, check the space), one `WriteCopy` per byte in
any order, `WriteEnd` (release fence, publish `write_head`); likewise for
`read` and `peek`. `Skip` and `Reset` touch no byte and are atomic. Both space
functions, and the two ways the code splits a transfer at the end of the
buffer (`<=` in write, `<` in peek), are written as in the source. A call
that fails its check returns 0 and changes nothing, and is no step.

`zix_ring_read()` has its acquire fence after the copy. With
`LoadsInOrder = FALSE` (the ARM ABIs) a byte may therefore be loaded at any
time since the reader's last fence; `seen` is the buffer at that fence, and an
early load returns the old or the new byte of a cell, which is all there can
be, as a cell is written at most once between two fences. A reader that may load
early may be at any cell at any time, so `NoDataRace` counts all cells as its own
there, and is a property of loads in order. `LoadsInOrder = TRUE` is the x86 ABIs.

### JalvWorker: three threads, three rings, a lock and a semaphore
`pc[t]` is where thread `t` is; each action is the code from one shared access
to the next. The rings are FIFOs, as proved of `ZixRing`, in cells of four
bytes. A cell names its message and its place in it, so that a message read
out of step is recognised. Modelled as in the code: both writes of `schedule`
and `respond` with their results ignored, a read of too few cells that leaves
the buffer as it is, `realloc(buf, 0)` and a failing `realloc` (a header that
is not one asks for a huge size) which end the thread, `read_space`
as an unsigned number (`% Modulus`), `work_lock`, the thread's creation before
its rings, and finish, join and destroy. A plugin without the worker interface never
initialises a worker and a plugin whose `restore()` is not thread-safe has no
second one; both are left out, as are errors of the semaphore calls.

### Parameters: what the host is told
The steps of `process()` that touch parameters, and of a restore in another
thread, down to the single loads and stores of `control_buffer_pointers`,
`last_emitted_parameter_values` and `emit_all_parameter_values`. `told` is the
host's idea: what it set itself or read last from the output buffer. The room
in the output buffer is chosen anew in each cycle, zero included. A MIDI event
that does not fit ends the loop over the host's messages (`MidiOverflow`); a
change behind it is `ParameterLost`. A plugin without a MIDI output port is
the case without room. Values are abstract; their conversion to and from
messages is not modelled, nor is a plugin that puts out NaN. The host is
assumed not to set the plugin's output ports.

### Interner and Symap: the URI map
`Interner` numbers strings from 1 on, each once, and answers a call in one step.
`Symap` is the code: the semaphore taken and posted around each call, the binary
search one comparison at a time (with its short cuts for an empty map and for a
string behind the last), and the insertion in two steps, the symbol first and
the index after it. A string is its rank in the order of `strcmp()`, the only
thing the code asks of it.

### Lv2Lifecycle and PluginInstance: the life of an instance
`Lv2Lifecycle` is what a plugin may expect of whoever drives it: it runs only
while it is active, on memory that stays until `run()` returns, and everything
else happens between two runs. LV2 asks for a `deactivate()` before `cleanup()`;
the bridge does not call one when it is deleted while active, so `Lv2Lifecycle` lets
cleanup follow active and promises less there than LV2 asks for.
`PluginInstance` is the bridge: each call of the
host is a step, and so is each stage of `process()` (connect, emit responses,
write MIDI, run, return), since state and preset calls come in between. The host
allocates and frees buffers of which each is a *block* of memory at an *address*:
the code compares addresses, and an address may be used again.
State and preset calls are followed up to the point where they do not return,
which sets `crash`, after which the instance does nothing: `"save"` and
`"restore"` for a port value read or written through a null or dangling
`cached_buffer`, `"range"` for an index the host has no port of, `"assert"` for
the assertion of a restore (taken to be compiled in), and `"iface"` for work
scheduled through an interface that was not set. `mapped` is whether `prepare` has filled the port map, which
gives 0 for every port before. The ways `aap_lv2_plugin_new()` fails, which
return no instance, are left out.

### Ports and MidiIn: ports, and the messages of a cycle
`Ports` goes over the ports of a plugin the way the code does, one port in each
step: `buildParameterList` first, then `allocatePortBuffers` by the kind of the
port (with a step for each AAP port that the audio index skips), then the
connection. The metadata are those of the importer, which puts the MIDI ports
behind the audio ports, or those written by hand, as
`aap-ayumi/src/main/res/xml/aap_metadata.xml`, which has them in front.
`MidiIn` EXTENDS it with the cycles of `process()`: one message in each step, of
one of the types that the code tells apart. Sizes are in units of 8 bytes, the padding
of an Atom event; a patch message's size wraps at 2^32 bytes. What
`lv2_atom_forge` and `cmidi2` do is external, taken from how the code uses
them; so is that a message which they cannot convert is ignored. `events` is what a
reader finds: each write raises the size of the sequence, which stays on the forge's
stack until all messages are read, so that an event that ran out of room after its
time or header is there as one that is not `whole`.

### Proof modules and MC modules
`ZixRingProofs`, `ZixRingRefinement`, `JalvWorkerProofs`, `ParametersProofs`,
`SymapProofs`, `PluginInstanceProofs` and `MidiInProofs` (which is about `Ports`
too) hold the theorems, and `DataLemmas` what several of them need to know of
numbers, counting and recursive functions. The MC modules only extend the modules, and the `.cfg`
files give the constants; `MCMidiIn` also defines the plugins and messages.
Definitions commented as "Faulty" are the code with one mistake put in; they
are part of no specification and are used only by the mutants, which show that
each property can fail.

## 3. The runs

| run | bounds | distinct states | shows |
|---|---|---|---|
| `zix_ring` | ring of 4, 9 bytes sent | 238,303 | `TypeOK`, `RingInv`, `HeadsCountTheBytes`, `NoDataRace`, `CopiesNextBytes`; the ring implements `BoundedFifo` |
| `zix_ring_arm` | same, loads out of order | violation | `CopiesNextBytes` fails |
| `worker` | requests ring of 3 cells, request sizes 0 and 2, 2 requests, 1 response per worker, 1 restore | 197,258 | `TypeOK`, `WorkExclusive`, `RingsAlive`, `ThreadsInv`, `DeleteCompletes` |
| `worker_order` | ring of 6 cells, sizes 1 and 2, 2 requests | 117,229 | `OrderInv`, `WorkedInOrder`, `EachPostIsOneRequest`, `EveryRequestIsWorked` |
| `worker_full` | ring of 3 cells, sizes 1 and 2 | violation | `WorkedInOrder` fails when the ring is full |
| `worker_torn` | as `worker_order`, no restore | violation | `ResponsesAreWhole` fails |
| `parameters` | 2 parameters, one an output, 2 values, room for 0, 1 or 2 messages, 3 changes, 1 restore | 180,444 | `TypeOK`, `NotesAreTrue`, `NoChangeForgotten`, `ValuesAreTold` |
| `parameters_lost` | same | violation | `OnlyMidiIsDropped` fails |
| `symap` | 2 threads, 4 strings | 97,180 | `TypeOK`, `SymapInv`, `LockIsReturned`; the map implements `Interner` |
| `instance` | 2 addresses, 4 blocks, 1 preset, 2 control inputs, 3 ports of the host | 151,674 | `TypeOK`, `BufferInv`, `RunsOnLiveBuffer`, `StateCallsUseNoFreedBuffer`; the bridge implements `Lv2Lifecycle` |
| `instance_end_run` | same | violation | `EndRunFollowsRun` fails |
| `midi_in` | every plugin of 1 to 3 ports of 14 kinds, both orders of the metadata; for 5 of them 4 messages in 2 cycles | 1,603,694 | `TypeOK`, `AudioFollowsMetadata`, `PortsDoNotShare`, `EnumerationsAreOwn`, `EventsInTime`, `EventsAsSent`, `OnlyNamedPort` |

**Why these bounds are enough to be of use.** With a ring of 4 both heads go
around twice in 9 bytes, transfers end before, at and past the end of the
buffer, and every fill from empty to full occurs with a read and a write under
way. A requests ring of 3 cells overflows on the second request of size 2,
losing its body or all of it, and size 0 kills the worker thread on its
second request; in `worker_order` two requests of any size fit, so that what
is checked is order and not the overflow that `worker_full` shows. One
response per worker is enough for the torn message, since the header alone in
the ring is the case. With 2 parameters a buffer for one message is full in
the middle of the loop, and 3 changes allow a change by the host, one back by
a restore and one more by the plugin. Four strings are
the fewest for which a search can go lower, upper, and end in every way at both
ends of the index and in between; two threads are all that a lock needs. With two
addresses and four blocks a buffer can be freed and another be allocated at its
address, be passed at once or after the other one, and be passed by a host that
has deactivated in between. Of the two control inputs, the host has a port of the
same index for one and none for the other. Three ports are enough to put any kind of port in
front of, between and behind any other, and four messages for two changes of
group, a time stamp between events and a message behind the one that overflows;
the sequence of 7 units is full after its first event (2 for the head, 3 to 5 an
event), which leaves room for the time and the header of the next, its time alone, or
nothing; the other takes them all. A control port that asks for
3 units is more than 4 frames take, so it is oversized; it is played with and without
a patch input. Rate 3 to 2 ticks makes a stamp a fraction of a
frame, and frame counts of 0, 3 and 6 are none, less than the buffer and more.
Most of the safety properties do not rest on the bounds: they are proved
(section 4).

Deadlock is checked in every run but the instance's and MIDI's. There, nothing
obliges the host to call again, a crashed call does not return, and a plugin that
is not among the played ones stops once it is prepared.

**What the properties say that is not obvious.**
* `HeadsCountTheBytes`: the heads alone tell the number of bytes stored,
  however often they wrapped. `NoDataRace`: the copies under way touch disjoint
  cells though each side works from a stale head of the other.
* `RingsAlive`: though the thread exists before the rings, and the host frees
  them behind it. `DeleteCompletes`: whether the thread waits for the semaphore,
  for `work_lock`, is in `work()` or has ended by itself.
* `EachPostIsOneRequest`: the semaphore and the requests in the ring agree
  at every moment, also in the middle of a write or a read.
* `NoChangeForgotten`: between two cycles every difference between a port and
  the host's idea of it is one that the next cycle will find, though the loop
  may have been cut short, `emit_all` reset, and a restore may have marked a
  parameter between the load of its value and the note that it was told.
* `ImplementsInterner`: an insertion that is halfway done and an index out of
  date are never seen; `SymapInv` says what a search has excluded so far, which
  is what makes the place it ends at the right one.
* `RunsOnLiveBuffer`: an address that is equal to the cached one is always the
  same block, because `deactivate` forgets the address and the host keeps
  what it last passed.
* `StateCallsUseNoFreedBuffer`: whenever a state or preset call comes, `cached_buffer`
  is live or null, again because `deactivate` forgets it and the host keeps what it
  passed. A failed instance is left out: it keeps the buffer it had,
  whatever the host passes next. That the pointer may be null is not covered (see
  below); the code and its documents do not say when a host may save or restore.
* `AudioFollowsMetadata` has the premise `Described`: no CV ports, which the
  importer does not write, and no audio port that asks for more than the host's
  frames. With such a port, those behind it are shifted. `PortsDoNotShare` and
  `EnumerationsAreOwn` need no premise.
* `EventsInTime` has the premise that the host does not ask for more frames than
  its buffer has: the code clamps the times to what is asked for, and this to
  the buffer only afterwards. `EventsAsSent` computes each sequence anew from the
  messages, by their groups and the sum of the stamps, and compares; behind the events
  that were written whole it allows the one that had no room, in the sequence of
  its own group only.
* `OnlyNamedPort` is about every id a host may send. One without an entry in
  `lv2_index_to_port` is taken for port 0 or, with a patch input, wraps the size of
  that one's sequence; the property says how far this goes: every other control
  port holds the last value named for it, and so does port 0, and the patch
  sequence keeps its size, as long as no such id was sent. The host is *told of* such ids,
  too: an oversized control port is a parameter without an entry.

**Fairness.** `JalvWorker` assumes weak fairness of each thread's progress
inside a call and none of the host's decision to process, restore or delete:
the scheduler runs every thread that can run, and neither lock nor semaphore
wait is a busy one. A thread that waits for `work_lock` could lose it again
and again to the other one under weak fairness alone; here the bounds on the
requests and restores end such a contest, and the properties are claimed for
hosts that end theirs.
`Parameters` assumes the same of a call that has begun; that the host goes on
calling is the premise of `ValuesAreTold`, not a fairness condition. `Symap`
assumes that a thread which holds the lock is run (`WF` of `LockedStep`), that
nobody has to call, and nothing of who gets the lock next: `LockIsReturned` is about
the thread that has it. `ZixRing`, `PluginInstance` and `MidiIn` have only safety
properties.

**The host's contract.** `process()` is called between new and delete only, by
one thread at a time, and delete when no `process()` or restore is under way. The
calls of the life cycle follow each other, in any order, right or wrong; state
and preset calls may come at any moment. A buffer that was passed to `prepare` or
`process` stays until another one has been passed or the host has deactivated,
and the one that `process` works on stays until it returns.

**Disagreements found** (`findings` in `PROJECT.json`):
1. `zix/ring.c:179`: no acquire fence between loading `write_head` and the copy. The
   trace of `zix_ring_arm` shows it by `peek`, which shares `peek_internal` with `read`.
2. `aap-lv2-extensions.cpp:150`: a request that does not fit is dropped, or
   half of it is, and reported as scheduled.
3. `aap-lv2-extensions.cpp:167`: a response may be emitted between its two
   writes, and the remaining space then wraps below zero.
4. `android-audio-plugin-lv2-bridge.cpp:412`: a MIDI event that does not fit
   takes the parameter changes behind it with it, and the host is not told.
5. `android-audio-plugin-lv2-bridge.cpp:515`: `end_run()` is called before `run()`,
   for a cycle that has not begun.

Further behaviour that the models reach and a reader may not expect. No run has a property
about it, as it takes no particular order of calls or steps, or the code
promises nothing else:
* `aap-lv2-extensions.cpp:192`: a state is saved by the index of the LV2 port, passed on
  as one of the host's ports; the values saved are not those of the control ports, and
  an index may be out of range.
* `aap-lv2-extensions.cpp:195`: a state saved before `prepare` or after `deactivate` reads
  through a null pointer.
* `aap-lv2-extensions.cpp:207`: nothing keeps a host from restoring before `prepare`,
  which fails the assertion.
* `aap-lv2-extensions.cpp:215`: in an instance that failed before it was prepared, even a
  control value is restored through a null pointer, since the empty port map gives 0;
  after `deactivate` the value of an audio port is.
* `aap-lv2-internal.h:275`: the state worker is offered to a plugin for which it was
  not initialised.
* `android-audio-plugin-lv2-bridge.cpp:406`: of a MIDI event that is said to be dropped
  the time and header may stay in the sequence, as an event that ends behind the buffer.
* `android-audio-plugin-lv2-bridge.cpp:384`: a change of an oversized control port, which the
  host is told of, goes to port 0 or wraps the size of the patch sequence.

## 4. What is proved

| theorem | says | for |
|---|---|---|
| `RingInvariant`, `TypeCorrect` | `RingInv`, `TypeOK` | every size, stream, processor |
| `HeadsCount` | `HeadsCountTheBytes` | every size, stream, processor |
| `NoRace`, `ReadsAreFifo` | `NoDataRace`, `CopiesNextBytes` | every size and stream, loads in order |
| `RingRefinesFifo` | the ring implements `BoundedFifo` | every size and stream, loads in order |
| `ThreadsInvariant`, `WorkIsExclusive`, `RingsStayAlive`, `TypeCorrect` | `ThreadsInv`, `WorkExclusive`, `RingsAlive`, `TypeOK` | every ring size, set of sizes and bound |
| `TypesInvariant` | `TypeInv`, on which the next ones rest | every ring size, set of sizes and bound |
| `OrderInvariant`, `RequestsWorkedInOrder`, `PostsAreRequests` | `OrderInv`, `WorkedInOrder`, `EachPostIsOneRequest` | every ring size and set of sizes, in every behaviour in which the requests fit (`RequestsFit`) |
| `NotesInvariant`, `NothingForgotten`, `TypeCorrect` | `NotesAreTrue`, `NoChangeForgotten`, `TypeOK` | every number of parameters, set of values and room |
| `MapInvariant`, `TypeCorrect` | `SymapInv`, `TypeOK` | any threads and strings |
| `SymapImplementsInterner` | the map implements `Interner` | any threads and strings |
| `InstanceInvariant`, `TypeCorrect` | `BufferInv`, `TypeOK` | any addresses, blocks, presets and ports |
| `RunOnLiveBuffer`, `NoFreedBuffer` | `RunsOnLiveBuffer`, `StateCallsUseNoFreedBuffer` | any addresses, blocks, presets and ports |
| `InstanceImplementsLifecycle` | the bridge implements `Lv2Lifecycle` | any addresses, blocks, presets and ports |
| `PortInvariant`, `NoSharedMemory` | `PortInv`, `PortsDoNotShare` | every plugin, in any order of ports and metadata |
| `OwnEnumerations` | `EnumerationsAreOwn` | every plugin |
| `AudioPorts` | `AudioFollowsMetadata` | every plugin, and both orders of the metadata |
| `MidiTypes`, `EventTimes` | `TypeOK`, `EventsInTime` | any messages, rates, sizes and frame counts |
| `EventsSent` | `EventsAsSent` | every plugin, any messages, rates and sizes |
| `NamedPorts` | `OnlyNamedPort` | every plugin and any messages |

The assumptions are the named ones of the modules: `RingAssumption`,
`WorkerAssumption`, `ParametersAssumption`, `SymapAssumption`,
`InstanceAssumption`, `PortsAssumption`, `MidiInAssumption`. They give types to the
constants; further, NaN is no value, `NULL` is no string and no address, a plugin
has ports, and a buffer has room for the head of a sequence.

**The ring.** None of the properties is inductive: that a copied byte is right
depends on what the cells held, which depends on where the writer may write.
`RingInv` adds what is missing. `PromisesKept`: the room or the bytes a call
found when it loaded the heads are still there, since the other side only adds
to them. `HeadsApart`: the heads are as far apart as there are unread bytes.
`UnreadCells` and `WrittenCells`: every unread cell, and every cell of the
write under way that is copied, holds its byte. The lemmas say that `WriteCell`
and `ReadCell` are the same as counting on from the head and wrapping once, so
that cells at different distances are different cells. For the refinement the
FIFO's queue is what the cells between the heads hold; by the invariant that is
the run of numbers from `taken + 1` to `sent`, and each publishing step is a
fact about such runs (`BetweenConcat`, `BetweenSplit`).

**The worker.** `ThreadsInv` ties the lock and the rings that exist to where
the threads are: `work_lock` is 0 exactly while a thread is in `work()`; until
the last ring exists the semaphore is 0 and the worker thread has not been
woken; the host destroys the rings only after the thread has ended. With those
three, both properties are inductive. For the types, `TypeInv` adds that each cell
of a ring belongs to a message that was sent (`Cells`), so that whatever cell is
taken for a header has a size.

**The worker's order.** That work() is called with each request, whole and in order,
does not follow from what it was called with so far: it takes what is still in the
ring. `OrderInv` says that the ring holds `Consecutive` cells, from `FirstCell`, the
next that the worker thread has to read, to just before `EndCell`, the next that the
audio thread has to write, wherever inside a request the two have got to; that
every header in the ring has its post, but for the one the audio thread has not
posted yet and the one the worker thread has taken (`Scheduling`, `Taken`); and
that the requests begun are those worked on and the one being read. So a post
means that a whole request is there, a header is followed by its own body,
and the size read is the length of what is read next. All of it fails in the step that
drops half a request, which is what the run `worker_full` shows; hence the premise
`RequestsFit`, about each step that schedules a request: the ring has room for
it. It is a premise because no code establishes it; in the run `worker_order` it
holds of every behaviour, with 6 cells and 2 requests of at most 3.

**The parameters.** A note may differ from the host's idea for these reasons only:
it says nothing, the message was just written and is not noted yet, a restore
will still mark it, or the host set the parameter itself and the port holds
what it set, or the host's change was lost. `NotesAreTrue` lists them.

**The URI map.** `OneCall`: the semaphore is 0 exactly while one thread is in a
call, so that nothing changes under a search. `Below` and `Above`: all entries
in front of `lower` are smaller and all behind `upper` greater than the string. They
make the place where the search ends the only one that keeps the index
`Sorted`, and, with `Complete`, make a miss mean that the string is new. The refinement
leaves the abstract `symbols` as they are and maps every comparison to a stutter.

**The instance.** `BufferInv`: while the instance is alive, `cached_buffer` is the
buffer the host has to keep, or inside `process()` the one passed, and the
ports are connected to the block that is at that address now. It fails without
the assumption on the host, and without `deactivate` forgetting the address.

**Ports and MIDI.** `PortInv` says what the loops have done for the ports in front of
`next`; that no two ports share memory follows, as the audio index only grows and
every port without one has memory of its own. `EnumInv`: each parameter's
entries lie where its index says, and appending moves none. `TimeInv`: no event is
later than the time of the stamps so far, because the clamp is monotonic
and stamps only add up. `NamedInv`: `OnlyNamedPort` itself, with nothing named
before the ports are prepared, when each holds its default. `AudioMapInv`: the audio ports done so far, as many as
`AudioBefore` counts, have been given as many of the metadata's, from `FirstAudio`
on, and the index is just behind them, or still among the MIDI ports in front. `MetadataLayout` says
which audio port each entry of the metadata stands for. `SentInv`:
`EventsAsSent` for the messages read so far, with what the code keeps between two
messages: `jr` is the sum of the stamps, the sequence held is that of the last
group, and no two groups have the same sequence. A message read adds at most one
event to the group it is of, behind all others, and changes the place of none
(`ItsGrow`, `PlacesStay`, `MatchesMore`); the one that leaves part of an event behind is
the last of its cycle.

**Induction.** Sums of stamps and counts of ports and events are defined over
all numbers, and no prover here takes a property as the parameter of an induction theorem. `DataLemmas`
has `LeastNatural` instead, every set of natural numbers but the empty one has a
least element, and the proofs go from the least counterexample to the number below
it. `RunningSum` gets from there to the sum that `Stamp` defines by recursion.

**Only model-checked.** The liveness properties `DeleteCompletes`,
`EveryRequestIsWorked`, `ValuesAreTold` and `LockIsReturned`: liveness under
fairness and ENABLED are out of the prover's reach. Every invariant of a passing run and the
three refinements are proved. `ResponsesAreWhole`, `OnlyMidiIsDropped` and
`EndRunFollowsRun` are false of the code, `CopiesNextBytes` of an ARM processor
and `WorkedInOrder` of a ring that is too small; there is nothing to prove of them but what is proved under the premises above.

**Not modelled, and why.**
* `abstract_io.c` and the JNI calls that set its global: the callers, serd and lilv,
  are submodules that are not in the repository, so nothing says which streams are
  open when the global changes.
* The importer but for its ports: it is sequential, offline and keeps no state.
* The failure paths of `aap_lv2_plugin_new()`, which return no instance, and the
  index of a preset that is not in the list: nothing says what a host may pass.
* The conversion of values to and from messages, `getAAPParameterProperty`, and
  the events in output Atom sequences, which nobody reads: data without control.
* The growth of `atom_buffer_size`; it is one constant here, of any size.
* `symap_try_map`, which only the test in `symap.cpp` calls; `symap_free`.
* Semaphores: failures of their calls, `try_wait` and the other platforms.
* `zix_ring_mlock`, allocation failure of the rings, and memory leaked at deletion
  (the second worker's ring and buffer, the parameters), on which no state depends.
* Text, logging and tracing, and LV2 metadata, which do not change.

## 5. Plan

What is left, in the order of what it would add; each of them with its proofs, in
modules that can be proved about (named assumptions, one action per operation, no
RECURSIVE operator).

1. `MidiIn` and `Parameters` composed: the changes of one cycle against a restore
   in another thread, and the emission behind them, over the ports of `Ports`.
2. The responses: `ResponsesAreWhole` as long as no emission loads the read space
   between the two writes of a response and each fits, by an invariant like
   `OrderInv` for each worker's ring.
3. The failure paths of `aap_lv2_plugin_new()` in `PluginInstance`.
4. `AbstractIo`: streams opened before and after the asset manager is set, should
   the code that opens them become part of the repository.
