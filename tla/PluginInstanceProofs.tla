----------------------- MODULE PluginInstanceProofs -----------------------
(***************************************************************************)
(* Proofs about the life of an instance, for any addresses and any number  *)
(* of blocks and presets, by way of the inductive invariant InstanceInv.   *)
(***************************************************************************)
EXTENDS PluginInstance, TLAPS

USE InstanceAssumption DEF Live, Up, Idle, portVars, host, Traits, States, Stages

LEMMA InitInstance == Init => InstanceInv
<1>1. Init => TypeOK
  <2>1. 0 \in 0..MaxBlocks /\ 0 \in 0..NumPresets /\ FALSE \in BOOLEAN
    OBVIOUS
  <2>2. [a \in Addresses |-> 0] \in [Addresses -> 0..MaxBlocks]
    BY <2>1
  <2> HIDE DEF Traits
  <2>3. QED
    BY <2>1, <2>2 DEF Init, TypeOK
<1>2. Init => BufferInv
  BY DEF Init, BufferInv
<1>3. QED
  BY <1>1, <1>2 DEF InstanceInv

(* The host's memory: neither what it has lent nor what it is passing goes. *)
LEMMA MemoryKeeps ==
    ASSUME InstanceInv, NEW a \in Addresses, Allocate(a) \/ Free(a)
    PROVE  InstanceInv'
<1>1. CASE Allocate(a)
  <2>1. TypeOK'
    BY <1>1 DEF Allocate, InstanceInv, TypeOK
  <2>2. BufferInv'
    BY <1>1 DEF Allocate, InstanceInv, TypeOK, BufferInv
  <2>3. QED
    BY <1>1, <2>1, <2>2 DEF Allocate, InstanceInv
<1>2. CASE Free(a)
  <2>1. TypeOK'
    BY <1>2 DEF Free, InstanceInv, TypeOK
  <2>2. BufferInv'
    BY <1>2 DEF Free, InstanceInv, TypeOK, BufferInv
  <2>3. QED
    BY <1>2, <2>1, <2>2 DEF Free, InstanceInv
<1>3. QED
  BY <1>1, <1>2

(* The calls of the life cycle, in any state of the instance.              *)
LEMMA LifeKeeps ==
    ASSUME InstanceInv,
           \/ New \/ Activate \/ Deactivate \/ Delete
           \/ \E a \in Addresses : Prepare(a) \/ Process(a) \/ ProcessRefused(a)
    PROVE  InstanceInv'
<1>1. CASE New
  BY <1>1 DEF New, InstanceInv, TypeOK, BufferInv
<1>2. CASE Activate
  BY <1>2 DEF Activate, Fail, InstanceInv, TypeOK, BufferInv
<1>3. CASE Deactivate
  BY <1>3 DEF Deactivate, Fail, InstanceInv, TypeOK, BufferInv
<1>4. CASE Delete
  BY <1>4 DEF Delete, InstanceInv, TypeOK, BufferInv
<1>5. ASSUME NEW a \in Addresses, Prepare(a) PROVE InstanceInv'
  <2>1. CASE instance_state = "INITIAL" /\ ConnectPorts(a) /\ instance_state' = "PREPARED"
                /\ mapped' = TRUE /\ UNCHANGED plugin
    <3>1. TypeOK'
      BY <1>5, <2>1 DEF Prepare, ConnectPorts, InstanceInv, TypeOK
    <3>2. BufferInv'
      BY <1>5, <2>1 DEF Prepare, ConnectPorts, InstanceInv, TypeOK, BufferInv
    <3>3. QED
      BY <3>1, <3>2 DEF InstanceInv
  <2>2. CASE Fail /\ UNCHANGED mapped
    BY <1>5, <2>2 DEF Prepare, Fail, InstanceInv, TypeOK, BufferInv
  <2>3. QED
    BY <1>5, <2>1, <2>2 DEF Prepare
<1>6. ASSUME NEW a \in Addresses, Process(a) PROVE InstanceInv'
  BY <1>6 DEF Process, InstanceInv, TypeOK, BufferInv
<1>7. ASSUME NEW a \in Addresses, ProcessRefused(a) PROVE InstanceInv'
  BY <1>7 DEF ProcessRefused, Fail, InstanceInv, TypeOK, BufferInv
<1>8. QED
  BY <1>1, <1>2, <1>3, <1>4, <1>5, <1>6, <1>7

(* The stages of process().                                                *)
LEMMA ProcessKeeps ==
    ASSUME InstanceInv, ProcessStage
    PROVE  InstanceInv'
<1>1. CASE ClearBufferForRun
  BY <1>1 DEF ClearBufferForRun, ConnectPorts, Stage, InstanceInv, TypeOK, BufferInv
<1>2. CASE EmitResponses \/ WriteMidi
  BY <1>2 DEF EmitResponses, WriteMidi, Stage, InstanceInv, TypeOK, BufferInv
<1>3. CASE BeginRun \/ EndRun
  BY <1>3 DEF BeginRun, EndRun, Stage, InstanceInv, TypeOK, BufferInv
<1>4. CASE ProcessReturns
  BY <1>4 DEF ProcessReturns, Stage, InstanceInv, TypeOK, BufferInv
<1>5. QED
  BY <1>1, <1>2, <1>3, <1>4 DEF ProcessStage

(* The state and presets extensions: none of their calls touches what the  *)
(* host's memory and the plugin's ports go by, even one that crashes.      *)
LEMMA CrashKeeps ==
    ASSUME InstanceInv, Up, NEW why \in {"none", "save", "range", "restore", "assert", "iface"},
           Crashes(why), presets' \in 0..NumPresets
    PROVE  InstanceInv'
BY DEF Crashes, InstanceInv, TypeOK, BufferInv

LEMMA StateCallKeeps ==
    ASSUME InstanceInv, StateCall
    PROVE  InstanceInv'
<1>1. presets' \in 0..NumPresets
  BY DEF StateCall, GetState, GetPreset, SetState, SetPresetIndex, EnsurePresetLoaded,
         InstanceInv, TypeOK
<1>2. ASSUME NEW kind \in Kinds, NEW schedules \in BOOLEAN, Up, Restore(kind, schedules)
      PROVE  InstanceInv'
  BY <1>1, <1>2, CrashKeeps DEF Restore
<1>3. ASSUME Up, NEW why \in {"none", "save", "range"}, Crashes(why) PROVE InstanceInv'
  BY <1>1, <1>3, CrashKeeps
<1>4. QED
  BY <1>2, <1>3 DEF StateCall, GetState, GetPreset, SetState, SetPresetIndex

LEMMA InstanceStep == InstanceInv /\ [Next]_vars => InstanceInv'
<1>1. InstanceInv /\ UNCHANGED vars => InstanceInv'
  BY DEF vars, InstanceInv, TypeOK, BufferInv
<1>2. QED
  BY <1>1, MemoryKeeps, LifeKeeps, ProcessKeeps, StateCallKeeps DEF Next

(* The comparison of addresses keeps the ports on the memory the host has  *)
(* lent, in every state, and while process() is passed another buffer.     *)
THEOREM InstanceInvariant == Spec => [](TypeOK /\ BufferInv)
<1>1. InstanceInv => TypeOK /\ BufferInv
  BY DEF InstanceInv
<1>2. QED
  BY <1>1, InitInstance, InstanceStep, PTL DEF Spec

(* Every variable of the instance keeps its type, and the state of the     *)
(* instance always agrees with that of the plugin.                         *)
THEOREM TypeCorrect == Spec => []TypeOK
BY InstanceInvariant, PTL

(* run() is given the memory of the buffer of its own process() call.      *)
THEOREM RunOnLiveBuffer == Spec => []RunsOnLiveBuffer
<1>1. BufferInv => RunsOnLiveBuffer
  BY DEF BufferInv, RunsOnLiveBuffer
<1>2. QED
  BY <1>1, InstanceInvariant, PTL

(* Only a state or preset call crashes, and nothing follows a crash.        *)
LEMMA CrashStep ==
    ASSUME InstanceInv, StateCallsUseNoFreedBuffer, [Next]_vars
    PROVE  StateCallsUseNoFreedBuffer'
<1> USE DEF StateCallsUseNoFreedBuffer
<1>1. CASE UNCHANGED vars
  BY <1>1 DEF vars
<1>2. CASE StateCall
  <2>1. ASSUME Up, ~Live(cached_buffer), instance_state # "ERROR" PROVE cached_buffer = NULL
    BY <2>1 DEF InstanceInv, BufferInv
  <2>2. UNCHANGED <<cached_buffer, instance_state>>
    BY <1>2 DEF StateCall, GetState, GetPreset, SetState, SetPresetIndex, Restore, Crashes
  <2>3. Up /\ (crash' \in {"save", "restore"} => ~Live(cached_buffer))
    BY <1>2 DEF StateCall, GetState, GetPreset, SetState, SetPresetIndex, Restore, Crashes
  <2>4. QED
    BY <2>1, <2>2, <2>3
<1>3. CASE Next /\ ~StateCall
  <2>1. crash = "none" /\ UNCHANGED crash
    BY <1>3 DEF Next, New, Activate, Deactivate, Delete, Allocate, Free, Prepare, Process,
                ProcessRefused, ProcessStage, ClearBufferForRun, EmitResponses, WriteMidi,
                BeginRun, EndRun, ProcessReturns, Stage
  <2>2. QED
    BY <2>1
<1>4. QED
  BY <1>1, <1>2, <1>3

(* Saving and restoring never go through a buffer that the host has freed, *)
(* whenever the host asks for them, as long as the instance has not failed.*)
THEOREM NoFreedBuffer == Spec => []StateCallsUseNoFreedBuffer
<1>1. Init => StateCallsUseNoFreedBuffer
  BY DEF Init, StateCallsUseNoFreedBuffer
<1>2. QED
  BY <1>1, CrashStep, InitInstance, InstanceStep, PTL DEF Spec
-----------------------------------------------------------------------------
(* The refinement: the stages of process() before and after run(), and the *)
(* calls of the extensions, are nothing to the plugin's life.              *)

USE DEF running

LEMMA SameBlocks == UNCHANGED block => UNCHANGED liveBlocks
BY DEF liveBlocks

LEMMA PortIsLive ==
    ASSUME InstanceInv, NEW a \in Addresses, Live(a)
    PROVE  block[a] \in liveBlocks
BY DEF InstanceInv, TypeOK, liveBlocks

(* The blocks of the buffers are different ones, so that a free is the end *)
(* of one of them.                                                         *)
Distinct == /\ \A a, b \in Addresses : block[a] = block[b] /\ block[a] # 0 => a = b
            /\ \A a \in Addresses : block[a] <= blocks

LEMMA DistinctStep == InstanceInv /\ Distinct /\ [Next]_vars => Distinct'
<1>1. ASSUME InstanceInv, Distinct, NEW a \in Addresses, Allocate(a) PROVE Distinct'
  BY <1>1 DEF Allocate, InstanceInv, TypeOK, Distinct
<1>2. ASSUME InstanceInv, Distinct, NEW a \in Addresses, Free(a) PROVE Distinct'
  BY <1>2 DEF Free, InstanceInv, TypeOK, Distinct
<1>3. ASSUME Distinct, UNCHANGED <<block, blocks>> PROVE Distinct'
  BY <1>3 DEF Distinct
<1>4. ASSUME [Next]_vars, \A a \in Addresses : ~Allocate(a) /\ ~Free(a)
      PROVE  UNCHANGED <<block, blocks>>
  BY <1>4 DEF Next, vars, New, Activate, Deactivate, Delete, Prepare, Process, ProcessRefused,
              ProcessStage, ClearBufferForRun, EmitResponses, WriteMidi, BeginRun, EndRun,
              ProcessReturns, StateCall, GetState, GetPreset, SetState, SetPresetIndex, Restore,
              Crashes
<1>5. QED
  BY <1>1, <1>2, <1>3, <1>4

LEMMA StepImplementsLifecycle ==
    ASSUME InstanceInv, Distinct, Next
    PROVE  [Lifecycle!Next]_(Lifecycle!vars)
<1> USE DEF Lifecycle!Next, Lifecycle!vars, Lifecycle!Move
<1>1. ASSUME NEW a \in Addresses, Allocate(a) PROVE Lifecycle!Next
  <2> DEFINE b == blocks + 1
  <2>1. b \in 1..MaxBlocks
    BY <1>1 DEF Allocate, InstanceInv, TypeOK
  <2>2. \A c \in Addresses : block[c] # b /\ block[c] \in Nat
    BY DEF Distinct, InstanceInv, TypeOK
  <2>3. \A c \in Addresses : block'[c] = IF c = a THEN b ELSE block[c]
    BY <1>1 DEF Allocate, InstanceInv, TypeOK
  <2>4. b \notin liveBlocks /\ liveBlocks' = liveBlocks \cup {b}
    <3> HIDE DEF b
    <3>1. block[a] = 0
      BY <1>1 DEF Allocate
    <3>2. QED
      BY <3>1, <2>1, <2>2, <2>3 DEF liveBlocks
  <2>5. Lifecycle!Allocate(b)
    BY <1>1, <2>4 DEF Allocate, Lifecycle!Allocate
  <2>6. QED
    BY <2>1, <2>5
<1>2. ASSUME NEW a \in Addresses, Free(a) PROVE Lifecycle!Next
  <2> DEFINE b == block[a]
  <2>1. b \in 1..MaxBlocks /\ b \in liveBlocks
    BY <1>2 DEF Free, InstanceInv, TypeOK, liveBlocks
  <2>2. \A c \in Addresses : block'[c] = IF c = a THEN 0 ELSE block[c]
    BY <1>2 DEF Free, InstanceInv, TypeOK
  <2>3. \A c \in Addresses : c # a => block[c] # b
    BY <2>1 DEF Distinct
  <2>4. liveBlocks' = liveBlocks \ {b}
    BY <2>1, <2>2, <2>3 DEF liveBlocks
  <2>5. running => b # connected
    <3>1. ASSUME running PROVE buffer \in Addresses /\ connected = block[buffer] /\ a # buffer
                               /\ block[buffer] # 0
      BY <1>2, <3>1 DEF Free, InstanceInv, TypeOK, BufferInv
    <3>2. QED
      BY <2>3, <3>1
  <2>6. Lifecycle!Free(b)
    BY <1>2, <2>1, <2>4, <2>5 DEF Free, Lifecycle!Free
  <2>7. QED
    BY <2>1, <2>6
<1>3. CASE New \/ Activate \/ Deactivate \/ Delete
  <2>1. UNCHANGED <<pc, liveBlocks>> /\ ~running
    BY <1>3, SameBlocks DEF New, Activate, Deactivate, Delete, InstanceInv, BufferInv, TypeOK
  <2>2. CASE New
    BY <2>1, <2>2 DEF New, InstanceInv, TypeOK, Lifecycle!Instantiate
  <2>3. CASE Activate
    BY <2>1, <2>3 DEF Activate, Fail, InstanceInv, TypeOK, Lifecycle!Activate
  <2>4. CASE Deactivate
    BY <2>1, <2>4 DEF Deactivate, Fail, InstanceInv, TypeOK, Lifecycle!Deactivate
  <2>5. CASE Delete
    BY <2>1, <2>5 DEF Delete, InstanceInv, TypeOK, Lifecycle!Cleanup
  <2>6. QED
    BY <1>3, <2>2, <2>3, <2>4, <2>5
<1>4. ASSUME NEW a \in Addresses, ConnectPorts(a), Live(a), pc # "running", pc' # "running",
             plugin \in {"inactive", "active"}, UNCHANGED <<plugin, block>>
      PROVE  [Lifecycle!Next]_(Lifecycle!vars)
  <2>1. connected' \in liveBlocks \/ connected' = connected
    BY <1>4, PortIsLive DEF ConnectPorts
  <2>2. QED
    BY <1>4, <2>1, SameBlocks DEF Lifecycle!ConnectPort
<1>5. ASSUME NEW a \in Addresses, Prepare(a) \/ Process(a) \/ ProcessRefused(a)
      PROVE  [Lifecycle!Next]_(Lifecycle!vars)
  <2>1. CASE Prepare(a)
    BY <1>4, <2>1, SameBlocks DEF Prepare, Fail, InstanceInv, TypeOK
  <2>2. CASE Process(a) \/ ProcessRefused(a)
    BY <2>2, SameBlocks DEF Process, ProcessRefused, Fail
  <2>3. QED
    BY <1>5, <2>1, <2>2
<1>6. CASE ProcessStage
  <2>1. CASE ClearBufferForRun
    BY <1>4, <2>1 DEF ClearBufferForRun, Stage, InstanceInv, TypeOK, BufferInv
  <2>2. CASE BeginRun
    <3>1. connected \in liveBlocks
      BY <2>2, PortIsLive DEF BeginRun, Stage, InstanceInv, TypeOK, BufferInv
    <3>2. QED
      BY <2>2, <3>1, SameBlocks DEF BeginRun, Stage, InstanceInv, TypeOK, BufferInv,
                                    Lifecycle!BeginRun
  <2>3. CASE EndRun
    BY <2>3, SameBlocks DEF EndRun, Stage, Lifecycle!EndRun
  <2>4. CASE EmitResponses \/ WriteMidi \/ ProcessReturns
    BY <2>4, SameBlocks DEF EmitResponses, WriteMidi, ProcessReturns, Stage
  <2>5. QED
    BY <1>6, <2>1, <2>2, <2>3, <2>4 DEF ProcessStage
<1>7. CASE StateCall
  BY <1>7, SameBlocks DEF StateCall, GetState, GetPreset, SetState, SetPresetIndex, Restore,
                          Crashes
<1>8. QED
  BY <1>1, <1>2, <1>3, <1>5, <1>6, <1>7 DEF Next

(* However the host calls, passes, frees and reuses its buffers, the LV2   *)
(* plugin is only treated as Lv2Lifecycle says.                            *)
THEOREM InstanceImplementsLifecycle == Spec => ImplementsLifecycle
<1>1. Init => Lifecycle!Init /\ Distinct
  BY DEF Init, Lifecycle!Init, liveBlocks, Distinct
<1>2. InstanceInv /\ Distinct /\ [Next]_vars => [Lifecycle!Next]_(Lifecycle!vars)
  BY StepImplementsLifecycle, SameBlocks DEF vars, Lifecycle!vars
<1>3. QED
  BY <1>1, <1>2, InitInstance, InstanceStep, DistinctStep, PTL
  DEF Spec, ImplementsLifecycle, Lifecycle!Spec
=============================================================================
