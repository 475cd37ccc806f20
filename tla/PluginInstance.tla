--------------------------- MODULE PluginInstance ---------------------------
(***************************************************************************)
(* The life of one plugin instance: aap_lv2_plugin_new, prepare, activate, *)
(* process, deactivate and delete, the state and presets presets, and   *)
(* the memory of the host's audio buffers.  A step is one call of the      *)
(* host, or one stage of process(); a call of the state or the presets     *)
(* extension may come between two stages of process().                     *)
(*                                                                         *)
(* A buffer is its address; what the plugin's audio ports point to is the  *)
(* block of memory that lives there, since an address may be used again.   *)
(* The host is taken to keep a buffer until it has passed another one, or  *)
(* has deactivated the plugin, and to keep what it is passing.             *)
(***************************************************************************)
EXTENDS Integers

CONSTANTS Addresses,    \* where the host's buffers may lie
          MaxBlocks,    \* bound: blocks the host allocates
          NumPresets,   \* the presets of the plugin
          ControlInputs,   \* the indices of its control inputs
          NumAapPorts,     \* the ports of the host's buffers
          NULL

ASSUME InstanceAssumption ==
    /\ NULL \notin Addresses
    /\ MaxBlocks \in Nat /\ NumPresets \in Nat
    /\ ControlInputs \subseteq Nat /\ NumAapPorts \in Nat

VARIABLES
    instance_state,  \* "none" until aap_lv2_plugin_new() returns it
    plugin,          \* the LV2 plugin: "none", "inactive", "active" or "freed"
    traits,          \* what the plugin has: a worker interface, its end_run, threadSafeRestore
    cached_buffer,   \* the buffer the ports were last connected for
    connected,       \* the block they were connected to
    mapped,          \* lv2_to_aap_portmap and control_buffer_pointers have been filled
    presets,         \* how many presets have been loaded
    pc, buffer,      \* where process() is, and its argument
    ran,             \* run() has returned since the last end_run()
    crash,           \* "none", or why a call of the host did not return
    block, blocks,   \* of the host: the block at each address, and how many there have been
    lent             \* of the host: the buffer it has to keep

portVars == <<cached_buffer, connected, mapped>>
host == <<block, blocks, lent>>
vars == <<instance_state, plugin, traits, portVars, presets, pc, buffer, ran, crash, host>>

Traits == {f \in [worker : BOOLEAN, end_run : BOOLEAN, safe_restore : BOOLEAN] :
              f.end_run => f.worker}

Init ==
    /\ instance_state = "none" /\ plugin = "none"
    /\ traits \in Traits
    /\ cached_buffer = NULL /\ connected = 0 /\ mapped = FALSE
    /\ presets = 0
    /\ pc = "idle" /\ buffer = NULL
    /\ ran = FALSE
    /\ crash = "none"
    /\ block = [a \in Addresses |-> 0] /\ blocks = 0 /\ lent = NULL

Live(a) == a # NULL /\ block[a] # 0

\* The host can call: it has an instance, and no call has crashed.
Up == crash = "none" /\ instance_state \notin {"none", "TERMINATING"}
Idle == Up /\ pc = "idle"
-----------------------------------------------------------------------------
(* The host's memory.                                                      *)

Allocate(a) ==
    /\ crash = "none"
    /\ block[a] = 0 /\ blocks < MaxBlocks
    /\ blocks' = blocks + 1
    /\ block' = [block EXCEPT ![a] = blocks + 1]
    /\ UNCHANGED <<instance_state, plugin, traits, portVars, presets, pc, buffer, ran,
                   crash, lent>>

Free(a) ==
    /\ crash = "none"
    /\ block[a] # 0 /\ a \notin {lent, buffer}
    /\ block' = [block EXCEPT ![a] = 0]
    /\ UNCHANGED <<instance_state, plugin, traits, portVars, presets, pc, buffer, ran,
                   crash, blocks, lent>>
-----------------------------------------------------------------------------
(* The life cycle.                                                         *)

New ==
    /\ crash = "none" /\ instance_state = "none"
    /\ instance_state' = "INITIAL" /\ plugin' = "inactive"
    /\ UNCHANGED <<traits, portVars, presets, pc, buffer, ran, crash, host>>

\* A call in a state it is not for.
Fail == instance_state' = "ERROR" /\ UNCHANGED <<plugin, cached_buffer, connected>>

(* Faulty: another buffer is taken for the same.                           *)
ConnectPortsOnce(a) ==
    /\ cached_buffer' = a
    /\ connected' = IF cached_buffer = NULL THEN block[a] ELSE connected

\* clearBufferForRun(): the ports are moved only if the address is another.
ConnectPorts(a) ==
    /\ cached_buffer' = a
    /\ connected' = IF a # cached_buffer THEN block[a] ELSE connected

Prepare(a) ==
    /\ Idle /\ Live(a)
    /\ \/ instance_state = "INITIAL" /\ ConnectPorts(a)
          /\ instance_state' = "PREPARED" /\ mapped' = TRUE /\ UNCHANGED plugin
       \/ instance_state # "INITIAL" /\ Fail /\ UNCHANGED mapped
    /\ lent' = a
    /\ UNCHANGED <<traits, presets, pc, buffer, ran, crash, block, blocks>>

Activate ==
    /\ Idle
    /\ \/ instance_state = "PREPARED" /\ plugin' = "active"
          /\ instance_state' = "ACTIVE" /\ UNCHANGED <<cached_buffer, connected>>
       \/ instance_state # "PREPARED" /\ Fail
    /\ UNCHANGED <<traits, mapped, presets, pc, buffer, ran, crash, host>>

(* Faulty: the next run is on the buffer of the last.                      *)
DeactivateKeepingBuffer ==
    /\ Idle
    /\ \/ instance_state = "ACTIVE" /\ plugin' = "inactive"
          /\ instance_state' = "PREPARED" /\ UNCHANGED <<cached_buffer, connected>>
       \/ instance_state # "ACTIVE" /\ Fail
    /\ lent' = NULL
    /\ UNCHANGED <<traits, mapped, presets, pc, buffer, ran, crash, block, blocks>>

Deactivate ==
    /\ Idle
    /\ \/ instance_state = "ACTIVE" /\ plugin' = "inactive"
          /\ instance_state' = "PREPARED" /\ cached_buffer' = NULL /\ UNCHANGED connected
       \/ instance_state # "ACTIVE" /\ Fail
    /\ lent' = NULL
    /\ UNCHANGED <<traits, mapped, presets, pc, buffer, ran, crash, block, blocks>>

(* Faulty: the instance is not marked.                                     *)
DeleteUnmarked ==
    /\ Idle
    /\ plugin' = "freed"
    /\ UNCHANGED <<instance_state, traits, portVars, presets, pc, buffer, ran, crash,
                   host>>

\* lilv_instance_free() cleans an active plugin up without deactivating it.
Delete ==
    /\ Idle
    /\ instance_state' = "TERMINATING" /\ plugin' = "freed"
    /\ UNCHANGED <<traits, portVars, presets, pc, buffer, ran, crash, host>>
-----------------------------------------------------------------------------
(* process(), stage by stage.                                              *)

\* The states in which it returns at once.
ProcessRefused(a) ==
    /\ Idle /\ Live(a) /\ instance_state # "ACTIVE"
    /\ Fail
    /\ lent' = a
    /\ UNCHANGED <<traits, mapped, presets, pc, buffer, ran, crash, block, blocks>>

(* Faulty: the state is not looked at.                                     *)
ProcessUnchecked(a) ==
    /\ Idle /\ Live(a) /\ instance_state # "ERROR"
    /\ pc' = "connect" /\ buffer' = a
    /\ UNCHANGED <<instance_state, plugin, traits, portVars, presets, ran, crash, host>>

Process(a) ==
    /\ Idle /\ Live(a) /\ instance_state = "ACTIVE"
    /\ pc' = "connect" /\ buffer' = a
    /\ UNCHANGED <<instance_state, plugin, traits, portVars, presets, ran, crash, host>>

Stage(from, to) == Up /\ pc = from /\ pc' = to

ClearBufferForRun ==
    /\ Stage("connect", "replies")
    /\ ConnectPorts(buffer)
    /\ UNCHANGED <<instance_state, plugin, traits, mapped, presets, buffer, ran, crash,
                   host>>

\* The workers' responses, and end_run() behind them.
EmitResponses ==
    /\ Stage("replies", "midi")
    /\ ran' = IF traits.end_run THEN FALSE ELSE ran
    /\ UNCHANGED <<instance_state, plugin, traits, portVars, presets, buffer, crash,
                   host>>

WriteMidi ==
    /\ Stage("midi", "run")
    /\ UNCHANGED <<instance_state, plugin, traits, portVars, presets, buffer, ran, crash,
                   host>>

BeginRun ==
    /\ Stage("run", "running")
    /\ UNCHANGED <<instance_state, plugin, traits, portVars, presets, buffer, ran, crash,
                   host>>

EndRun ==
    /\ Stage("running", "return")
    /\ ran' = TRUE
    /\ UNCHANGED <<instance_state, plugin, traits, portVars, presets, buffer, crash,
                   host>>

\* The call returns: after the run, or from "midi" when there is no MIDI input buffer.
ProcessReturns ==
    /\ Stage("return", "idle") \/ Stage("midi", "idle")
    /\ buffer' = NULL
    /\ lent' = buffer
    /\ UNCHANGED <<instance_state, plugin, traits, portVars, presets, ran, crash, block,
                   blocks>>

ProcessStage ==
    \/ ClearBufferForRun \/ EmitResponses \/ WriteMidi \/ BeginRun \/ EndRun \/ ProcessReturns
-----------------------------------------------------------------------------
(* The state and presets extensions.                                       *)

Crashes(why) ==
    /\ crash' = why
    /\ UNCHANGED <<instance_state, plugin, traits, portVars, pc, buffer, ran, host>>

(* lilv_state_new_from_instance() asks for the value of every control      *)
(* input.  aap_lv2_get_port_value() passes the index of the LV2 port, as   *)
(* if it were one of the host's ports, to get_buffer() of the cached       *)
(* buffer, which may be none, or one whose memory is gone.  What that does *)
(* with an index the host has no port of is not said.                      *)
GetState ==
    /\ Up
    /\ \/ (ControlInputs # {} => Live(cached_buffer)) /\ Crashes("none")
       \/ /\ Live(cached_buffer) /\ \E i \in ControlInputs : i >= NumAapPorts
          /\ Crashes("range")
       \/ ControlInputs # {} /\ ~Live(cached_buffer) /\ Crashes("save")
    /\ UNCHANGED presets

(* lilv_state_restore(): the plugin's own restore may schedule work; then  *)
(* aap_lv2_set_port_value() is given the value of a port of that kind, or  *)
(* none.  Its assertion is taken to be compiled in.  A port that is not in *)
(* lv2_to_aap_portmap becomes 0 there: all of them, as long as prepare()   *)
(* has not been through it.  The value of a control port that has been     *)
(* through it goes to control_buffer_pointers.                             *)
Restore(kind, schedules) ==
    Crashes(CASE schedules /\ traits.worker /\ ~traits.safe_restore -> "iface"
              [] kind # "none" /\ instance_state = "INITIAL" -> "assert"
              [] (kind = "audio" \/ (kind = "control" /\ ~mapped)) /\ ~Live(cached_buffer)
                    -> "restore"
              [] OTHER -> "none")

Kinds == {"none", "control", "audio"}

SetState(kind, schedules) == Up /\ Restore(kind, schedules) /\ UNCHANGED presets

EnsurePresetLoaded == presets' = IF presets = 0 THEN NumPresets ELSE presets

\* Asking for the count, or for a preset below it.
GetPreset == Up /\ EnsurePresetLoaded /\ Crashes("none")

SetPresetIndex(index, kind, schedules) ==
    /\ Up
    /\ EnsurePresetLoaded
    /\ IF index < presets' THEN Restore(kind, schedules) ELSE Crashes("none")

StateCall ==
    \/ GetState \/ GetPreset
    \/ \E kind \in Kinds, schedules \in BOOLEAN :
          \/ SetState(kind, schedules)
          \/ \E index \in 0..NumPresets : SetPresetIndex(index, kind, schedules)

Next ==
    \/ New \/ Activate \/ Deactivate \/ Delete
    \/ \E a \in Addresses : Allocate(a) \/ Free(a) \/ Prepare(a) \/ Process(a) \/ ProcessRefused(a)
    \/ ProcessStage
    \/ StateCall

Spec == Init /\ [][Next]_vars
-----------------------------------------------------------------------------
States == {"none", "INITIAL", "PREPARED", "ACTIVE", "TERMINATING", "ERROR"}
Stages == {"idle", "connect", "replies", "midi", "run", "running", "return"}

\* Besides the types, which of the values go together.
TypeOK ==
    /\ instance_state \in States
    /\ plugin \in {"none", "inactive", "active", "freed"}
    /\ plugin = "none" <=> instance_state = "none"
    /\ plugin = "freed" <=> instance_state = "TERMINATING"
    /\ instance_state \in {"INITIAL", "PREPARED"} => plugin = "inactive"
    /\ instance_state = "ACTIVE" => plugin = "active"
    /\ traits \in Traits
    /\ cached_buffer \in Addresses \cup {NULL}
    /\ blocks \in 0..MaxBlocks /\ connected \in 0..MaxBlocks
    /\ mapped \in BOOLEAN
    /\ presets \in 0..NumPresets
    /\ pc \in Stages /\ buffer \in Addresses \cup {NULL}
    /\ pc = "idle" <=> buffer = NULL
    /\ ran \in BOOLEAN
    /\ crash \in {"none", "save", "range", "restore", "assert", "iface"}
    /\ block \in [Addresses -> 0..MaxBlocks]
    /\ lent \in Addresses \cup {NULL}

(* The plugin runs on the memory of the buffer of this very call: the      *)
(* comparison of addresses never keeps it on a buffer that is gone.        *)
RunsOnLiveBuffer == pc = "running" => Live(buffer) /\ connected = block[buffer]

(* bridge.cpp:514 "Notify the plugin the run() cycle is finished": a       *)
(* plugin that has end_run() is called there behind a run().               *)
EndRunFollowsRun == pc = "replies" /\ traits.end_run => ran

(* A call of the state or the presets extension that goes through the      *)
(* cached buffer never does so when that has been freed: in an instance    *)
(* that has not failed, there is either no such buffer or a live one.      *)
StateCallsUseNoFreedBuffer ==
    crash \in {"save", "restore"} => cached_buffer = NULL \/ instance_state = "ERROR"

(* What the comparison of addresses relies on.                             *)
BufferInv ==
    /\ lent # NULL => Live(lent)
    /\ pc # "idle" => instance_state = "ACTIVE" /\ Live(buffer)
    /\ instance_state \notin {"TERMINATING", "ERROR"} =>
          /\ cached_buffer = IF pc \in {"idle", "connect"} THEN lent ELSE buffer
          /\ cached_buffer # NULL => connected = block[cached_buffer]
    /\ instance_state \in {"none", "INITIAL"} => lent = NULL

InstanceInv == TypeOK /\ BufferInv

\* The plugin's side of it.
running == pc = "running"
liveBlocks == {b \in 1..MaxBlocks : \E a \in Addresses : block[a] = b}
Lifecycle == INSTANCE Lv2Lifecycle
    WITH Allocations <- 1..MaxBlocks, phase <- plugin, port <- connected, blocks <- liveBlocks

(* Whatever the host does with the instance, the plugin is treated as      *)
(* Lv2Lifecycle says.                                                      *)
ImplementsLifecycle == Lifecycle!Spec
=============================================================================
