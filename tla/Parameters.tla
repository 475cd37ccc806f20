----------------------------- MODULE Parameters -----------------------------
(***************************************************************************)
(* How the host learns the values of a plugin's parameters.  process()     *)
(* writes the host's changes to the control ports, lets the plugin run,    *)
(* and then tells the host every value that is not the one it told before, *)
(* as long as the output buffer has room.  Meanwhile a thread of the host  *)
(* may restore a state or a preset: it writes the control ports and marks  *)
(* every parameter as never told, with no lock between the two.            *)
(*                                                                         *)
(* Parameters are numbered in the order of aapParams.  A message is its    *)
(* parameter and value; ParameterIn, Run and RestoreValue stand for the    *)
(* host's messages, the plugin's DSP and lilv_state_restore().             *)
(***************************************************************************)
EXTENDS Integers

CONSTANTS N,             \* the number of parameters
          Outputs,       \* those the plugin sets, its control output ports
          Values,        \* what a control port may hold
          NaN,           \* quiet_NaN(), equal to none of them: not told yet
          Capacities,    \* how many messages the host's buffers have room for
          MaxChanges,    \* bound on the changes of values
          MaxRestores    \* bound on the states and presets restored

ASSUME ParametersAssumption ==
    /\ N \in Nat
    /\ Outputs \subseteq 1..N
    /\ NaN \notin Values
    /\ Capacities \subseteq Nat
    /\ MaxChanges \in Nat
    /\ MaxRestores \in Nat

Params == 1..N

VARIABLES
    control,         \* control_buffer_pointers, of the parameters' ports
    last_emitted,    \* last_emitted_parameter_values
    emit_all,        \* emit_all_parameter_values
    pc,              \* where process() is
    next,            \* the parameter its loop is at
    current,         \* currentValue
    room,            \* how many more messages fit in the output buffer
    out,             \* the messages written to it, by parameter
    told,            \* the host's idea of each parameter
    lost,            \* the parameters whose last change by the host is lost
    host,            \* where set_state() is
    unmarked,        \* the parameters assign() has not reached yet
    changes, restores

audioVars == <<pc, next, current, room, out>>
hostVars == <<host, unmarked, restores>>
viewVars == <<told, lost>>
vars == <<control, last_emitted, emit_all, audioVars, viewVars, hostVars, changes>>

(* aap_lv2_plugin_prepare() has set the defaults and marked all as dirty.  *)
Init ==
    /\ control \in [Params -> Values]
    /\ last_emitted = [p \in Params |-> NaN]
    /\ emit_all = TRUE
    /\ pc = "idle" /\ next = 1 /\ current = NaN /\ room = 0 /\ out = << >>
    /\ told = [p \in Params |-> NaN] /\ lost = {}
    /\ host = "idle" /\ unmarked = {}
    /\ changes = 0 /\ restores = 0
-----------------------------------------------------------------------------
(* The audio thread: process().  A call that returns early, because of the *)
(* instance's state or for want of an input buffer, changes none of this.  *)

Process ==
    /\ pc = "idle"
    /\ pc' = "midi_in"
    /\ UNCHANGED <<control, last_emitted, emit_all, next, current, room, out, viewVars,
                   hostVars, changes>>

\* A parameter change among the host's messages.  The host knows of it, and
\* has no reason to set what the plugin puts out.
ParameterIn(p, v) ==
    /\ pc = "midi_in"
    /\ changes < MaxChanges
    /\ changes' = changes + 1
    /\ control' = [control EXCEPT ![p] = v]
    /\ told' = [told EXCEPT ![p] = v]
    /\ lost' = lost \ {p}
    /\ UNCHANGED <<last_emitted, emit_all, audioVars, hostVars>>

\* A MIDI event for which its Atom sequence has no room ends the loop over
\* the messages, and the changes behind it reach no port.
MidiOverflow ==
    /\ pc = "midi_in"
    /\ pc' = "overflow"
    /\ UNCHANGED <<control, last_emitted, emit_all, next, current, room, out, viewVars,
                   hostVars, changes>>

ParameterLost(p, v) ==
    /\ pc = "overflow"
    /\ changes < MaxChanges
    /\ changes' = changes + 1
    /\ told' = [told EXCEPT ![p] = v]
    /\ lost' = lost \cup {p}
    /\ UNCHANGED <<control, last_emitted, emit_all, audioVars, hostVars>>

\* lilv_instance_run(): the plugin may set its output ports.
Run(outputs) ==
    /\ pc \in {"midi_in", "overflow"}
    /\ control' = [p \in Params |-> IF p \in Outputs THEN outputs[p] ELSE control[p]]
    /\ \/ control' = control /\ UNCHANGED changes
       \/ changes < MaxChanges /\ changes' = changes + 1
    /\ pc' = "post"
    /\ UNCHANGED <<last_emitted, emit_all, next, current, room, out, viewVars, hostVars>>

(* read_forge_events_as_midi2_events(): a buffer that holds the header and *)
(* nothing else ends it at once ...                                        *)
NoRoom ==
    /\ pc = "post"
    /\ 0 \in Capacities
    /\ pc' = "idle"
    /\ UNCHANGED <<control, last_emitted, emit_all, next, current, room, out, viewVars,
                   hostVars, changes>>

EmitBegin(capacity) ==
    /\ pc = "post"
    /\ pc' = "load"
    /\ next' = 1
    /\ room' = capacity
    /\ out' = << >>
    /\ UNCHANGED <<control, last_emitted, emit_all, current, viewVars, hostVars, changes>>

(* ... otherwise each parameter's value is loaded ...                      *)
Load ==
    /\ pc = "load"
    /\ next \in Params
    /\ current' = control[next]
    /\ pc' = "compare"
    /\ UNCHANGED <<control, last_emitted, emit_all, next, room, out, viewVars, hostVars, changes>>

(* ... compared with the one told before, and told again if it is another, *)
(* unless the buffer is full: then the loop is left ...                    *)
Same ==
    /\ pc = "compare"
    /\ ~emit_all /\ current = last_emitted[next]
    /\ next' = next + 1
    /\ pc' = "load"
    /\ UNCHANGED <<control, last_emitted, emit_all, current, room, out, viewVars, hostVars, changes>>

Different == pc = "compare" /\ (emit_all \/ current # last_emitted[next])

(* Faulty: the value is noted as told before there is known to be room.    *)
FullButNoted ==
    /\ Different
    /\ room = 0
    /\ pc' = "end"
    /\ last_emitted' = [last_emitted EXCEPT ![next] = current]
    /\ UNCHANGED <<control, emit_all, next, current, room, out, viewVars, hostVars, changes>>

Full ==
    /\ Different
    /\ room = 0
    /\ pc' = "end"
    /\ UNCHANGED <<control, last_emitted, emit_all, next, current, room, out, viewVars,
                   hostVars, changes>>

(* Faulty: written without a look at the room left.                        *)
WriteUnchecked ==
    /\ Different
    /\ room' = room - 1
    /\ out' = [p \in DOMAIN out \cup {next} |-> IF p = next THEN current ELSE out[p]]
    /\ pc' = "store"
    /\ UNCHANGED <<control, last_emitted, emit_all, next, current, viewVars, hostVars, changes>>

Write ==
    /\ Different
    /\ room > 0
    /\ room' = room - 1
    /\ out' = [p \in DOMAIN out \cup {next} |-> IF p = next THEN current ELSE out[p]]
    /\ pc' = "store"
    /\ UNCHANGED <<control, last_emitted, emit_all, next, current, viewVars, hostVars, changes>>

(* Faulty: the value is loaded a second time.                              *)
StoreReloaded ==
    /\ pc = "store"
    /\ last_emitted' = [last_emitted EXCEPT ![next] = control[next]]
    /\ next' = next + 1
    /\ pc' = "load"
    /\ UNCHANGED <<control, emit_all, current, room, out, viewVars, hostVars, changes>>

(* ... and noted as told.                                                  *)
Store ==
    /\ pc = "store"
    /\ last_emitted' = [last_emitted EXCEPT ![next] = current]
    /\ next' = next + 1
    /\ pc' = "load"
    /\ UNCHANGED <<control, emit_all, current, room, out, viewVars, hostVars, changes>>

(* What the host has been told once it reads the output buffer. *)
View(p) == IF p \in DOMAIN out THEN out[p] ELSE told[p]

(* The length is published, process() returns, and the host reads it all.  *)
EmitEnd ==
    /\ pc = "end" \/ (pc = "load" /\ next \notin Params)
    /\ emit_all' = FALSE
    /\ pc' = "idle"
    /\ told' = [p \in Params |-> View(p)]
    /\ lost' = lost \ DOMAIN out
    /\ out' = << >>
    /\ UNCHANGED <<control, last_emitted, next, current, room, hostVars, changes>>

Emit ==
    \/ NoRoom \/ (\E capacity \in Capacities : EmitBegin(capacity))
    \/ Load \/ Same \/ Full \/ Write \/ Store \/ EmitEnd
-----------------------------------------------------------------------------
(* The host's thread: aap_lv2_set_state(), aap_lv2_set_preset_index(). *)

RestoreBegin ==
    /\ host = "idle"
    /\ restores < MaxRestores
    /\ restores' = restores + 1
    /\ host' = "restore"
    /\ UNCHANGED <<control, last_emitted, emit_all, audioVars, viewVars, unmarked, changes>>

\* aap_lv2_set_port_value()
RestoreValue(p, v) ==
    /\ host = "restore"
    /\ changes < MaxChanges
    /\ changes' = changes + 1
    /\ control' = [control EXCEPT ![p] = v]
    /\ UNCHANGED <<last_emitted, emit_all, audioVars, viewVars, hostVars>>

(* Faulty: only the flag is set, which the next cycle resets.              *)
MarkFlagOnly ==
    /\ host = "restore"
    /\ emit_all' = TRUE
    /\ host' = "idle"
    /\ UNCHANGED <<control, last_emitted, audioVars, viewVars, unmarked, restores, changes>>

\* markAllParameterValuesDirty(): the flag, then the values one by one.
MarkAll ==
    /\ host = "restore"
    /\ emit_all' = TRUE
    /\ host' = "mark"
    /\ unmarked' = Params
    /\ UNCHANGED <<control, last_emitted, audioVars, viewVars, restores, changes>>

Mark(p) ==
    /\ host = "mark"
    /\ p \in unmarked
    /\ last_emitted' = [last_emitted EXCEPT ![p] = NaN]
    /\ unmarked' = unmarked \ {p}
    /\ UNCHANGED <<control, emit_all, audioVars, viewVars, host, restores, changes>>

RestoreEnd ==
    /\ host = "mark"
    /\ unmarked = {}
    /\ host' = "idle"
    /\ UNCHANGED <<control, last_emitted, emit_all, audioVars, viewVars, unmarked, restores, changes>>

MarkingThread == MarkAll \/ (\E p \in Params : Mark(p)) \/ RestoreEnd

AudioThread ==
    \/ Process
    \/ \E p \in Params \ Outputs, v \in Values : ParameterIn(p, v) \/ ParameterLost(p, v)
    \/ MidiOverflow
    \/ \E outputs \in [Outputs -> Values] : Run(outputs)
    \/ Emit

HostThread ==
    \/ RestoreBegin
    \/ \E p \in Params, v \in Values : RestoreValue(p, v)
    \/ MarkingThread

Next == AudioThread \/ HostThread

(* A call that has begun goes on; nothing makes the host call process().   *)
Spec ==
    /\ Init /\ [][Next]_vars
    /\ WF_vars((\E outputs \in [Outputs -> Values] : Run(outputs)) \/ Emit)
    /\ WF_vars(MarkingThread)
-----------------------------------------------------------------------------
Emitting == {"load", "compare", "store", "end"}

TypeOK ==
    /\ control \in [Params -> Values]
    /\ last_emitted \in [Params -> Values \cup {NaN}]
    /\ emit_all \in BOOLEAN
    /\ pc \in {"idle", "midi_in", "overflow", "post"} \cup Emitting
    /\ next \in 1..(N + 1) /\ (pc \in {"compare", "store", "end"} => next \in Params)
    /\ current \in Values \cup {NaN} /\ (pc \in {"compare", "store"} => current \in Values)
    /\ room \in Nat
    /\ DOMAIN out \subseteq Params /\ \A p \in DOMAIN out : out[p] \in Values
    /\ told \in [Params -> Values \cup {NaN}] /\ lost \subseteq Params
    /\ host \in {"idle", "restore", "mark"}
    /\ unmarked \subseteq Params
    /\ changes \in 0..MaxChanges /\ restores \in 0..MaxRestores

(* A restore under way will still mark the parameter. *)
ToBeMarked(p) == host = "restore" \/ p \in unmarked

(* Between two calls of process() a difference between a control port and  *)
(* the host's idea of it does not go unnoticed: the next call will find    *)
(* it, or a restore will see to it.                                        *)
WillBeTold(p) == last_emitted[p] # control[p] \/ ToBeMarked(p)

NoChangeForgotten ==
    pc = "idle" => \A p \in Params \ lost : told[p] # control[p] => WillBeTold(p)

(* The same of the changes of the host that a MIDI event came in the way   *)
(* of: "Dropping MIDI event" says that no more than the event is dropped.  *)
OnlyMidiIsDropped ==
    pc = "idle" => \A p \in lost : told[p] # control[p] => WillBeTold(p)

(* The inductive invariant behind it: what the plugin noted as told is the *)
(* host's idea, or nothing; or the host's idea is the port's value, by the *)
(* host's own change.  Only a message just written is not noted yet.       *)
NotesAreTrue ==
    /\ \A p \in Params :
          \/ last_emitted[p] \in {NaN, View(p)}
          \/ p \notin Outputs /\ control[p] = View(p)
          \/ pc = "store" /\ p = next
          \/ ToBeMarked(p)
          \/ p \in lost \ DOMAIN out
    /\ pc = "store" => next \in DOMAIN out /\ out[next] = current
    /\ pc \notin Emitting => out = << >>

(* If the host keeps calling process(), with room for a message whenever   *)
(* there is something to tell, then once the values stop changing it knows *)
(* them all, those that a full buffer or a restore came across too; but    *)
(* not those it set itself by a change that was lost.                      *)
CycleWithRoom == EmitEnd /\ (DOMAIN out # {} \/ next \notin Params)

ValuesAreTold ==
    []<><<CycleWithRoom>>_vars => <>[](\A p \in Params \ lost : told[p] = control[p])
=============================================================================
