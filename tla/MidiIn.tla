------------------------------- MODULE MidiIn -------------------------------
(***************************************************************************)
(* The host's messages of one process() call and what becomes of them      *)
(* (write_midi2_events_as_midi1_to_lv2_forge): time stamps, MIDI events    *)
(* for the Atom sequence of their UMP group, and parameter changes for the *)
(* control ports.  It goes on from the ports that Ports has prepared; a    *)
(* step is one message.  How lv2_atom_forge and cmidi2 fill a sequence and *)
(* convert a message is taken from their use; sizes are in units of 8      *)
(* bytes, which an event's time, its header, and the padding make it.      *)
(***************************************************************************)
EXTENDS Ports

CONSTANTS Played,        \* bound: the plugins whose messages are looked at
          Messages,      \* what the host may send
          FrameCounts,   \* the frame counts it passes to process()
          AtomUnits,     \* atom_buffer_size
          SampleRate, TicksPerSecond,   \* frames, and ticks of a time stamp, in the same time
          MaxMessages,   \* bound on the messages of a behaviour
          MaxCycles      \* bound on the process() calls

ASSUME MidiInAssumption ==
    /\ AtomUnits \in Nat /\ AtomUnits >= 2
    /\ SampleRate \in Nat /\ TicksPerSecond \in Nat \ {0}
    /\ FrameCounts \subseteq Nat
    /\ \A m \in Messages :
          /\ m.group \in Nat
          /\ m.type = "jr" => m.ticks \in Nat
          /\ m.type = "midi" => m.size \in Nat
    /\ MaxMessages \in Nat /\ MaxCycles \in Nat

VARIABLES
    frame_count,   \* the argument of process()
    jr,            \* currentJRTimestamp
    prev_group, atom_in,   \* prevGroup, atomMidiIn
    events,        \* what a reader of each MIDI input sequence finds: [msg, time, whole]
    used,          \* the forge's offset in each
    overflow,      \* an event had no room, and the loop was left
    patch_size,    \* atom.size of the patch input's sequence, 32 bits of bytes
    sent,          \* the messages of this call, as far as they have been read
    named,         \* the last value the host has named for each parameter
    messages, cycles

sequenceVars == <<events, used, overflow>>
midiVars == <<frame_count, jr, prev_group, atom_in, sequenceVars, patch_size, sent, named,
              messages, cycles>>
vars == <<portVars, midiVars>>

Init ==
    /\ InitPorts
    /\ frame_count = 0 /\ jr = 0 /\ prev_group = -1 /\ atom_in = -1
    /\ events = << >> /\ used = << >> /\ overflow = FALSE
    /\ patch_size = 0
    /\ sent = << >> /\ named = << >>
    /\ messages = 0 /\ cycles = 0

Prepare == PrepareStep /\ UNCHANGED midiVars

BufferSize(p) == IF Port(p).rsz > 0 THEN Port(p).rsz ELSE AtomUnits

MidiInputs == {midi_ins[g] : g \in 1..Len(midi_ins)}

(* The call begins: the sequences are cleared and begun with their heads.  *)
Process(frames) ==
    /\ pc = "ready" /\ ports \in Played /\ cycles < MaxCycles
    /\ pc' = "midi"
    /\ cycles' = cycles + 1
    /\ frame_count' = frames
    /\ jr' = 0 /\ prev_group' = -1 /\ atom_in' = -1
    /\ events' = [p \in MidiInputs |-> << >>]
    /\ used' = [p \in MidiInputs |-> 2]
    /\ overflow' = FALSE
    /\ patch_size' = IF patch_in < 0 THEN 0 ELSE BufferSize(patch_in) - 1
    /\ sent' = << >>
    /\ UNCHANGED <<ports, aap_ports, next, parameterVars, audioVars, control_ports, atomVars,
                   control, connected, named, messages>>
-----------------------------------------------------------------------------
(* The sequence for a group is looked up when the group changes.           *)
GroupPort(group) == IF group < Len(midi_ins) THEN midi_ins[group + 1] ELSE -1

(* Faulty: a group without a sequence leaves that of the one before.       *)
ReadMessageStale(m) ==
    /\ pc = "midi" /\ ~overflow /\ messages < MaxMessages
    /\ messages' = messages + 1
    /\ sent' = Append(sent, m)
    /\ prev_group' = m.group
    /\ atom_in' = IF m.group # prev_group /\ m.group < Len(midi_ins) THEN GroupPort(m.group)
                  ELSE atom_in
    /\ UNCHANGED <<ports, aap_ports, pc, next, parameterVars, audioVars, atomVars, connected,
                   frame_count, cycles>>

ReadMessage(m) ==
    /\ pc = "midi" /\ ~overflow /\ messages < MaxMessages
    /\ messages' = messages + 1
    /\ sent' = Append(sent, m)
    /\ prev_group' = m.group
    /\ atom_in' = IF m.group # prev_group THEN GroupPort(m.group) ELSE atom_in
    /\ UNCHANGED <<ports, aap_ports, pc, next, parameterVars, audioVars, atomVars, connected,
                   frame_count, cycles>>

JRTimestamp(m) ==
    /\ m.type = "jr" /\ ReadMessage(m)
    /\ jr' = jr + m.ticks
    /\ UNCHANGED <<control_ports, control, sequenceVars, patch_size, named>>

\* A JR clock, or a message that MIDI 1.0 has nothing for.
Ignored(m) ==
    /\ m.type = "other" /\ ReadMessage(m)
    /\ UNCHANGED <<control_ports, control, jr, sequenceVars, patch_size, named>>

\* 2^32 bytes
SizeRange == 536870912

(* A parameter change.  Where there is a patch input, one of no control    *)
(* port would become a patch message, but nothing is forged: the sequence  *)
(* is left with the size of an empty forge less its header.  Without, it   *)
(* is taken for port 0, with the value that a range from 0 to 0 makes it.  *)
ParameterChange(m) ==
    /\ m.type = "param" /\ ReadMessage(m)
    /\ named' = Put(named, m.id, m.value)
    /\ \/ /\ patch_in >= 0 /\ m.id \notin control_ports
          /\ patch_size' = (0 - 1) % SizeRange
          /\ UNCHANGED <<control, control_ports>>
       \/ /\ patch_in < 0 \/ m.id \in control_ports
          /\ control' = [control EXCEPT ![ControlPort(m.id)] =
                            IF InSeq(m.id, aapParams) THEN m.value ELSE 0]
          /\ UNCHANGED <<control_ports, patch_size>>
    /\ UNCHANGED <<jr, sequenceVars>>

(* Faulty: an event later than the call is left there.                     *)
FrameTimeUnclamped(stamp) == (stamp * SampleRate) \div TicksPerSecond

\* In whole frames, and never behind the last one of the call.
FrameTime(stamp) ==
    LET t == (stamp * SampleRate) \div TicksPerSecond
    IN  IF frame_count > 0 /\ t >= frame_count THEN frame_count - 1 ELSE t

\* A MIDI message for a group that has no sequence is passed over.
NoSequence(m) ==
    /\ m.type = "midi" /\ ReadMessage(m)
    /\ atom_in' < 0
    /\ UNCHANGED <<control_ports, control, jr, sequenceVars, patch_size, named>>

EventOf(m, whole) == [msg |-> m, time |-> FrameTime(jr), whole |-> whole]

(* Faulty: what the forge returns is not looked at.                        *)
EventUnchecked(m) ==
    /\ m.type = "midi" /\ ReadMessage(m)
    /\ atom_in' >= 0
    /\ used' = [used EXCEPT ![atom_in'] = @ + 2 + m.size]
    /\ events' = [events EXCEPT ![atom_in'] = Append(@, EventOf(m, TRUE))]
    /\ UNCHANGED <<control_ports, control, jr, overflow, patch_size, named>>

(* An event: its time, header and body are written as long as there is     *)
(* room.  The first that has none is lost with all messages behind it; but *)
(* each write raises the size of the sequence, whose frame is on the       *)
(* forge's stack until all messages are read, so that a reader finds what  *)
(* was written of it as one more event, that goes on behind the buffer.    *)
Event(m) ==
    /\ m.type = "midi" /\ ReadMessage(m)
    /\ atom_in' >= 0
    /\ used[atom_in'] + 2 + m.size <= BufferSize(atom_in')
    /\ used' = [used EXCEPT ![atom_in'] = @ + 2 + m.size]
    /\ events' = [events EXCEPT ![atom_in'] = Append(@, EventOf(m, TRUE))]
    /\ UNCHANGED <<control_ports, control, jr, overflow, patch_size, named>>

EventOverflow(m) ==
    /\ m.type = "midi" /\ ReadMessage(m)
    /\ atom_in' >= 0
    /\ LET room == BufferSize(atom_in') - used[atom_in']
       IN  /\ room < 2 + m.size
           /\ used' = [used EXCEPT ![atom_in'] = @ + (IF room < 2 THEN room ELSE 2)]
           /\ events' = IF room = 0 THEN events
                        ELSE [events EXCEPT ![atom_in'] = Append(@, EventOf(m, FALSE))]
    /\ overflow' = TRUE
    /\ UNCHANGED <<control_ports, control, jr, patch_size, named>>

\* The frame count is brought down to the buffer's, and the plugin run.
RunFrames == IF NumFrames < frame_count THEN NumFrames ELSE frame_count

Run ==
    /\ pc = "midi"
    /\ pc' = "ready"
    /\ UNCHANGED <<ports, aap_ports, next, parameterVars, audioVars, control_ports, atomVars,
                   control, connected, midiVars>>

Message(m) ==
    \/ JRTimestamp(m) \/ Ignored(m) \/ ParameterChange(m)
    \/ NoSequence(m) \/ Event(m) \/ EventOverflow(m)

Next ==
    \/ Prepare
    \/ \E frames \in FrameCounts : Process(frames)
    \/ \E m \in Messages : Message(m)
    \/ Run

Spec == Init /\ [][Next]_vars
-----------------------------------------------------------------------------
MidiTypeOK ==
    /\ frame_count \in FrameCounts \cup {0} /\ jr \in Nat
    /\ atom_in \in MidiInputs \cup {-1}
    /\ DOMAIN events = DOMAIN used
    /\ \A p \in DOMAIN used : used[p] \in 2..BufferSize(p)
    /\ overflow \in BOOLEAN
    /\ patch_size \in Nat
    /\ messages \in 0..MaxMessages /\ cycles \in 0..MaxCycles

(* Types, and that no sequence is filled beyond its buffer.                *)
TypeOK ==
    /\ pc \in {"params", "allocate", "connect", "ready", "midi"}
    /\ next \in 0..(NumPorts - 1)
    /\ DOMAIN control \subseteq Lv2Ports /\ DOMAIN lv2_to_aap = DOMAIN control
    /\ Prepared => DOMAIN control = Lv2Ports
    /\ control_ports \cup allocated \cup MidiInputs \subseteq Lv2Ports
    /\ patch_in \in allocated \cup {-1}
    /\ MidiTypeOK

(* The events of a sequence are in the order of time, which never goes     *)
(* backwards, and inside what the plugin is run for, whatever stamps the   *)
(* host sends, as long as it does not ask for more frames than its buffer  *)
(* has.                                                                    *)
EventsInTime ==
    frame_count \in 1..NumFrames =>
        \A p \in DOMAIN events : \A k \in 1..Len(events[p]) :
            /\ events[p][k].time < RunFrames
            /\ k > 1 => events[p][k].time >= events[p][k - 1].time

(* Each sequence holds the events of its UMP group and of no other, all of *)
(* them, whole, up to the one that had no room, in the order in which the  *)
(* host sent them, at the times that the stamps in front of them in this   *)
(* call add up to; behind them is nothing, or what that one has left in    *)
(* the sequence of its own group.                                          *)
Handled == IF overflow THEN Len(sent) - 1 ELSE Len(sent)
Stamp(msgs) ==
    LET stamp[n \in Nat] ==
            IF n = 0 THEN 0
            ELSE stamp[n - 1] + (IF msgs[n].type = "jr" THEN msgs[n].ticks ELSE 0)
    IN  stamp
EventsOf(group) == {n \in 1..Handled : sent[n].type = "midi" /\ sent[n].group = group}
SentEvent(n, whole) == [msg |-> sent[n], time |-> FrameTime(Stamp(sent)[n]), whole |-> whole]
EventsAsSent ==
    \A group \in 0..(Len(midi_ins) - 1) :
        LET p == midi_ins[group + 1]
            its == EventsOf(group)
            count == Cardinality(its)
        IN  p \in DOMAIN events =>
                /\ \A n \in its : events[p][Cardinality({k \in its : k <= n})] = SentEvent(n, TRUE)
                /\ \/ Len(events[p]) = count
                   \/ /\ overflow /\ sent[Len(sent)].group = group
                      /\ Len(events[p]) = count + 1
                      /\ events[p][count + 1] = SentEvent(Len(sent), FALSE)

(* A control port holds the last value the host has named for the          *)
(* parameter of its index, or its default, and the patch input is left     *)
(* alone, whichever control ports are named in whatever order.  An id that *)
(* has none is taken for port 0, or for a patch message where there is a   *)
(* patch input: it disturbs no other control port.                         *)
OnlyNamedPort ==
    LET known == \A id \in DOMAIN named : HasControlPort(id)
    IN  Prepared =>
            /\ \A p \in Lv2Ports : p # 0 \/ patch_in >= 0 \/ known =>
                  control[p] = IF p \in DOMAIN named /\ HasControlPort(p) THEN named[p]
                               ELSE DefaultOf(p)
            /\ known /\ cycles > 0 /\ patch_in >= 0 => patch_size = BufferSize(patch_in) - 1
-----------------------------------------------------------------------------
(* What the messages so far have done, for the proofs.                     *)
TimeInv ==
    /\ frame_count \in Nat /\ jr \in Nat
    /\ \A p \in DOMAIN events :
          /\ events[p] \in Seq([msg : Messages, time : Nat, whole : BOOLEAN])
          /\ \A k \in 1..Len(events[p]) :
                /\ events[p][k].time <= FrameTime(jr)
                /\ k > 1 => events[p][k].time >= events[p][k - 1].time

SentInv ==
    /\ sent \in Seq(Messages)
    /\ ~Prepared => sent = << >>
    /\ \A g, h \in 1..Len(midi_ins) : midi_ins[g] = midi_ins[h] => g = h
    /\ jr = Stamp(sent)[Len(sent)]
    /\ IF sent = << >> THEN prev_group = -1
       ELSE prev_group = sent[Len(sent)].group /\ atom_in = GroupPort(prev_group)
    /\ overflow => sent # << >>
    /\ EventsAsSent

NamedInv ==
    /\ OnlyNamedPort
    /\ ~Prepared => named = << >> /\ cycles = 0

TypeInv ==
    /\ MidiTypeOK
    /\ ~Prepared => atom_in = -1 /\ DOMAIN used = {}
=============================================================================
