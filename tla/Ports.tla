-------------------------------- MODULE Ports --------------------------------
(***************************************************************************)
(* What an instance makes of the ports of its LV2 plugin: the parameters   *)
(* and enumerations it offers the host (buildParameterList, when it is     *)
(* created), the maps between LV2 ports and the ports of the AAP metadata, *)
(* and the memory each LV2 port is connected to (allocatePortBuffers and   *)
(* clearBufferForRun, in prepare).  A step is one port of one of the       *)
(* loops.                                                                  *)
(*                                                                         *)
(* A port is [kind, dir, event, rsz, points, toggled]; sizes are in units  *)
(* of 8 bytes, rsz = 0 is a port without rsz:minimumSize, and none asks    *)
(* for less than the head of a sequence.                                   *)
(***************************************************************************)
EXTENDS Integers, Sequences, FiniteSets

CONSTANTS Plugins,     \* the plugins: sequences of ports
          NumFrames,   \* num_frames of the host's buffers
          Default      \* the default value of a control input

PortRecord ==
    [kind : {"audio", "cv", "control", "atom"}, dir : {"in", "out"},
     event : {"midi", "patch", "none"}, rsz : Nat, points : Seq(Int), toggled : BOOLEAN]

ASSUME PortsAssumption ==
    /\ \A plugin \in Plugins : plugin \in Seq(PortRecord) /\ Len(plugin) > 0
    /\ \A plugin \in Plugins : \A k \in 1..Len(plugin) : plugin[k].rsz # 1
    /\ NumFrames \in Nat \ {0} /\ Default \in Int

VARIABLES
    ports,         \* the plugin's ports
    aap_ports,     \* the ports of its metadata
    pc,            \* "params", "allocate", "connect", "ready" or "midi"
    next,          \* the port the loop is at, from 0 on
    aapParams, aapParamIdToEnumIndex, aapEnums,
    lv2_to_aap, aap_to_lv2,     \* the maps of audio ports
    current_aap,                \* currentAAPPortIndex
    control_ports,              \* DOMAIN of lv2_index_to_port, see ControlPort
    midi_ins, midi_outs,        \* the MIDI Atom ports, by UMP group
    allocated,                  \* DOMAIN of explicitly_allocated_port_buffers
    patch_in,
    control,                    \* control_buffer_pointers
    connected                   \* the memory each port is connected to

parameterVars == <<aapParams, aapParamIdToEnumIndex, aapEnums>>
audioVars == <<lv2_to_aap, aap_to_lv2, current_aap>>
atomVars == <<midi_ins, midi_outs, allocated, patch_in>>
portVars == <<ports, aap_ports, pc, next, parameterVars, audioVars, control_ports, atomVars,
              control, connected>>

NumPorts == Len(ports)
Lv2Ports == 0..(NumPorts - 1)
Port(p) == ports[p + 1]
IsAudio(port) == port.kind = "audio"

(* The importer writes the audio ports in the order of the LV2 plugin, and *)
(* a MIDI2 port each way behind them; metadata written by hand may have    *)
(* them in front.                                                          *)
AudioBefore(plugin, p) == Cardinality({q \in 0..(p - 1) : IsAudio(plugin[q + 1])})
Audio(plugin) ==
    LET Nth(n) == CHOOSE p \in 0..(Len(plugin) - 1) :
                      IsAudio(plugin[p + 1]) /\ AudioBefore(plugin, p) = n - 1
    IN  [n \in 1..AudioBefore(plugin, Len(plugin)) |->
            [content |-> "audio", dir |-> plugin[Nth(n) + 1].dir]]
Midi == <<[content |-> "midi2", dir |-> "in"], [content |-> "midi2", dir |-> "out"]>>
Metadata(plugin) == {Audio(plugin) \o Midi, Midi \o Audio(plugin)}

InitPorts ==
    /\ ports \in Plugins
    /\ aap_ports \in Metadata(ports)
    /\ pc = "params" /\ next = 0
    /\ aapParams = << >> /\ aapParamIdToEnumIndex = << >> /\ aapEnums = << >>
    /\ lv2_to_aap = << >> /\ aap_to_lv2 = << >> /\ current_aap = 0
    /\ control_ports = {}
    /\ midi_ins = << >> /\ midi_outs = << >> /\ allocated = {} /\ patch_in = -1
    /\ control = << >> /\ connected = << >>

\* f[x] = y of a std::map
Put(f, x, y) == [z \in DOMAIN f \cup {x} |-> IF z = x THEN y ELSE f[z]]

\* The loop over the ports goes on, or ends and the next thing begins.
NextPort(then) ==
    \/ next + 1 < NumPorts /\ next' = next + 1 /\ UNCHANGED pc
    \/ next + 1 = NumPorts /\ next' = 0 /\ pc' = then
-----------------------------------------------------------------------------
(* buildParameterList(): each control port is a parameter, and its scale   *)
(* points, or the two values of a toggle without any, are the enumeration. *)

Enumeration(port) ==
    IF port.points # << >> THEN port.points
    ELSE IF port.toggled THEN <<1, 0>> ELSE << >>

(* Faulty: the enumeration is looked up by the parameter's number.         *)
RegisterByNumber ==
    /\ pc = "params"
    /\ LET e == Enumeration(Port(next)) IN
          \/ /\ Port(next).kind = "control"
             /\ aapParams' = Append(aapParams, next)
             /\ aapEnums' = aapEnums \o e
             /\ aapParamIdToEnumIndex' =
                   IF e # << >> THEN Put(aapParamIdToEnumIndex, next, Len(aapParams))
                   ELSE aapParamIdToEnumIndex
          \/ Port(next).kind # "control" /\ UNCHANGED parameterVars
    /\ NextPort("allocate")
    /\ UNCHANGED <<ports, aap_ports, audioVars, control_ports, atomVars, control, connected>>

RegisterPort ==
    /\ pc = "params"
    /\ LET e == Enumeration(Port(next)) IN
          \/ /\ Port(next).kind = "control"
             /\ aapParams' = Append(aapParams, next)
             /\ aapEnums' = aapEnums \o e
             /\ aapParamIdToEnumIndex' =
                   IF e # << >> THEN Put(aapParamIdToEnumIndex, next, Len(aapEnums))
                   ELSE aapParamIdToEnumIndex
          \/ Port(next).kind # "control" /\ UNCHANGED parameterVars
    /\ NextPort("allocate")
    /\ UNCHANGED <<ports, aap_ports, audioVars, control_ports, atomVars, control, connected>>

getAAPEnumerationCount(id) == Len(Port(id).points)

\* An id that is not in the map would be put there with index 0.
getAAPEnumeration(id, k) ==
    aapEnums[(IF id \in DOMAIN aapParamIdToEnumIndex THEN aapParamIdToEnumIndex[id] ELSE 0) + k + 1]
-----------------------------------------------------------------------------
(* allocatePortBuffers(), by the kind of the port.                         *)

AllocateAs(kindVars) ==
    /\ pc = "allocate"
    /\ control' = Put(control, next, IF Port(next).kind = "control" /\ Port(next).dir = "in"
                                     THEN Default ELSE 0)
    /\ NextPort("connect")
    /\ UNCHANGED <<ports, aap_ports, parameterVars, connected, kindVars>>

\* lv2_to_aap_portmap[i] = -1
NoAapPort == lv2_to_aap' = Put(lv2_to_aap, next, -1) /\ UNCHANGED <<aap_to_lv2, current_aap>>

AllocateAtom ==
    /\ AllocateAs(control_ports)
    /\ Port(next).kind = "atom"
    /\ NoAapPort
    /\ \/ /\ Port(next).event = "midi"
          /\ \/ Port(next).dir = "in" /\ midi_ins' = Append(midi_ins, next) /\ UNCHANGED midi_outs
             \/ Port(next).dir = "out" /\ midi_outs' = Append(midi_outs, next) /\ UNCHANGED midi_ins
          /\ UNCHANGED <<allocated, patch_in>>
       \/ /\ Port(next).event # "midi"
          /\ allocated' = allocated \cup {next}
          /\ patch_in' = IF Port(next).event = "patch" /\ Port(next).dir = "in" THEN next
                         ELSE patch_in
          /\ UNCHANGED <<midi_ins, midi_outs>>

\* rsz:minimumSize is more than the host's frames of 4 bytes.
Oversized(port) == port.kind # "atom" /\ 2 * port.rsz > NumFrames

AllocateOversized ==
    /\ AllocateAs(<<control_ports, midi_ins, midi_outs, patch_in>>)
    /\ Oversized(Port(next))
    /\ NoAapPort
    /\ allocated' = allocated \cup {next}

(* lv2_index_to_port[i] = i: an LV2 port is found under its own index.     *)
ControlPort(id) == IF id \in control_ports THEN id ELSE 0

(* Faulty: parameters are numbered from 0 on.                              *)
AllocateControlByNumber ==
    /\ AllocateAs(atomVars)
    /\ Port(next).kind = "control" /\ ~Oversized(Port(next))
    /\ NoAapPort
    /\ control_ports' = control_ports \cup {Cardinality(control_ports)}

AllocateControl ==
    /\ AllocateAs(atomVars)
    /\ Port(next).kind = "control" /\ ~Oversized(Port(next))
    /\ NoAapPort
    /\ control_ports' = control_ports \cup {next}

(* An audio, CV or other port takes the next audio port of the metadata;   *)
(* the ports in front of that are skipped, one in each step.               *)
TakesAapPort == pc = "allocate" /\ Port(next).kind \in {"audio", "cv"} /\ ~Oversized(Port(next))
AtOtherPort == current_aap < Len(aap_ports) /\ aap_ports[current_aap + 1].content # "audio"

SkipAapPort ==
    /\ TakesAapPort /\ AtOtherPort
    /\ current_aap' = current_aap + 1
    /\ UNCHANGED <<ports, aap_ports, pc, next, parameterVars, lv2_to_aap, aap_to_lv2,
                   control_ports, atomVars, control, connected>>

(* Faulty: the index is not moved on.                                      *)
AllocateAudioAgain ==
    /\ TakesAapPort /\ ~AtOtherPort
    /\ lv2_to_aap' = Put(lv2_to_aap, next, current_aap)
    /\ aap_to_lv2' = Put(aap_to_lv2, current_aap, next)
    /\ UNCHANGED current_aap
    /\ AllocateAs(<<control_ports, atomVars>>)

(* Faulty: the metadata are taken to begin with the audio ports.           *)
AllocateAudioInOrder ==
    /\ TakesAapPort
    /\ lv2_to_aap' = Put(lv2_to_aap, next, current_aap)
    /\ aap_to_lv2' = Put(aap_to_lv2, current_aap, next)
    /\ current_aap' = current_aap + 1
    /\ AllocateAs(<<control_ports, atomVars>>)

AllocateAudio ==
    /\ TakesAapPort /\ ~AtOtherPort
    /\ lv2_to_aap' = Put(lv2_to_aap, next, current_aap)
    /\ aap_to_lv2' = Put(aap_to_lv2, current_aap, next)
    /\ current_aap' = current_aap + 1
    /\ AllocateAs(<<control_ports, atomVars>>)

(* clearBufferForRun(): where each port points.                            *)
InSeq(p, s) == \E k \in 1..Len(s) : s[k] = p
Memory(p) ==
    IF p \in allocated THEN <<"own", p>>
    ELSE IF InSeq(p, midi_ins) \/ InSeq(p, midi_outs) THEN <<"sequence", p>>
    ELSE IF Port(p).kind = "control" THEN <<"control", p>>
    ELSE <<"host", lv2_to_aap[p]>>

ConnectPorts ==
    /\ pc = "connect"
    /\ connected' = [p \in Lv2Ports |-> Memory(p)]
    /\ pc' = "ready"
    /\ UNCHANGED <<ports, aap_ports, next, parameterVars, audioVars, control_ports, atomVars, control>>

PrepareStep ==
    \/ RegisterPort
    \/ AllocateAtom \/ AllocateOversized \/ AllocateControl \/ SkipAapPort
    \/ AllocateAudio
    \/ ConnectPorts
-----------------------------------------------------------------------------
(* Plugins whose ports the metadata describe: no CV ports, and no audio    *)
(* port that asks for a larger buffer than the host's.                     *)
Described == \A p \in Lv2Ports : Port(p).kind # "cv" /\ (IsAudio(Port(p)) => ~Oversized(Port(p)))

Prepared == pc \in {"ready", "midi"}

(* An audio port reads and writes the host's channel that the metadata     *)
(* promise: the one as many audio ports into them, and the same way.       *)
AudioFollowsMetadata ==
    Prepared /\ Described =>
        \A p \in Lv2Ports : IsAudio(Port(p)) =>
            LET a == lv2_to_aap[p]
            IN  /\ a \in 0..(Len(aap_ports) - 1)
                /\ aap_to_lv2[a] = p
                /\ aap_ports[a + 1] = [content |-> "audio", dir |-> Port(p).dir]
                /\ Cardinality({b \in 0..(a - 1) : aap_ports[b + 1].content = "audio"})
                      = Cardinality({q \in 0..(p - 1) : IsAudio(Port(q))})

(* No two ports are connected to the same memory, whatever the plugin and  *)
(* its metadata are.                                                       *)
PortsDoNotShare ==
    Prepared => \A p, q \in Lv2Ports : connected[p] = connected[q] => p = q

(* The entries of a parameter's enumeration that the host may ask for, by  *)
(* the count it is given, are the scale points of that parameter.          *)
EnumerationsAreOwn ==
    pc # "params" =>
        \A id \in Lv2Ports : \A k \in 0..(getAAPEnumerationCount(id) - 1) :
            Port(id).kind = "control" => getAAPEnumeration(id, k) = Port(id).points[k + 1]
-----------------------------------------------------------------------------
(* What the loops have done so far, for the proofs.                        *)

\* A control port that lv2_index_to_port is given; an oversized one is not.
HasControlPort(id) == id \in Lv2Ports /\ Port(id).kind = "control" /\ ~Oversized(Port(id))
DefaultOf(p) == IF Port(p).kind = "control" /\ Port(p).dir = "in" THEN Default ELSE 0

Registered == IF pc = "params" THEN 0..(next - 1) ELSE Lv2Ports
Allocated == IF pc = "params" THEN {} ELSE IF pc = "allocate" THEN 0..(next - 1) ELSE Lv2Ports

AudioInv ==
    /\ DOMAIN lv2_to_aap = Allocated
    /\ current_aap \in Nat
    /\ \A p \in Allocated : lv2_to_aap[p] \in -1..(current_aap - 1)
    /\ \A p, q \in Allocated : lv2_to_aap[p] = lv2_to_aap[q] /\ lv2_to_aap[p] # -1 => p = q
    /\ \A p \in Allocated : lv2_to_aap[p] = -1 =>
          p \in allocated \/ InSeq(p, midi_ins) \/ InSeq(p, midi_outs) \/ Port(p).kind = "control"

(* Where the audio ports of the metadata begin, and how far they have been *)
(* given to those of the plugin.                                           *)
FirstAudio == IF aap_ports = Audio(ports) \o Midi THEN 0 ELSE 2

AudioMapInv ==
    /\ aap_ports \in Metadata(ports)
    /\ pc = "params" => current_aap = 0
    /\ Described /\ pc = "allocate" =>
          \/ current_aap = FirstAudio + AudioBefore(ports, next)
          \/ AudioBefore(ports, next) = 0 /\ current_aap \in 0..FirstAudio
    /\ Described =>
          \A p \in Allocated : IsAudio(Port(p)) =>
              LET a == FirstAudio + AudioBefore(ports, p)
              IN  lv2_to_aap[p] = a /\ a \in DOMAIN aap_to_lv2 /\ aap_to_lv2[a] = p

ControlInv ==
    /\ aapParams \in Seq(Nat)
    /\ \A p \in Registered : Port(p).kind = "control" => InSeq(p, aapParams)
    /\ control_ports = {p \in Allocated : HasControlPort(p)}
    /\ DOMAIN control = Allocated
    /\ ~Prepared => \A p \in Allocated : control[p] = DefaultOf(p)

PortInv ==
    /\ ports \in Plugins
    /\ pc \in {"params", "allocate", "connect", "ready", "midi"}
    /\ next \in Lv2Ports
    /\ pc \in {"connect", "ready", "midi"} => next = 0
    /\ midi_ins \in Seq(Allocated) /\ midi_outs \in Seq(Allocated)
    /\ allocated \subseteq Allocated /\ patch_in \in allocated \cup {-1}
    /\ AudioInv
    /\ ControlInv
    /\ Prepared => connected = [p \in Lv2Ports |-> Memory(p)]

EnumInv ==
    /\ aapEnums \in Seq(Int)
    /\ \A id \in Registered : Port(id).kind = "control" /\ Port(id).points # << >> =>
          /\ id \in DOMAIN aapParamIdToEnumIndex /\ aapParamIdToEnumIndex[id] \in Nat
          /\ \A k \in 1..Len(Port(id).points) :
                /\ aapParamIdToEnumIndex[id] + k \in 1..Len(aapEnums)
                /\ aapEnums[aapParamIdToEnumIndex[id] + k] = Port(id).points[k]
=============================================================================
