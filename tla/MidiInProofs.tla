---------------------------- MODULE MidiInProofs ----------------------------
(***************************************************************************)
(* Proofs about the ports of an instance and the messages it is given, for *)
(* every plugin, metadata, message and frame count.  The inductive         *)
(* invariants are PortInv, of the loops over the ports, with EnumInv and   *)
(* AudioMapInv of what they make of the enumerations and the metadata, and *)
(* TimeInv, NamedInv, TypeInv and SentInv, of the messages.                *)
(***************************************************************************)
EXTENDS MidiIn, SequenceTheorems, DataLemmas, TLAPS

LEMMA PortTypes ==
    ASSUME ports \in Plugins
    PROVE  /\ NumPorts \in Nat \ {0}
           /\ Lv2Ports \subseteq Nat
           /\ \A p \in Lv2Ports : Port(p) \in PortRecord
<1>1. ports \in Seq(PortRecord) /\ Len(ports) > 0
  BY PortsAssumption
<1> DEFINE n == Len(ports)
<1>2. n \in Nat \ {0}
  BY <1>1
<1>3. \A k \in 1..n : ports[k] \in PortRecord
  BY <1>1
<1>4. ASSUME NEW p \in 0..(n - 1) PROVE Port(p) \in PortRecord
  <2>1. p + 1 \in 1..n
    BY <1>2
  <2>2. QED
    BY <2>1, <1>3 DEF Port
<1>5. QED
  BY <1>2, <1>4 DEF NumPorts, Lv2Ports

LEMMA AppendHas ==
    ASSUME NEW S, NEW s \in Seq(S), NEW e \in S, NEW p
    PROVE  InSeq(p, Append(s, e)) <=> InSeq(p, s) \/ p = e
<1>1. Len(Append(s, e)) = Len(s) + 1 /\ Len(s) \in Nat
  OBVIOUS
<1>2. \A k \in 1..Len(s) : Append(s, e)[k] = s[k]
  OBVIOUS
<1>3. Append(s, e)[Len(s) + 1] = e
  OBVIOUS
<1>4. \A k \in 1..(Len(s) + 1) : k \in 1..Len(s) \/ k = Len(s) + 1
  BY <1>1
<1>5. QED
  BY <1>1, <1>2, <1>3, <1>4 DEF InSeq

LEMMA SeqOfMore ==
    ASSUME NEW S, NEW T, S \subseteq T, NEW s \in Seq(S)
    PROVE  s \in Seq(T)
OBVIOUS

LEMMA AppendIn ==
    ASSUME NEW S, NEW s \in Seq(S), NEW e \in S
    PROVE  Append(s, e) \in Seq(S)
OBVIOUS

(* The loops: one more port is done.                                       *)
LEMMA RegisteredGrows ==
    ASSUME PortInv, pc = "params", NextPort("allocate"), ports' = ports
    PROVE  /\ Registered' = Registered \cup {next}
           /\ Allocated = {} /\ Allocated' = {}
           /\ next' \in Lv2Ports /\ pc' \in {"params", "allocate"}
<1> DEFINE n == NumPorts
<1>1. n \in Nat \ {0} /\ next \in 0..(n - 1) /\ NumPorts' = n
  BY PortTypes DEF PortInv, Lv2Ports, NumPorts
<1>2. CASE next + 1 < n /\ next' = next + 1 /\ pc' = pc
  BY <1>1, <1>2 DEF Registered, Allocated, Lv2Ports
<1>3. CASE next + 1 = n /\ next' = 0 /\ pc' = "allocate"
  BY <1>1, <1>3 DEF Registered, Allocated, Lv2Ports
<1>4. QED
  BY <1>2, <1>3 DEF NextPort

LEMMA AllocatedGrows ==
    ASSUME PortInv, pc = "allocate", NextPort("connect"), ports' = ports
    PROVE  /\ Allocated' = Allocated \cup {next} /\ next \notin Allocated
           /\ Allocated \subseteq Lv2Ports
           /\ Registered = Lv2Ports /\ Registered' = Lv2Ports
           /\ next' \in Lv2Ports /\ pc' \in {"allocate", "connect"}
           /\ pc' = "connect" => next' = 0
<1> DEFINE n == NumPorts
<1>1. n \in Nat \ {0} /\ next \in 0..(n - 1) /\ NumPorts' = n
  BY PortTypes DEF PortInv, Lv2Ports, NumPorts
<1>2. CASE next + 1 < n /\ next' = next + 1 /\ pc' = pc
  BY <1>1, <1>2 DEF Registered, Allocated, Lv2Ports
<1>3. CASE next + 1 = n /\ next' = 0 /\ pc' = "connect"
  BY <1>1, <1>3 DEF Registered, Allocated, Lv2Ports
<1>4. QED
  BY <1>2, <1>3 DEF NextPort

(* The steps of prepare.                                                   *)
LEMMA InitPortInv == InitPorts => PortInv
<1> SUFFICES ASSUME InitPorts PROVE PortInv
  OBVIOUS
<1>1. NumPorts \in Nat \ {0}
  BY PortTypes DEF InitPorts
<1>2. Registered = {} /\ Allocated = {} /\ 0 \in Lv2Ports
  BY <1>1 DEF InitPorts, Registered, Allocated, Lv2Ports
<1>3. AudioInv
  BY <1>2 DEF InitPorts, AudioInv
<1>4. ControlInv
  BY <1>2 DEF InitPorts, ControlInv
<1>5. QED
  BY <1>2, <1>3, <1>4 DEF InitPorts, PortInv, Prepared

LEMMA RegisterKeeps ==
    ASSUME PortInv, RegisterPort
    PROVE  PortInv'
<1>1. /\ Registered' = Registered \cup {next}
      /\ Allocated = {} /\ Allocated' = {}
      /\ next' \in Lv2Ports /\ pc' \in {"params", "allocate"}
  BY RegisteredGrows DEF RegisterPort
<1>2. AudioInv'
  BY <1>1 DEF PortInv, AudioInv, RegisterPort, audioVars
<1>3. next \in Nat /\ aapParams \in Seq(Nat)
  BY PortTypes DEF PortInv, ControlInv
<1>4. /\ aapParams' \in Seq(Nat)
      /\ \A p \in Registered' : Port(p).kind = "control" => InSeq(p, aapParams')
  <2>1. CASE Port(next).kind = "control" /\ aapParams' = Append(aapParams, next)
    <3>1. \A p : InSeq(p, aapParams') <=> InSeq(p, aapParams) \/ p = next
      BY <2>1, <1>3, AppendHas
    <3>2. QED
      BY <2>1, <1>1, <1>3, <3>1 DEF PortInv, ControlInv
  <2>2. CASE Port(next).kind # "control" /\ aapParams' = aapParams
    BY <2>2, <1>1 DEF PortInv, ControlInv
  <2>3. QED
    BY <2>1, <2>2 DEF RegisterPort, parameterVars
<1>5. ControlInv'
  <2>1. (\A p \in Registered : Port(p).kind = "control" => InSeq(p, aapParams))'
    BY <1>4 DEF RegisterPort, Port, InSeq
  <2>2. control_ports' = {} /\ DOMAIN control' = {}
    BY <1>1 DEF PortInv, ControlInv, RegisterPort
  <2>3. QED
    BY <1>1, <1>4, <2>1, <2>2 DEF ControlInv
<1>6. pc' \notin {"connect", "ready", "midi"} /\ ~Prepared'
  BY <1>1 DEF Prepared
<1>7. Lv2Ports' = Lv2Ports
  BY DEF RegisterPort, Lv2Ports, NumPorts
<1>8. QED
  BY <1>1, <1>2, <1>5, <1>6, <1>7 DEF PortInv, RegisterPort, atomVars

LEMMA AllocatedAreNat ==
    ASSUME PortInv
    PROVE  Allocated \subseteq Lv2Ports /\ Lv2Ports \subseteq Nat
<1>1. NumPorts \in Nat /\ next \in 0..(NumPorts - 1)
  BY PortTypes DEF PortInv, Lv2Ports
<1>2. QED
  BY <1>1 DEF Allocated, Lv2Ports

(* What the steps of allocatePortBuffers have in common.                   *)
LEMMA AllocateKeepsControl ==
    ASSUME PortInv, pc = "allocate", NextPort("connect"),
           ports' = ports, aapParams' = aapParams,
           control' = Put(control, next, DefaultOf(next)),
           control_ports' = IF HasControlPort(next) THEN control_ports \cup {next} ELSE control_ports
    PROVE  ControlInv'
<1>1. /\ Allocated' = Allocated \cup {next} /\ next \notin Allocated
      /\ Allocated \subseteq Lv2Ports
      /\ Registered = Lv2Ports /\ Registered' = Lv2Ports
  BY AllocatedGrows
<1>2. \A p : /\ HasControlPort(p)' <=> HasControlPort(p)
             /\ DefaultOf(p)' = DefaultOf(p)
             /\ Port(p)' = Port(p) /\ InSeq(p, aapParams)' = InSeq(p, aapParams)
  BY DEF HasControlPort, DefaultOf, Port, InSeq, Lv2Ports, NumPorts, Oversized
<1>3. (\A p \in Registered : Port(p).kind = "control" => InSeq(p, aapParams))'
  BY <1>1, <1>2 DEF PortInv, ControlInv
<1>4. (control_ports = {p \in Allocated : HasControlPort(p)})'
  BY <1>1, <1>2 DEF PortInv, ControlInv
<1>5. DOMAIN control' = Allocated'
  BY <1>1 DEF PortInv, ControlInv, Put
<1>6. ~Prepared
  BY DEF Prepared
<1>7. \A p \in Allocated' : control'[p] = DefaultOf(p)
  BY <1>1, <1>6 DEF PortInv, ControlInv, Put
<1>8. QED
  BY <1>1, <1>2, <1>3, <1>4, <1>5, <1>7 DEF PortInv, ControlInv

LEMMA AllocateKeepsAudio ==
    ASSUME PortInv, pc = "allocate", NextPort("connect"), ports' = ports,
           allocated \subseteq allocated',
           \A p : InSeq(p, midi_ins) => InSeq(p, midi_ins)',
           \A p : InSeq(p, midi_outs) => InSeq(p, midi_outs)',
           \/ /\ lv2_to_aap' = Put(lv2_to_aap, next, -1) /\ current_aap' = current_aap
              /\ \/ next \in allocated' \/ InSeq(next, midi_ins') \/ InSeq(next, midi_outs')
                 \/ Port(next).kind = "control"
           \/ lv2_to_aap' = Put(lv2_to_aap, next, current_aap) /\ current_aap' = current_aap + 1
    PROVE  AudioInv'
<1>1. Allocated' = Allocated \cup {next} /\ next \notin Allocated
  BY AllocatedGrows
<1>2. \A p : /\ Port(p)' = Port(p)
             /\ p \in allocated \/ InSeq(p, midi_ins) \/ InSeq(p, midi_outs) =>
                   p \in allocated' \/ InSeq(p, midi_ins') \/ InSeq(p, midi_outs')
  BY DEF Port, InSeq
<1>3. DOMAIN lv2_to_aap = Allocated /\ current_aap \in Nat
  BY DEF PortInv, AudioInv
<1>4. DOMAIN lv2_to_aap' = Allocated' /\ current_aap' \in Nat /\ current_aap <= current_aap'
  BY <1>1, <1>3 DEF Put
<1>5. \A p \in Allocated : lv2_to_aap'[p] = lv2_to_aap[p]
  BY <1>1, <1>3 DEF Put
<1>6. \/ lv2_to_aap'[next] = -1
      \/ lv2_to_aap'[next] = current_aap /\ current_aap' = current_aap + 1
  BY <1>3 DEF Put
<1>7. \A p \in Allocated' : lv2_to_aap'[p] \in -1..(current_aap' - 1)
  BY <1>1, <1>3, <1>4, <1>5, <1>6 DEF PortInv, AudioInv
<1>8. \A p, q \in Allocated' : lv2_to_aap'[p] = lv2_to_aap'[q] /\ lv2_to_aap'[p] # -1 => p = q
  <2>1. \A p \in Allocated : lv2_to_aap'[p] < current_aap
    BY <1>3, <1>5 DEF PortInv, AudioInv
  <2>2. \A p, q \in Allocated : lv2_to_aap'[p] = lv2_to_aap'[q] /\ lv2_to_aap'[p] # -1 => p = q
    BY <1>5 DEF PortInv, AudioInv
  <2>3. QED
    BY <1>1, <1>3, <1>6, <2>1, <2>2
<1>9. \A p \in Allocated' : lv2_to_aap'[p] = -1 =>
          p \in allocated' \/ InSeq(p, midi_ins') \/ InSeq(p, midi_outs') \/ Port(p).kind = "control"
  <2>1. ASSUME NEW p \in Allocated, lv2_to_aap'[p] = -1
        PROVE  p \in allocated' \/ InSeq(p, midi_ins') \/ InSeq(p, midi_outs')
                   \/ Port(p).kind = "control"
    <3>1. p \in allocated \/ InSeq(p, midi_ins) \/ InSeq(p, midi_outs) \/ Port(p).kind = "control"
      BY <1>5, <2>1 DEF PortInv, AudioInv
    <3>2. QED
      BY <3>1, <1>2
  <2>2. ASSUME lv2_to_aap'[next] = -1
        PROVE  next \in allocated' \/ InSeq(next, midi_ins') \/ InSeq(next, midi_outs')
                   \/ Port(next).kind = "control"
    BY <1>3, <2>2 DEF Put
  <2>3. QED
    BY <1>1, <2>1, <2>2
<1>10. (\A p \in Allocated : lv2_to_aap[p] = -1 =>
          p \in allocated \/ InSeq(p, midi_ins) \/ InSeq(p, midi_outs) \/ Port(p).kind = "control")'
  BY <1>2, <1>9 DEF InSeq
<1>11. QED
  BY <1>4, <1>7, <1>8, <1>10 DEF AudioInv

(* Everything but AudioInv and ControlInv.                                 *)
LEMMA AllocateKeepsRest ==
    ASSUME PortInv, pc = "allocate", NextPort("connect"), ports' = ports,
           AudioInv', ControlInv',
           midi_ins' = midi_ins \/ midi_ins' = Append(midi_ins, next),
           midi_outs' = midi_outs \/ midi_outs' = Append(midi_outs, next),
           allocated' = allocated \/ allocated' = allocated \cup {next},
           patch_in' = patch_in \/ (patch_in' = next /\ next \in allocated')
    PROVE  PortInv'
<1>1. /\ Allocated' = Allocated \cup {next}
      /\ next' \in Lv2Ports /\ pc' \in {"allocate", "connect"}
      /\ pc' = "connect" => next' = 0
  BY AllocatedGrows
<1>2. Lv2Ports' = Lv2Ports /\ ~Prepared'
  BY <1>1 DEF Lv2Ports, NumPorts, Prepared
<1>3. midi_ins' \in Seq(Allocated') /\ midi_outs' \in Seq(Allocated')
  <2>1. midi_ins \in Seq(Allocated') /\ midi_outs \in Seq(Allocated') /\ next \in Allocated'
    BY <1>1, SeqOfMore DEF PortInv
  <2>2. Append(midi_ins, next) \in Seq(Allocated') /\ Append(midi_outs, next) \in Seq(Allocated')
    BY <2>1, AppendIn
  <2>3. QED
    BY <2>1, <2>2
<1>4. allocated' \subseteq Allocated' /\ patch_in' \in allocated' \cup {-1}
  BY <1>1 DEF PortInv
<1>5. QED
  BY <1>1, <1>2, <1>3, <1>4 DEF PortInv

LEMMA AllocateKeeps ==
    ASSUME PortInv, AllocateAtom \/ AllocateOversized \/ AllocateControl \/ AllocateAudio
    PROVE  PortInv'
<1>1. /\ pc = "allocate" /\ NextPort("connect") /\ ports' = ports /\ aapParams' = aapParams
      /\ control' = Put(control, next, DefaultOf(next))
  BY DEF AllocateAtom, AllocateOversized, AllocateControl, AllocateAudio, AllocateAs, DefaultOf,
         parameterVars
<1>2. next \in Lv2Ports /\ Port(next) \in PortRecord
  BY PortTypes DEF PortInv
<1>3. \A p : /\ InSeq(p, midi_ins) => InSeq(p, Append(midi_ins, next))
             /\ InSeq(p, midi_outs) => InSeq(p, Append(midi_outs, next))
             /\ InSeq(next, Append(midi_ins, next)) /\ InSeq(next, Append(midi_outs, next))
  <2>1. midi_ins \in Seq(Nat) /\ midi_outs \in Seq(Nat) /\ next \in Nat
    <3>1. Allocated \subseteq Nat /\ next \in Nat
      BY <1>1, <1>2, AllocatedGrows, PortTypes DEF PortInv
    <3>2. QED
      BY <3>1, SeqOfMore DEF PortInv
  <2>2. QED
    BY <2>1, AppendHas
<1>4. /\ midi_ins' = midi_ins \/ midi_ins' = Append(midi_ins, next)
      /\ midi_outs' = midi_outs \/ midi_outs' = Append(midi_outs, next)
      /\ allocated' = allocated \/ allocated' = allocated \cup {next}
      /\ patch_in' = patch_in \/ (patch_in' = next /\ next \in allocated')
  BY DEF AllocateAtom, AllocateOversized, AllocateControl, AllocateAudio, AllocateAs, atomVars
<1>5. /\ allocated \subseteq allocated'
      /\ \A p : InSeq(p, midi_ins) => InSeq(p, midi_ins')
      /\ \A p : InSeq(p, midi_outs) => InSeq(p, midi_outs')
  BY <1>3, <1>4
<1>6. /\ control_ports' = IF HasControlPort(next) THEN control_ports \cup {next} ELSE control_ports
      /\ \/ /\ lv2_to_aap' = Put(lv2_to_aap, next, -1) /\ current_aap' = current_aap
            /\ \/ next \in allocated' \/ InSeq(next, midi_ins') \/ InSeq(next, midi_outs')
               \/ Port(next).kind = "control"
         \/ lv2_to_aap' = Put(lv2_to_aap, next, current_aap) /\ current_aap' = current_aap + 1
  <2>1. CASE AllocateAtom
    BY <2>1, <1>2, <1>3 DEF AllocateAtom, AllocateAs, NoAapPort, HasControlPort, PortRecord
  <2>2. CASE AllocateOversized
    BY <2>2 DEF AllocateOversized, AllocateAs, NoAapPort, HasControlPort
  <2>3. CASE AllocateControl
    BY <2>3, <1>2 DEF AllocateControl, NoAapPort, HasControlPort
  <2>4. CASE AllocateAudio
    BY <2>4 DEF AllocateAudio, AllocateAs, TakesAapPort, HasControlPort
  <2>5. QED
    BY <2>1, <2>2, <2>3, <2>4
<1>7. ControlInv'
  BY <1>1, <1>6, AllocateKeepsControl
<1>8. AudioInv'
  BY <1>1, <1>5, <1>6, AllocateKeepsAudio DEF InSeq
<1>9. QED
  BY <1>1, <1>4, <1>7, <1>8, AllocateKeepsRest

LEMMA PrepareStepKeeps ==
    ASSUME PortInv, PrepareStep
    PROVE  PortInv'
<1>1. CASE SkipAapPort
  <2>1. Allocated' = Allocated /\ Registered' = Registered /\ Lv2Ports' = Lv2Ports
    BY <1>1 DEF SkipAapPort, Allocated, Registered, Lv2Ports, NumPorts
  <2>2. AudioInv'
    <3>1. current_aap \in Nat /\ current_aap' = current_aap + 1
      BY <1>1 DEF PortInv, AudioInv, SkipAapPort
    <3>2. \A p \in Allocated : lv2_to_aap[p] \in -1..(current_aap' - 1)
      BY <3>1 DEF PortInv, AudioInv
    <3>3. QED
      BY <1>1, <2>1, <3>1, <3>2 DEF PortInv, AudioInv, SkipAapPort, atomVars, InSeq, Port
  <2>3. ControlInv'
    BY <1>1, <2>1 DEF PortInv, ControlInv, SkipAapPort, parameterVars, InSeq, Port, HasControlPort,
                      Oversized, DefaultOf, Prepared
  <2>4. QED
    BY <1>1, <2>1, <2>2, <2>3 DEF PortInv, SkipAapPort, TakesAapPort, atomVars, Prepared
<1>2. CASE ConnectPorts
  <2>1. /\ Allocated' = Allocated /\ Registered' = Registered /\ Lv2Ports' = Lv2Ports
        /\ \A p : Memory(p)' = Memory(p)
    BY <1>2 DEF ConnectPorts, Allocated, Registered, Lv2Ports, NumPorts, Memory, audioVars,
                atomVars, Port, InSeq
  <2>2. AudioInv'
    BY <1>2, <2>1 DEF PortInv, AudioInv, ConnectPorts, atomVars, audioVars, InSeq, Port
  <2>3. ControlInv'
    BY <1>2, <2>1 DEF PortInv, ControlInv, ConnectPorts, parameterVars, InSeq, Port, HasControlPort,
                      Oversized, Prepared
  <2>4. connected' = [p \in Lv2Ports |-> Memory(p)]'
    BY <1>2, <2>1 DEF ConnectPorts
  <2>5. QED
    BY <1>2, <2>1, <2>2, <2>3, <2>4 DEF PortInv, ConnectPorts, atomVars
<1>3. QED
  BY <1>1, <1>2, RegisterKeeps, AllocateKeeps DEF PrepareStep

(* The calls of process() leave the ports as prepare has made them, but    *)
(* for the values of the controls.                                         *)
LEMMA PlayKeeps ==
    ASSUME PortInv, Prepared, pc' \in {"ready", "midi"},
           UNCHANGED <<ports, aap_ports, next, parameterVars, audioVars, control_ports, atomVars,
                       connected>>,
           DOMAIN control' = DOMAIN control
    PROVE  PortInv'
<1>1. pc \in {"ready", "midi"} /\ Prepared'
  BY DEF Prepared
<1>2. /\ Allocated' = Allocated /\ Registered' = Registered /\ Lv2Ports' = Lv2Ports
      /\ \A p : Memory(p)' = Memory(p)
  BY <1>1 DEF Allocated, Registered, Lv2Ports, NumPorts, Memory, audioVars, atomVars, Port, InSeq
<1>3. AudioInv'
  BY <1>2 DEF PortInv, AudioInv, atomVars, audioVars, InSeq, Port
<1>4. ControlInv'
  BY <1>1, <1>2 DEF PortInv, ControlInv, parameterVars, InSeq, Port, HasControlPort, Oversized
<1>5. QED
  BY <1>1, <1>2, <1>3, <1>4 DEF PortInv, atomVars

LEMMA NextKeepsPorts ==
    ASSUME PortInv, [Next]_vars
    PROVE  PortInv'
<1>1. CASE Prepare
  BY <1>1, PrepareStepKeeps DEF Prepare
<1>2. ASSUME NEW frames \in FrameCounts, Process(frames) PROVE PortInv'
  BY <1>2, PlayKeeps DEF Process, Prepared
<1>3. ASSUME NEW m \in Messages, Message(m) PROVE PortInv'
  <2>1. ReadMessage(m) /\ control_ports' = control_ports /\ DOMAIN control' = DOMAIN control
    BY <1>3 DEF Message, JRTimestamp, Ignored, ParameterChange, NoSequence, Event, EventOverflow
  <2>2. QED
    BY <2>1, PlayKeeps DEF ReadMessage, Prepared
<1>4. CASE Run
  BY <1>4, PlayKeeps DEF Run, Prepared
<1>5. CASE UNCHANGED vars
  <2>1. /\ Allocated' = Allocated /\ Registered' = Registered /\ Lv2Ports' = Lv2Ports
        /\ \A p : Memory(p)' = Memory(p)
    BY <1>5 DEF vars, portVars, Allocated, Registered, Lv2Ports, NumPorts, Memory, audioVars,
                atomVars, Port, InSeq
  <2>2. AudioInv'
    BY <1>5, <2>1 DEF PortInv, AudioInv, vars, portVars, atomVars, audioVars, InSeq, Port
  <2>3. ControlInv'
    BY <1>5, <2>1 DEF PortInv, ControlInv, vars, portVars, parameterVars, InSeq, Port,
                      HasControlPort, Oversized, DefaultOf, Prepared
  <2>4. QED
    BY <1>5, <2>1, <2>2, <2>3 DEF PortInv, vars, portVars, atomVars, Prepared
<1>6. QED
  BY <1>1, <1>2, <1>3, <1>4, <1>5 DEF Next

(* What the loops of allocatePortBuffers() and buildParameterList() have   *)
(* made of the ports done so far: PortInv, the inductive invariant.        *)
THEOREM PortInvariant == Spec => []PortInv
<1>1. Init => PortInv
  BY InitPortInv DEF Init
<1>2. PortInv /\ [Next]_vars => PortInv'
  BY NextKeepsPorts
<1>3. QED
  BY <1>1, <1>2, PTL DEF Spec

LEMMA PortInvNotShared == PortInv => PortsDoNotShare
<1> SUFFICES ASSUME PortInv, Prepared, NEW p \in Lv2Ports, NEW q \in Lv2Ports,
                    connected[p] = connected[q]
             PROVE  p = q
  BY DEF PortsDoNotShare
<1>1. Allocated = Lv2Ports
  BY DEF Allocated, Prepared
<1>2. Memory(p) = Memory(q)
  BY DEF PortInv
<1>3. ASSUME NEW r \in Lv2Ports, Memory(r)[1] = "host"
      PROVE  Memory(r)[2] = lv2_to_aap[r] /\ lv2_to_aap[r] # -1
  BY <1>1, <1>3 DEF PortInv, AudioInv, Memory
<1>4. ASSUME NEW r \in Lv2Ports, Memory(r)[1] # "host"
      PROVE  Memory(r)[2] = r
  BY <1>4 DEF Memory
<1>5. CASE Memory(p)[1] = "host"
  <2>1. lv2_to_aap[p] = lv2_to_aap[q] /\ lv2_to_aap[p] # -1
    BY <1>2, <1>3, <1>5
  <2>2. QED
    BY <1>1, <2>1 DEF PortInv, AudioInv
<1>6. CASE Memory(p)[1] # "host"
  BY <1>2, <1>4, <1>6
<1>7. QED
  BY <1>5, <1>6

(* No two ports of a plugin are connected to the same memory, whatever the *)
(* order and number of its ports, their sizes, and what its metadata say.  *)
THEOREM NoSharedMemory == Spec => []PortsDoNotShare
<1>1. PortInv => PortsDoNotShare
  BY PortInvNotShared
<1>2. QED
  BY <1>1, PortInvariant, PTL

-----------------------------------------------------------------------------
(* The times of events.                                                    *)
LEMMA DivMonotone ==
    ASSUME NEW a \in Nat, NEW b \in Nat, NEW d \in Nat \ {0}, a <= b
    PROVE  a \div d <= b \div d /\ a \div d \in Nat /\ b \div d \in Nat
OBVIOUS

LEMMA TimesMonotone ==
    ASSUME NEW a \in Nat, NEW b \in Nat, NEW r \in Nat, a <= b
    PROVE  a * r <= b * r /\ a * r \in Nat /\ b * r \in Nat
OBVIOUS

LEMMA FrameTimeMonotone ==
    ASSUME NEW a \in Nat, NEW b \in Nat, a <= b, frame_count \in Nat
    PROVE  /\ FrameTime(a) \in Nat /\ FrameTime(b) \in Nat
           /\ FrameTime(a) <= FrameTime(b)
           /\ frame_count > 0 => FrameTime(a) < frame_count
<1> DEFINE s == (a * SampleRate) \div TicksPerSecond
           t == (b * SampleRate) \div TicksPerSecond
<1>1. s \in Nat /\ t \in Nat /\ s <= t
  BY MidiInAssumption, TimesMonotone, DivMonotone
<1>2. /\ FrameTime(a) = IF frame_count > 0 /\ s >= frame_count THEN frame_count - 1 ELSE s
      /\ FrameTime(b) = IF frame_count > 0 /\ t >= frame_count THEN frame_count - 1 ELSE t
  BY DEF FrameTime
<1> HIDE DEF s, t
<1>3. QED
  BY <1>1, <1>2

LEMMA TimeOfEvent ==
    ASSUME NEW S, NEW es \in Seq([msg : S, time : Nat, whole : BOOLEAN]), NEW k \in 1..Len(es)
    PROVE  es[k].time \in Nat
<1>1. es[k] \in [msg : S, time : Nat, whole : BOOLEAN]
  BY ElementOfSeq
<1>2. QED
  BY <1>1

LEMMA AppendInTime ==
    ASSUME NEW S, NEW es \in Seq([msg : S, time : Nat, whole : BOOLEAN]), NEW m \in S, NEW t \in Nat,
           NEW w \in BOOLEAN,
           \A k \in 1..Len(es) :
               es[k].time <= t /\ (k > 1 => es[k].time >= es[k - 1].time),
           NEW new, new = Append(es, [msg |-> m, time |-> t, whole |-> w])
    PROVE  /\ new \in Seq([msg : S, time : Nat, whole : BOOLEAN])
           /\ \A k \in 1..Len(new) :
                 new[k].time <= t /\ (k > 1 => new[k].time >= new[k - 1].time)
<1> DEFINE n == Len(es)
           e == [msg |-> m, time |-> t, whole |-> w]
<1>1. n \in Nat /\ Len(new) = n + 1
  OBVIOUS
<1>2. \A k \in 1..n : new[k] = es[k]
  OBVIOUS
<1>3. new[n + 1] = e /\ e.time = t
  OBVIOUS
<1>4. e \in [msg : S, time : Nat, whole : BOOLEAN]
  OBVIOUS
<1>5. new \in Seq([msg : S, time : Nat, whole : BOOLEAN])
  BY <1>4, AppendIn
<1>6. \A k \in 1..n : /\ es[k].time <= t /\ es[k].time \in Nat
                      /\ k > 1 => es[k].time >= es[k - 1].time
  BY TimeOfEvent
<1> HIDE DEF n, e
<1>7. ASSUME NEW k \in 1..(n + 1)
      PROVE  new[k].time <= t /\ (k > 1 => new[k].time >= new[k - 1].time)
  <2>1. CASE k \in 1..n
    <3>1. k > 1 => k - 1 \in 1..n
      BY <1>1, <2>1
    <3>2. QED
      BY <1>2, <1>6, <2>1, <3>1
  <2>2. CASE k = n + 1
    <3>1. k > 1 => k - 1 \in 1..n
      BY <1>1, <2>2
    <3>2. new[k].time = t
      BY <1>3, <2>2
    <3>3. k > 1 => new[k - 1].time <= t /\ new[k - 1].time \in Nat
      BY <1>2, <1>6, <3>1
    <3>4. t <= t
      OBVIOUS
    <3>5. k > 1 => t >= new[k - 1].time
      BY <3>3
    <3>6. QED
      BY <3>2, <3>4, <3>5
  <2>3. QED
    BY <1>1, <2>1, <2>2
<1>8. QED
  BY <1>1, <1>5, <1>7

LEMMA InitTimeInv == Init => TimeInv
  BY DEF Init, TimeInv

LEMMA NextKeepsTime ==
    ASSUME TimeInv, [Next]_vars
    PROVE  TimeInv'
<1>1. CASE UNCHANGED <<frame_count, jr, events>>
  BY <1>1 DEF TimeInv, FrameTime
<1>2. ASSUME NEW frames \in FrameCounts, Process(frames) PROVE TimeInv'
  <2>1. frame_count' \in Nat /\ jr' = 0
    BY <1>2, MidiInAssumption DEF Process
  <2>2. \A p \in DOMAIN events' : events'[p] = << >>
    BY <1>2 DEF Process
  <2>3. ASSUME NEW p \in DOMAIN events'
        PROVE  events'[p] \in Seq([msg : Messages, time : Nat, whole : BOOLEAN]) /\ 1..Len(events'[p]) = {}
    <3>1. << >> \in Seq([msg : Messages, time : Nat, whole : BOOLEAN])
      BY ElementOfSeq
    <3>2. events'[p] = << >> /\ 1..Len(<< >>) = {}
      BY <2>2
    <3>3. QED
      BY <3>1, <3>2
  <2>4. QED
    BY <2>1, <2>3 DEF TimeInv
<1>3. ASSUME NEW m \in Messages, JRTimestamp(m) PROVE TimeInv'
  <2>1. /\ m.ticks \in Nat /\ jr' = jr + m.ticks
        /\ frame_count' = frame_count /\ events' = events
    BY <1>3, MidiInAssumption DEF JRTimestamp, ReadMessage, sequenceVars
  <2>2. jr' \in Nat /\ frame_count \in Nat /\ jr \in Nat /\ jr <= jr'
    BY <2>1 DEF TimeInv
  <2>3. FrameTime(jr) <= FrameTime(jr') /\ FrameTime(jr) \in Nat /\ FrameTime(jr') \in Nat
    BY <2>2, FrameTimeMonotone
  <2>4. FrameTime(jr)' = FrameTime(jr')
    BY <2>1 DEF FrameTime
  <2>5. \A p \in DOMAIN events : \A k \in 1..Len(events[p]) : events[p][k].time <= FrameTime(jr)'
    <3> SUFFICES ASSUME NEW p \in DOMAIN events, NEW k \in 1..Len(events[p])
                 PROVE  events[p][k].time <= FrameTime(jr')
      BY <2>4
    <3>1. events[p][k].time <= FrameTime(jr)
      BY DEF TimeInv
    <3>2. events[p][k].time \in Nat
      BY TimeOfEvent DEF TimeInv
    <3>3. QED
      BY <2>3, <3>1, <3>2
  <2>6. QED
    BY <2>1, <2>2, <2>5 DEF TimeInv
<1>4. ASSUME NEW m \in Messages, NEW whole \in BOOLEAN,
             events' = [events EXCEPT ![atom_in'] = Append(@, EventOf(m, whole))],
             UNCHANGED <<frame_count, jr>>
      PROVE  TimeInv'
  <2>1. /\ frame_count' = frame_count /\ jr' = jr
        /\ events' = [events EXCEPT ![atom_in'] = Append(@, EventOf(m, whole))]
    BY <1>4
  <2>2. FrameTime(jr)' = FrameTime(jr) /\ FrameTime(jr) \in Nat
    BY <2>1, FrameTimeMonotone DEF TimeInv, FrameTime
  <2>3. ASSUME NEW p \in DOMAIN events
        PROVE  /\ events'[p] \in Seq([msg : Messages, time : Nat, whole : BOOLEAN])
               /\ \A k \in 1..Len(events'[p]) :
                     /\ events'[p][k].time <= FrameTime(jr)
                     /\ k > 1 => events'[p][k].time >= events'[p][k - 1].time
    <3>1. CASE p = atom_in'
      <4>1. events'[p] = Append(events[p], [msg |-> m, time |-> FrameTime(jr), whole |-> whole])
        BY <2>1, <3>1 DEF EventOf
      <4>2. QED
        BY <4>1, <2>2, AppendInTime DEF TimeInv
    <3>2. CASE p # atom_in'
      BY <2>1, <3>2 DEF TimeInv
    <3>3. QED
      BY <3>1, <3>2
  <2>4. DOMAIN events' = DOMAIN events
    BY <2>1
  <2>5. QED
    BY <2>1, <2>2, <2>3, <2>4 DEF TimeInv
<1>5. ASSUME NEW m \in Messages, Event(m) PROVE TimeInv'
  <2>1. /\ UNCHANGED <<frame_count, jr>>
        /\ events' = [events EXCEPT ![atom_in'] = Append(@, EventOf(m, TRUE))]
    BY <1>5 DEF Event, ReadMessage
  <2>2. QED
    BY <2>1, <1>4
<1>6. ASSUME NEW m \in Messages, EventOverflow(m) PROVE TimeInv'
  <2>1. /\ UNCHANGED <<frame_count, jr>>
        /\ \/ events' = events
           \/ events' = [events EXCEPT ![atom_in'] = Append(@, EventOf(m, FALSE))]
    BY <1>6 DEF EventOverflow, ReadMessage
  <2>2. QED
    BY <2>1, <1>1, <1>4
<1>7. QED
  <2>1. \/ UNCHANGED <<frame_count, jr, events>>
        \/ \E frames \in FrameCounts : Process(frames)
        \/ \E m \in Messages : JRTimestamp(m) \/ Event(m) \/ EventOverflow(m)
    BY DEF Next, vars, Prepare, Run, midiVars, Message, Ignored, ParameterChange, NoSequence,
           ReadMessage, sequenceVars
  <2>2. QED
    BY <2>1, <1>1, <1>2, <1>3, <1>5, <1>6

(* The events of a sequence are in the order of time and inside what the   *)
(* plugin is run for, for any sample rate, time stamps and frame count up  *)
(* to the size of the host's buffer.                                       *)
THEOREM EventTimes == Spec => []EventsInTime
<1>1. Init => TimeInv
  BY InitTimeInv
<1>2. TimeInv /\ [Next]_vars => TimeInv'
  BY NextKeepsTime
<1>3. TimeInv => EventsInTime
  <2> SUFFICES ASSUME TimeInv, frame_count \in 1..NumFrames, NEW p \in DOMAIN events,
                      NEW k \in 1..Len(events[p])
               PROVE  /\ events[p][k].time < RunFrames
                      /\ k > 1 => events[p][k].time >= events[p][k - 1].time
    BY DEF EventsInTime
  <2>1. RunFrames = frame_count /\ frame_count \in Nat \ {0}
    BY PortsAssumption DEF RunFrames
  <2>2. FrameTime(jr) < frame_count /\ FrameTime(jr) \in Nat
    <3>1. jr \in Nat /\ jr <= jr
      BY DEF TimeInv
    <3>2. frame_count \in Nat /\ frame_count > 0
      BY <2>1
    <3>3. QED
      BY <3>1, <3>2, FrameTimeMonotone
  <2>3. events[p][k].time <= FrameTime(jr) /\ events[p][k].time \in Nat
    BY TimeOfEvent DEF TimeInv
  <2>4. k > 1 => events[p][k].time >= events[p][k - 1].time
    BY DEF TimeInv
  <2>5. QED
    BY <2>1, <2>2, <2>3, <2>4
<1>4. QED
  BY <1>1, <1>2, <1>3, PTL DEF Spec

-----------------------------------------------------------------------------
(* The values of the controls.                                             *)
LEMMA ConnectNames ==
    ASSUME PortInv, NamedInv, Prepare
    PROVE  NamedInv'
<1>1. pc \in {"params", "allocate", "connect"} /\ named = << >> /\ cycles = 0
      /\ UNCHANGED <<named, cycles>>
  BY DEF Prepare, PrepareStep, NamedInv, Prepared, midiVars, RegisterPort, AllocateAtom,
         AllocateOversized, AllocateControl, SkipAapPort, AllocateAudio, ConnectPorts, AllocateAs,
         TakesAapPort
<1>2. CASE ConnectPorts
  <2>1. Allocated = Lv2Ports /\ ~Prepared
    BY <1>2 DEF ConnectPorts, Allocated, Prepared
  <2>2. \A p \in Lv2Ports : control[p] = DefaultOf(p)
    BY <2>1 DEF PortInv, ControlInv
  <2>3. /\ Lv2Ports' = Lv2Ports /\ control' = control
        /\ \A p : DefaultOf(p)' = DefaultOf(p)
    BY <1>2 DEF ConnectPorts, Lv2Ports, NumPorts, DefaultOf, Port
  <2>4. Prepared' /\ DOMAIN named' = {} /\ cycles' = 0
    BY <1>1, <1>2 DEF ConnectPorts, Prepared
  <2>5. QED
    BY <2>2, <2>3, <2>4 DEF NamedInv, OnlyNamedPort
<1>3. CASE ~ConnectPorts
  <2>1. pc' \in {"params", "allocate", "connect"}
    BY <1>1, <1>3 DEF Prepare, PrepareStep, RegisterPort, AllocateAtom, AllocateOversized,
                AllocateControl, SkipAapPort, AllocateAudio, AllocateAs, NextPort
  <2>2. QED
    BY <1>1, <2>1 DEF NamedInv, OnlyNamedPort, Prepared
<1>4. QED
  BY <1>2, <1>3

LEMMA PlayNames ==
    ASSUME PortInv, NamedInv, Prepared, Prepared', UNCHANGED ports, patch_in' = patch_in,
           UNCHANGED <<control, named>>,
           patch_in >= 0 /\ cycles' > 0 =>
               \/ patch_size' = BufferSize(patch_in) - 1
               \/ cycles > 0 /\ patch_size' = patch_size
    PROVE  NamedInv'
<1>1. /\ Lv2Ports' = Lv2Ports
      /\ \A p : /\ DefaultOf(p)' = DefaultOf(p) /\ HasControlPort(p)' = HasControlPort(p)
                /\ BufferSize(p)' = BufferSize(p)
  BY DEF Lv2Ports, NumPorts, DefaultOf, HasControlPort, BufferSize, Port, Oversized
<1>2. QED
  BY <1>1 DEF NamedInv, OnlyNamedPort

LEMMA ChangeNames ==
    ASSUME PortInv, NamedInv, NEW m \in Messages, ParameterChange(m)
    PROVE  NamedInv'
<1>1. /\ pc = "midi" /\ pc' = pc /\ Prepared /\ Prepared'
      /\ ports' = ports /\ patch_in' = patch_in /\ cycles' = cycles
      /\ named' = Put(named, m.id, m.value)
  BY DEF ParameterChange, ReadMessage, Prepared, atomVars
<1>2. /\ Lv2Ports' = Lv2Ports
      /\ \A p : /\ DefaultOf(p)' = DefaultOf(p) /\ HasControlPort(p)' = HasControlPort(p)
                /\ BufferSize(p)' = BufferSize(p)
  BY <1>1 DEF Lv2Ports, NumPorts, DefaultOf, HasControlPort, BufferSize, Port, Oversized
<1>3. Allocated = Lv2Ports
  BY <1>1 DEF Allocated
<1>4. /\ control_ports = {p \in Lv2Ports : HasControlPort(p)} /\ DOMAIN control = Lv2Ports
      /\ m.id \in control_ports <=> HasControlPort(m.id)
  BY <1>3 DEF PortInv, ControlInv, HasControlPort
<1> DEFINE Known(ids) == \A id \in ids : HasControlPort(id)
           Value(names, p) == IF p \in DOMAIN names /\ HasControlPort(p) THEN names[p]
                              ELSE DefaultOf(p)
<1>5. /\ DOMAIN named' = DOMAIN named \cup {m.id} /\ named'[m.id] = m.value
      /\ \A id \in DOMAIN named : id # m.id => named'[id] = named[id]
  BY <1>1 DEF Put
<1>6. /\ Known(DOMAIN named') <=> Known(DOMAIN named) /\ HasControlPort(m.id)
      /\ \A p \in Lv2Ports : p # m.id => Value(named', p) = Value(named, p)
      /\ HasControlPort(m.id) => Value(named', m.id) = m.value
      /\ ~HasControlPort(m.id) => Value(named', m.id) = Value(named, m.id)
  BY <1>5
<1>7. /\ \A p \in Lv2Ports : p # 0 \/ patch_in >= 0 \/ Known(DOMAIN named) =>
             control[p] = Value(named, p)
      /\ Known(DOMAIN named) /\ cycles > 0 /\ patch_in >= 0 =>
             patch_size = BufferSize(patch_in) - 1
  BY <1>1 DEF NamedInv, OnlyNamedPort
<1> HIDE DEF Known, Value
<1>8. /\ \A p \in Lv2Ports : p # 0 \/ patch_in >= 0 \/ Known(DOMAIN named') =>
             control'[p] = Value(named', p)
      /\ Known(DOMAIN named') /\ cycles > 0 /\ patch_in >= 0 =>
             patch_size' = BufferSize(patch_in) - 1
  <2>1. CASE HasControlPort(m.id)
    <3>1. /\ InSeq(m.id, aapParams) /\ m.id \in control_ports /\ m.id \in Lv2Ports
      BY <1>1, <1>4, <2>1 DEF PortInv, ControlInv, Registered, HasControlPort
    <3>2. patch_size' = patch_size /\ control' = [control EXCEPT ![m.id] = m.value]
      BY <3>1 DEF ParameterChange, ControlPort
    <3>3. \A p \in Lv2Ports : control'[p] = IF p = m.id THEN m.value ELSE control[p]
      BY <1>4, <3>2
    <3>4. QED
      BY <1>6, <1>7, <2>1, <3>2, <3>3
  <2>2. CASE ~HasControlPort(m.id) /\ patch_in >= 0
    <3>1. patch_in \in Int
      BY AllocatedAreNat DEF PortInv
    <3>2. control' = control
      BY <1>4, <2>2, <3>1 DEF ParameterChange
    <3>3. QED
      BY <1>6, <1>7, <2>2, <3>2
  <2>3. CASE ~HasControlPort(m.id) /\ ~(patch_in >= 0)
    <3>1. \A p \in Lv2Ports : p # 0 => control'[p] = control[p]
      BY <1>4, <2>3 DEF ParameterChange, ControlPort
    <3>2. QED
      BY <1>6, <1>7, <2>3, <3>1
  <2>4. QED
    BY <2>1, <2>2, <2>3
<1>9. QED
  BY <1>1, <1>2, <1>8 DEF NamedInv, OnlyNamedPort, Known, Value

LEMMA NextKeepsNames ==
    ASSUME PortInv, NamedInv, [Next]_vars
    PROVE  NamedInv'
<1>1. CASE Prepare
  BY <1>1, ConnectNames
<1>2. ASSUME NEW frames \in FrameCounts, Process(frames) PROVE NamedInv'
  <2>1. patch_in \in Int
    BY AllocatedAreNat DEF PortInv
  <2>2. patch_in >= 0 => patch_size' = BufferSize(patch_in) - 1
    BY <1>2, <2>1 DEF Process
  <2>3. Prepared /\ Prepared' /\ UNCHANGED <<ports, patch_in, control, named>>
    BY <1>2 DEF Process, Prepared, atomVars
  <2>4. QED
    BY <2>2, <2>3, PlayNames
<1>3. ASSUME NEW m \in Messages, ParameterChange(m) PROVE NamedInv'
  BY <1>3, ChangeNames
<1>4. ASSUME NEW m \in Messages, Message(m), ~ParameterChange(m) PROVE NamedInv'
  <2>1. /\ ReadMessage(m) /\ UNCHANGED <<control, patch_size, named>>
    BY <1>4 DEF Message, JRTimestamp, Ignored, NoSequence, Event, EventOverflow
  <2>2. /\ Prepared /\ Prepared' /\ UNCHANGED <<ports, patch_in, control, named>>
        /\ cycles' = cycles /\ patch_size' = patch_size
    BY <2>1 DEF ReadMessage, Prepared, atomVars
  <2>3. QED
    BY <2>2, PlayNames
<1>5. CASE Run
  <2>1. /\ Prepared /\ Prepared' /\ UNCHANGED <<ports, patch_in, control, named>>
        /\ cycles' = cycles /\ patch_size' = patch_size
    BY <1>5 DEF Run, Prepared, atomVars, midiVars
  <2>2. QED
    BY <2>1, PlayNames
<1>6. CASE UNCHANGED vars
  <2>1. /\ UNCHANGED <<ports, pc, patch_in, control, named>>
        /\ cycles' = cycles /\ patch_size' = patch_size
    BY <1>6 DEF vars, portVars, atomVars, midiVars
  <2>2. CASE Prepared
    <3>1. Prepared'
      BY <2>1, <2>2 DEF Prepared
    <3>2. QED
      BY <2>1, <2>2, <3>1, PlayNames
  <2>3. CASE ~Prepared
    BY <2>1, <2>3 DEF NamedInv, OnlyNamedPort, Prepared
  <2>4. QED
    BY <2>2, <2>3
<1>7. QED
  BY <1>1, <1>2, <1>3, <1>4, <1>5, <1>6 DEF Next

(* A control port holds the last value the host has named for it, whatever *)
(* the other ports, messages and calls are; an id that has no control port *)
(* disturbs port 0 at most, or the patch input.                            *)
THEOREM NamedPorts == Spec => []OnlyNamedPort
<1>1. Init => NamedInv
  BY DEF Init, InitPorts, NamedInv, OnlyNamedPort, Prepared
<1>2. PortInv /\ NamedInv /\ [Next]_vars => NamedInv'
  BY NextKeepsNames
<1>3. NamedInv => OnlyNamedPort
  BY DEF NamedInv
<1>4. QED
  BY <1>1, <1>2, <1>3, PortInvariant, PTL DEF Spec

-----------------------------------------------------------------------------
(* Types, and the room of the sequences.                                   *)
LEMMA BufferSizes ==
    ASSUME PortInv, NEW p \in Lv2Ports
    PROVE  BufferSize(p) \in Nat /\ BufferSize(p) >= 2
<1>1. ports \in Seq(PortRecord) /\ ports \in Plugins
  BY PortsAssumption DEF PortInv
<1>2. p + 1 \in 1..Len(ports)
  BY <1>1, PortTypes DEF Lv2Ports, NumPorts
<1>3. Port(p).rsz # 1
  BY <1>1, <1>2, PortsAssumption DEF Port
<1>4. Port(p).rsz \in Nat
  BY <1>1, PortTypes DEF PortRecord
<1>5. QED
  BY <1>3, <1>4, MidiInAssumption DEF BufferSize

LEMMA MidiInputsArePorts ==
    ASSUME PortInv
    PROVE  MidiInputs \subseteq Lv2Ports
<1>1. \A g \in 1..Len(midi_ins) : midi_ins[g] \in Allocated
  BY ElementOfSeq DEF PortInv
<1>2. QED
  BY <1>1, AllocatedAreNat DEF MidiInputs

LEMMA MessageKeepsTypes ==
    ASSUME PortInv, TypeInv, NEW m \in Messages, Message(m)
    PROVE  TypeInv'
<1>1. /\ ReadMessage(m) /\ pc = "midi" /\ Prepared /\ Prepared'
      /\ UNCHANGED <<ports, midi_ins, frame_count, cycles>>
  BY DEF Message, JRTimestamp, Ignored, ParameterChange, NoSequence, Event, EventOverflow,
         ReadMessage, atomVars, Prepared
<1>2. messages' \in 0..MaxMessages
  BY <1>1, MidiInAssumption DEF ReadMessage, TypeInv, MidiTypeOK
<1>3. atom_in' \in MidiInputs \cup {-1}
  <2>1. m.group < Len(midi_ins) => m.group + 1 \in 1..Len(midi_ins)
    BY MidiInAssumption DEF PortInv
  <2>2. GroupPort(m.group) \in MidiInputs \cup {-1}
    BY <2>1 DEF GroupPort, MidiInputs
  <2>3. QED
    BY <1>1, <2>2 DEF ReadMessage, TypeInv, MidiTypeOK
<1>4. MidiInputs' = MidiInputs /\ \A p : BufferSize(p)' = BufferSize(p)
  BY <1>1 DEF MidiInputs, BufferSize, Port
<1>5. jr' \in Nat /\ patch_size' \in Nat /\ overflow' \in BOOLEAN
  <2>1. jr \in Nat /\ patch_size \in Nat /\ overflow \in BOOLEAN
    BY DEF TypeInv, MidiTypeOK
  <2>2. CASE JRTimestamp(m)
    BY <2>1, <2>2, MidiInAssumption DEF JRTimestamp, sequenceVars
  <2>3. CASE ParameterChange(m)
    <3>1. patch_size' = patch_size \/ patch_size' = (0 - 1) % SizeRange
      BY <2>3 DEF ParameterChange
    <3>2. (0 - 1) % SizeRange \in Nat
      <4>1. SizeRange \in Nat /\ SizeRange > 0
        BY SMT DEF SizeRange
      <4>2. QED
        BY <4>1, SMT
    <3>3. QED
      BY <2>1, <2>3, <3>1, <3>2 DEF ParameterChange, sequenceVars
  <2>4. QED
    BY <2>1, <2>2, <2>3 DEF Message, Ignored, NoSequence, Event, EventOverflow, sequenceVars
<1>6. DOMAIN events' = DOMAIN used' /\ DOMAIN used' = DOMAIN used
  BY DEF Message, JRTimestamp, Ignored, ParameterChange, NoSequence, Event, EventOverflow,
         sequenceVars, TypeInv, MidiTypeOK
<1>7. ASSUME NEW p \in DOMAIN used
      PROVE  used'[p] \in 2..BufferSize(p)
  <2>1. used[p] \in 2..BufferSize(p)
    BY DEF TypeInv, MidiTypeOK
  <2>2. CASE used' = used
    BY <2>1, <2>2
  <2>3. CASE Event(m)
    <3>1. m.size \in Nat /\ atom_in' >= 0 /\ used[atom_in'] + 2 + m.size <= BufferSize(atom_in')
          /\ used' = [used EXCEPT ![atom_in'] = @ + 2 + m.size]
      BY <2>3, MidiInAssumption DEF Event
    <3>2. CASE p = atom_in'
      <4> DEFINE u == used[p]
                 b == BufferSize(p)
      <4>1. u \in 2..b /\ u + 2 + m.size <= b /\ used'[p] = u + 2 + m.size
        BY <2>1, <3>1, <3>2
      <4>2. b \in Int
        <5>1. p \in Lv2Ports
          BY <1>3, <3>1, <3>2, MidiInputsArePorts
        <5>2. QED
          BY <5>1, BufferSizes
      <4> HIDE DEF u, b
      <4>3. used'[p] \in 2..b
        BY <3>1, <4>1, <4>2
      <4>4. QED
        BY <4>3 DEF b
    <3>3. CASE p # atom_in'
      BY <2>1, <3>1, <3>3
    <3>4. QED
      BY <3>2, <3>3
  <2>4. CASE EventOverflow(m)
    <3>1. /\ atom_in' >= 0
          /\ used' = [used EXCEPT ![atom_in'] =
                      @ + (IF BufferSize(atom_in') - used[atom_in'] < 2
                           THEN BufferSize(atom_in') - used[atom_in'] ELSE 2)]
      BY <2>4 DEF EventOverflow
    <3>2. CASE p = atom_in'
      <4> DEFINE u == used[p]
                 b == BufferSize(p)
      <4>1. u \in 2..b /\ used'[p] = u + (IF b - u < 2 THEN b - u ELSE 2)
        BY <2>1, <3>1, <3>2
      <4>2. b \in Int
        <5>1. p \in Lv2Ports
          BY <1>3, <3>1, <3>2, MidiInputsArePorts
        <5>2. QED
          BY <5>1, BufferSizes
      <4> HIDE DEF u, b
      <4>3. used'[p] \in 2..b
        BY <4>1, <4>2
      <4>4. QED
        BY <4>3 DEF b
    <3>3. CASE p # atom_in'
      BY <2>1, <3>1, <3>3
    <3>4. QED
      BY <3>2, <3>3
  <2>5. QED
    BY <2>2, <2>3, <2>4 DEF Message, JRTimestamp, Ignored, ParameterChange, NoSequence, sequenceVars
<1>8. frame_count' \in FrameCounts \cup {0} /\ cycles' \in 0..MaxCycles
  BY <1>1 DEF TypeInv, MidiTypeOK
<1>9. (\A p \in DOMAIN used : used[p] \in 2..BufferSize(p))'
  BY <1>4, <1>6, <1>7
<1>10. QED
  BY <1>1, <1>2, <1>3, <1>4, <1>5, <1>6, <1>8, <1>9 DEF TypeInv, MidiTypeOK

LEMMA NextKeepsTypes ==
    ASSUME PortInv, TypeInv, [Next]_vars
    PROVE  TypeInv'
<1>1. CASE Prepare
  <2>1. ~Prepared /\ UNCHANGED <<midiVars, ports>>
    BY <1>1 DEF Prepare, PrepareStep, Prepared, RegisterPort, AllocateAtom, AllocateOversized,
                AllocateControl, SkipAapPort, AllocateAudio, ConnectPorts, AllocateAs, TakesAapPort
  <2>2. QED
    BY <2>1 DEF TypeInv, MidiTypeOK, midiVars, sequenceVars
<1>2. ASSUME NEW frames \in FrameCounts, Process(frames) PROVE TypeInv'
  <2>1. Prepared' /\ UNCHANGED <<ports, midi_ins>>
    BY <1>2 DEF Process, Prepared, atomVars
  <2>2. MidiInputs' = MidiInputs /\ \A p : BufferSize(p)' = BufferSize(p)
    BY <2>1 DEF MidiInputs, BufferSize, Port
  <2>3. \A p \in DOMAIN used' : used'[p] = 2 /\ p \in MidiInputs
    BY <1>2 DEF Process
  <2>4. \A p \in DOMAIN used' : used'[p] \in 2..BufferSize(p)
    BY <2>3, MidiInputsArePorts, BufferSizes
  <2>5. patch_size' \in Nat
    <3>1. patch_in < 0 \/ patch_in \in Lv2Ports
      BY AllocatedAreNat DEF PortInv
    <3>2. CASE patch_in < 0
      BY <1>2, <3>2 DEF Process
    <3>3. CASE patch_in \in Lv2Ports
      <4>1. patch_in >= 0
        BY <3>3, AllocatedAreNat
      <4>2. BufferSize(patch_in) \in Nat /\ BufferSize(patch_in) >= 2
        BY <3>3, BufferSizes
      <4>3. patch_size' = 0 \/ patch_size' = BufferSize(patch_in) - 1
        BY <1>2 DEF Process
      <4>4. QED
        BY <4>2, <4>3
    <3>4. QED
      BY <3>1, <3>2, <3>3
  <2>6. cycles' \in 0..MaxCycles
    BY <1>2, MidiInAssumption DEF Process, TypeInv, MidiTypeOK
  <2>7. QED
    BY <1>2, <2>1, <2>2, <2>4, <2>5, <2>6 DEF Process, TypeInv, MidiTypeOK
<1>3. ASSUME NEW m \in Messages, Message(m) PROVE TypeInv'
  BY <1>3, MessageKeepsTypes
<1>4. CASE Run
  BY <1>4 DEF Run, TypeInv, MidiTypeOK, Prepared, midiVars, sequenceVars, atomVars, MidiInputs,
              BufferSize, Port
<1>5. CASE UNCHANGED vars
  BY <1>5 DEF vars, portVars, TypeInv, MidiTypeOK, Prepared, midiVars, sequenceVars, atomVars,
              MidiInputs, BufferSize, Port
<1>6. QED
  BY <1>1, <1>2, <1>3, <1>4, <1>5 DEF Next

LEMMA TypesTogether == PortInv /\ TypeInv => TypeOK
<1> SUFFICES ASSUME PortInv, TypeInv PROVE TypeOK
  OBVIOUS
<1>1. Allocated \subseteq Lv2Ports /\ MidiInputs \subseteq Lv2Ports
  BY AllocatedAreNat, MidiInputsArePorts
<1>2. Prepared => Allocated = Lv2Ports
  BY DEF Prepared, Allocated
<1>3. next \in 0..(NumPorts - 1)
  BY DEF PortInv, Lv2Ports
<1>4. QED
  BY <1>1, <1>2, <1>3 DEF PortInv, AudioInv, ControlInv, TypeInv, TypeOK

LEMMA InitTypes == Init => TypeInv
<1> SUFFICES ASSUME Init PROVE TypeInv
  OBVIOUS
<1>1. DOMAIN used = {} /\ DOMAIN events = {} /\ atom_in = -1
  BY DEF Init
<1>2. 0 \in 0..MaxMessages /\ 0 \in 0..MaxCycles
  BY MidiInAssumption
<1>3. /\ frame_count = 0 /\ jr = 0 /\ overflow = FALSE /\ patch_size = 0
      /\ messages = 0 /\ cycles = 0
  BY DEF Init
<1>4. MidiTypeOK
  BY <1>1, <1>2, <1>3 DEF MidiTypeOK
<1>5. QED
  BY <1>1, <1>4 DEF TypeInv

(* Types; in particular no MIDI sequence is ever filled beyond its buffer, *)
(* whatever the host sends.                                                *)
THEOREM MidiTypes == Spec => []TypeOK
<1>1. Init => TypeInv
  BY InitTypes
<1>2. PortInv /\ TypeInv /\ [Next]_vars => TypeInv'
  BY NextKeepsTypes
<1>3. QED
  BY <1>1, <1>2, TypesTogether, PortInvariant, PTL DEF Spec

-----------------------------------------------------------------------------
(* The enumerations.                                                       *)
LEMMA ConcatAt ==
    ASSUME NEW S, NEW s \in Seq(S), NEW t \in Seq(S)
    PROVE  /\ s \o t \in Seq(S)
           /\ Len(s \o t) = Len(s) + Len(t)
           /\ \A k \in 1..Len(s) : (s \o t)[k] = s[k]
           /\ \A k \in 1..Len(t) : (s \o t)[Len(s) + k] = t[k]
OBVIOUS

LEMMA RegisterKeepsEnums ==
    ASSUME PortInv, EnumInv, RegisterPort
    PROVE  EnumInv'
<1> DEFINE e == Enumeration(Port(next))
           n == Len(aapEnums)
<1>1. next \in Lv2Ports /\ Port(next) \in PortRecord
  BY PortTypes DEF PortInv
<1>2. e \in Seq(Int) /\ (Port(next).points # << >> => e = Port(next).points)
  BY <1>1 DEF Enumeration, PortRecord
<1>3. aapEnums \in Seq(Int) /\ n \in Nat
  BY DEF EnumInv
<1>4. Registered' = Registered \cup {next} /\ \A p : Port(p)' = Port(p)
  BY RegisteredGrows DEF RegisterPort, Port
<1>5. next \notin Registered
  BY <1>1 DEF RegisterPort, Registered, Lv2Ports
<1>6. CASE Port(next).kind # "control"
  BY <1>4, <1>6 DEF RegisterPort, EnumInv, parameterVars
<1>7. CASE Port(next).kind = "control"
  <2>1. /\ aapEnums' = aapEnums \o e
        /\ aapParamIdToEnumIndex' =
              IF e # << >> THEN Put(aapParamIdToEnumIndex, next, n) ELSE aapParamIdToEnumIndex
    BY <1>7 DEF RegisterPort
  <2> HIDE DEF e
  <2>2. /\ aapEnums' \in Seq(Int) /\ Len(aapEnums') = n + Len(e) /\ Len(e) \in Nat
        /\ \A k \in 1..n : aapEnums'[k] = aapEnums[k]
        /\ \A k \in 1..Len(e) : aapEnums'[n + k] = e[k]
    BY <1>2, <1>3, <2>1, ConcatAt
  <2> HIDE DEF n
  <2>3. ASSUME NEW id \in Registered, Port(id).kind = "control", Port(id).points # << >>
        PROVE  /\ id \in DOMAIN aapParamIdToEnumIndex' /\ aapParamIdToEnumIndex'[id] \in Nat
               /\ \A k \in 1..Len(Port(id).points) :
                     /\ aapParamIdToEnumIndex'[id] + k \in 1..Len(aapEnums')
                     /\ aapEnums'[aapParamIdToEnumIndex'[id] + k] = Port(id).points[k]
    <3>1. /\ id \in DOMAIN aapParamIdToEnumIndex /\ aapParamIdToEnumIndex[id] \in Nat
          /\ \A k \in 1..Len(Port(id).points) :
                /\ aapParamIdToEnumIndex[id] + k \in 1..n
                /\ aapEnums[aapParamIdToEnumIndex[id] + k] = Port(id).points[k]
      BY <2>3 DEF EnumInv, n
    <3>2. /\ id \in DOMAIN aapParamIdToEnumIndex'
          /\ aapParamIdToEnumIndex'[id] = aapParamIdToEnumIndex[id]
      BY <1>5, <2>1, <3>1 DEF Put
    <3>3. 1..n \subseteq 1..Len(aapEnums')
      BY <1>3, <2>2
    <3>4. QED
      BY <2>2, <3>1, <3>2, <3>3
  <2>4. ASSUME Port(next).points # << >>
        PROVE  /\ next \in DOMAIN aapParamIdToEnumIndex' /\ aapParamIdToEnumIndex'[next] \in Nat
               /\ \A k \in 1..Len(Port(next).points) :
                     /\ aapParamIdToEnumIndex'[next] + k \in 1..Len(aapEnums')
                     /\ aapEnums'[aapParamIdToEnumIndex'[next] + k] = Port(next).points[k]
    <3>1. e = Port(next).points /\ e # << >>
      BY <1>2, <2>4
    <3>2. next \in DOMAIN aapParamIdToEnumIndex' /\ aapParamIdToEnumIndex'[next] = n
      BY <2>1, <3>1 DEF Put
    <3>3. \A k \in 1..Len(e) : n + k \in 1..Len(aapEnums')
      BY <1>3, <2>2
    <3>4. QED
      BY <1>3, <2>2, <3>1, <3>2, <3>3
  <2>5. QED
    BY <1>4, <2>2, <2>3, <2>4 DEF EnumInv
<1>8. QED
  BY <1>6, <1>7

LEMMA RestKeepsEnums ==
    ASSUME EnumInv, UNCHANGED <<ports, parameterVars>>, Registered' = Registered
    PROVE  EnumInv'
BY DEF EnumInv, parameterVars, Port

LEMMA NextKeepsEnums ==
    ASSUME PortInv, EnumInv, [Next]_vars
    PROVE  EnumInv'
<1>1. CASE RegisterPort
  BY <1>1, RegisterKeepsEnums
<1>2. CASE AllocateAtom \/ AllocateOversized \/ AllocateControl \/ AllocateAudio
  <2>1. pc = "allocate" /\ NextPort("connect") /\ UNCHANGED <<ports, parameterVars>>
    BY <1>2 DEF AllocateAtom, AllocateOversized, AllocateControl, AllocateAudio, AllocateAs
  <2>2. Registered' = Registered
    BY <2>1, AllocatedGrows
  <2>3. QED
    BY <2>1, <2>2, RestKeepsEnums
<1>3. CASE ~RegisterPort /\ ~(AllocateAtom \/ AllocateOversized \/ AllocateControl \/ AllocateAudio)
  <2>1. /\ UNCHANGED <<ports, parameterVars>>
        /\ pc' = pc \/ (pc # "params" /\ pc' # "params")
    BY <1>3 DEF Next, vars, portVars, Prepare, PrepareStep, SkipAapPort, ConnectPorts, Process, Run,
                Message, JRTimestamp, Ignored, ParameterChange, NoSequence, Event, EventOverflow,
                ReadMessage
  <2>2. pc = "params" => next' = next
    BY <1>3 DEF Next, vars, portVars, Prepare, PrepareStep, SkipAapPort, ConnectPorts, Process, Run,
                Message, JRTimestamp, Ignored, ParameterChange, NoSequence, Event, EventOverflow,
                ReadMessage, TakesAapPort
  <2>3. Registered' = Registered
    BY <2>1, <2>2 DEF Registered, Lv2Ports, NumPorts
  <2>4. QED
    BY <2>1, <2>3, RestKeepsEnums
<1>4. QED
  BY <1>1, <1>2, <1>3

(* What the host finds under a parameter's enumeration, as far as it is    *)
(* told to look, are the scale points of that parameter, wherever in the   *)
(* list of all enumerations they are.                                      *)
THEOREM OwnEnumerations == Spec => []EnumerationsAreOwn
<1>1. Init => EnumInv
  <2> SUFFICES ASSUME Init PROVE EnumInv
    OBVIOUS
  <2>1. Registered = {} /\ aapEnums = << >>
    BY DEF Init, InitPorts, Registered
  <2>2. QED
    BY <2>1 DEF EnumInv
<1>2. PortInv /\ EnumInv /\ [Next]_vars => EnumInv'
  BY NextKeepsEnums
<1>3. PortInv /\ EnumInv => EnumerationsAreOwn
  <2> SUFFICES ASSUME PortInv, EnumInv, pc # "params", NEW id \in Lv2Ports,
                      NEW k \in 0..(Len(Port(id).points) - 1), Port(id).kind = "control"
               PROVE  getAAPEnumeration(id, k) = Port(id).points[k + 1]
    BY DEF EnumerationsAreOwn, getAAPEnumerationCount
  <2>1. Registered = Lv2Ports
    BY DEF Registered
  <2>2. Port(id).points \in Seq(Int)
    BY PortTypes DEF PortInv, PortRecord
  <2>3. k + 1 \in 1..Len(Port(id).points) /\ Port(id).points # << >>
    BY <2>2
  <2>4. /\ id \in DOMAIN aapParamIdToEnumIndex /\ aapParamIdToEnumIndex[id] \in Nat
        /\ aapParamIdToEnumIndex[id] + (k + 1) \in 1..Len(aapEnums)
        /\ aapEnums[aapParamIdToEnumIndex[id] + (k + 1)] = Port(id).points[k + 1]
    BY <2>1, <2>3 DEF EnumInv
  <2>5. QED
    BY <2>3, <2>4 DEF getAAPEnumeration
<1>4. QED
  BY <1>1, <1>2, <1>3, PortInvariant, PTL DEF Spec

-----------------------------------------------------------------------------
(* The audio ports of the plugin, counted from the first.                  *)
LEMMA AudioCount ==
    ASSUME NEW plugin, NEW p \in Nat
    PROVE  /\ AudioBefore(plugin, p) \in Nat
           /\ AudioBefore(plugin, 0) = 0
           /\ AudioBefore(plugin, p + 1)
                 = AudioBefore(plugin, p) + (IF IsAudio(plugin[p + 1]) THEN 1 ELSE 0)
<1> DEFINE S == {q \in 0..(p - 1) : IsAudio(plugin[q + 1])}
           T == {q \in 0..((p + 1) - 1) : IsAudio(plugin[q + 1])}
<1>1. IsFiniteSet(S) /\ Cardinality(S) \in Nat
  <2>1. IsFiniteSet(0..(p - 1)) /\ S \in SUBSET (0..(p - 1))
    BY FS_Interval
  <2>2. QED
    BY <2>1, FS_Subset, FS_CardinalityType
<1>2. T = IF IsAudio(plugin[p + 1]) THEN S \cup {p} ELSE S
  <2>1. \A q \in Int : q \in 0..((p + 1) - 1) <=> q \in 0..(p - 1) \/ q = p
    OBVIOUS
  <2>2. QED
    BY <2>1
<1>3. p \notin S
  OBVIOUS
<1>4. AudioBefore(plugin, p) = Cardinality(S) /\ AudioBefore(plugin, p + 1) = Cardinality(T)
  BY DEF AudioBefore
<1>5. AudioBefore(plugin, 0) = 0
  <2>1. {q \in 0..(0 - 1) : IsAudio(plugin[q + 1])} = {}
    OBVIOUS
  <2>2. QED
    BY <2>1, FS_EmptySet DEF AudioBefore
<1> HIDE DEF S, T
<1>6. Cardinality(T) = Cardinality(S) + (IF IsAudio(plugin[p + 1]) THEN 1 ELSE 0)
  BY <1>1, <1>2, <1>3, FS_AddElement
<1>7. QED
  BY <1>1, <1>4, <1>5, <1>6

LEMMA AudioCountGrows ==
    ASSUME NEW plugin, NEW p \in Nat, NEW q \in Nat, p < q
    PROVE  /\ AudioBefore(plugin, p) <= AudioBefore(plugin, q)
           /\ IsAudio(plugin[p + 1]) => AudioBefore(plugin, p) < AudioBefore(plugin, q)
<1>1. \A m \in Nat : AudioBefore(plugin, m) \in Nat
  BY AudioCount
<1>2. ASSUME NEW m \in Nat, NEW n \in Nat, m <= n
      PROVE  AudioBefore(plugin, m) <= AudioBefore(plugin, n)
  <2> DEFINE S == {k \in 0..(m - 1) : IsAudio(plugin[k + 1])}
             T == {k \in 0..(n - 1) : IsAudio(plugin[k + 1])}
  <2>1. S \in SUBSET T
    BY <1>2
  <2>2. IsFiniteSet(T)
    <3>1. IsFiniteSet(0..(n - 1)) /\ T \in SUBSET (0..(n - 1))
      BY FS_Interval
    <3>2. QED
      BY <3>1, FS_Subset
  <2>3. Cardinality(S) <= Cardinality(T)
    BY <2>1, <2>2, FS_Subset
  <2>4. QED
    BY <2>3 DEF AudioBefore
<1>3. AudioBefore(plugin, p) <= AudioBefore(plugin, q)
  BY <1>2
<1>4. AudioBefore(plugin, p + 1) <= AudioBefore(plugin, q)
  BY <1>2
<1>5. IsAudio(plugin[p + 1]) => AudioBefore(plugin, p + 1) = AudioBefore(plugin, p) + 1
  BY AudioCount
<1>6. QED
  BY <1>1, <1>3, <1>4, <1>5

(* What the metadata say of the plugin's audio port p.                     *)
LEMMA AudioOfPort ==
    ASSUME ports \in Plugins, NEW p \in Lv2Ports, IsAudio(Port(p))
    PROVE  LET n == AudioBefore(ports, p) + 1
           IN  /\ n \in 1..AudioBefore(ports, NumPorts)
               /\ Audio(ports)[n] = [content |-> "audio", dir |-> Port(p).dir]
<1>1. NumPorts \in Nat /\ p \in Nat /\ p < NumPorts
  BY PortTypes DEF Lv2Ports
<1> DEFINE n == AudioBefore(ports, p) + 1
           Is(q) == IsAudio(ports[q + 1]) /\ AudioBefore(ports, q) = n - 1
<1>2. n \in 1..AudioBefore(ports, NumPorts)
  <2>1. AudioBefore(ports, p) < AudioBefore(ports, NumPorts)
    BY <1>1, AudioCountGrows DEF Port
  <2>2. AudioBefore(ports, p) \in Nat /\ AudioBefore(ports, NumPorts) \in Nat
    BY <1>1, AudioCount
  <2>3. QED
    BY <2>1, <2>2
<1>3. p \in 0..(Len(ports) - 1) /\ Is(p)
  <2>1. AudioBefore(ports, p) \in Nat
    BY <1>1, AudioCount
  <2>2. QED
    BY <2>1 DEF Port, Lv2Ports, NumPorts
<1>4. ASSUME NEW q \in 0..(Len(ports) - 1), Is(q)
      PROVE  q = p
  <2>1. q \in Nat /\ AudioBefore(ports, q) = AudioBefore(ports, p)
    <3>1. AudioBefore(ports, p) \in Nat
      BY <1>1, AudioCount
    <3>2. QED
      BY <1>4, <3>1
  <2>2. ~(q < p)
    <3>1. AudioBefore(ports, q) \in Nat
      BY <2>1, AudioCount
    <3>2. QED
      BY <1>1, <1>4, <2>1, <3>1, AudioCountGrows
  <2>3. ~(p < q)
    <3>1. AudioBefore(ports, q) \in Nat
      BY <2>1, AudioCount
    <3>2. QED
      BY <1>1, <1>3, <2>1, <3>1, AudioCountGrows
  <2>4. QED
    BY <1>1, <2>1, <2>2, <2>3
<1> HIDE DEF n
<1>5. (CHOOSE q \in 0..(Len(ports) - 1) : Is(q)) = p
  BY <1>3, <1>4
<1>6. Audio(ports)[n] = [content |-> "audio", dir |-> ports[p + 1].dir]
  BY <1>2, <1>5 DEF Audio, NumPorts
<1>7. QED
  BY <1>2, <1>6 DEF n, Port

(* Where the audio ports are in the metadata.                              *)
LEMMA MetadataLayout ==
    ASSUME ports \in Plugins, aap_ports \in Metadata(ports), NEW p \in Lv2Ports, IsAudio(Port(p))
    PROVE  LET m == AudioBefore(ports, NumPorts)
           IN  /\ m \in Nat /\ m > 0 /\ FirstAudio \in {0, 2} /\ Len(aap_ports) = m + 2
               /\ \A a \in 0..(m - 1) :
                     /\ aap_ports[FirstAudio + a + 1] = Audio(ports)[a + 1]
                     /\ aap_ports[FirstAudio + a + 1].content = "audio"
               /\ \A a \in 0..(FirstAudio - 1) : aap_ports[a + 1].content # "audio"
<1> DEFINE m == AudioBefore(ports, NumPorts)
           audio == Audio(ports)
<1>1. m \in Nat /\ m > 0
  <2>1. NumPorts \in Nat /\ p \in Nat
    BY PortTypes
  <2>2. m \in Nat /\ AudioBefore(ports, p) \in Nat
    BY <2>1, AudioCount
  <2>3. AudioBefore(ports, p) + 1 \in 1..m
    BY AudioOfPort
  <2>4. QED
    BY <2>2, <2>3
<1> DEFINE D == {audio[k] : k \in 1..m} \cup {Midi[1], Midi[2]}
<1>2. /\ Len(audio) = m
      /\ \A k \in 1..m : audio[k].content = "audio"
      /\ audio \in Seq(D) /\ Midi \in Seq(D)
  <2>1. Len(audio) = m /\ \A k \in 1..m : audio[k].content = "audio"
    BY <1>1 DEF Audio, NumPorts
  <2>2. audio = [k \in 1..m |-> audio[k]]
    BY <1>1 DEF Audio, NumPorts
  <2>3. Midi = [k \in 1..2 |-> Midi[k]] /\ Midi \in Seq({Midi[1], Midi[2]})
    BY DEF Midi
  <2> HIDE DEF audio
  <2>4. audio \in Seq(D) /\ Midi \in Seq(D)
    BY <1>1, <2>2, <2>3
  <2>5. QED
    BY <2>1, <2>4
<1>3. Len(Midi) = 2 /\ Midi[1].content = "midi2" /\ Midi[2].content = "midi2"
  BY DEF Midi
<1> HIDE DEF audio, m, D
<1>4. CASE aap_ports = audio \o Midi
  <2>1. FirstAudio = 0
    BY <1>4 DEF FirstAudio, audio
  <2>2. Len(aap_ports) = m + 2 /\ \A k \in 1..m : aap_ports[k] = audio[k]
    <3>1. /\ Len(audio \o Midi) = Len(audio) + Len(Midi)
          /\ \A k \in 1..Len(audio) : (audio \o Midi)[k] = audio[k]
      BY <1>2, ConcatAt
    <3>2. QED
      BY <1>2, <1>3, <1>4, <3>1, Zenon
  <2>3. \A a \in 0..(m - 1) : 0 + a + 1 \in 1..m /\ 0 + a + 1 = a + 1
    BY <1>1
  <2>4. QED
    BY <1>1, <1>2, <2>1, <2>2, <2>3 DEF m, audio
<1>5. CASE aap_ports = Midi \o audio /\ aap_ports # audio \o Midi
  <2>1. FirstAudio = 2
    BY <1>5 DEF FirstAudio, audio
  <2>2. /\ Len(aap_ports) = m + 2 /\ \A k \in 1..m : aap_ports[2 + k] = audio[k]
        /\ aap_ports[1] = Midi[1] /\ aap_ports[2] = Midi[2]
    <3>1. /\ Len(Midi \o audio) = Len(Midi) + Len(audio)
          /\ \A k \in 1..Len(Midi) : (Midi \o audio)[k] = Midi[k]
          /\ \A k \in 1..Len(audio) : (Midi \o audio)[Len(Midi) + k] = audio[k]
      <4>1. audio \in Seq(D) /\ Midi \in Seq(D)
        BY <1>2
      <4>2. QED
        BY <4>1, ConcatAt
    <3>2. /\ Len(aap_ports) = 2 + m /\ \A k \in 1..2 : aap_ports[k] = Midi[k]
          /\ \A k \in 1..m : aap_ports[2 + k] = audio[k]
      BY <1>2, <1>3, <1>5, <3>1, Zenon
    <3>3. QED
      BY <1>1, <3>2
  <2>3. \A a \in 0..(m - 1) : a + 1 \in 1..m /\ 2 + a + 1 = 2 + (a + 1)
    BY <1>1
  <2>4. \A a \in 0..(2 - 1) : a + 1 = 1 \/ a + 1 = 2
    OBVIOUS
  <2>5. QED
    BY <1>1, <1>2, <1>3, <2>1, <2>2, <2>3, <2>4 DEF m, audio
<1>6. QED
  BY <1>4, <1>5 DEF Metadata, audio

(* The loop over the ports gives them out in that order.                   *)
LEMMA AudioMapKept ==
    ASSUME AudioMapInv, UNCHANGED <<ports, aap_ports, lv2_to_aap, aap_to_lv2, current_aap>>,
           Allocated' = Allocated, pc' # "params", pc' # "allocate"
    PROVE  AudioMapInv'
BY DEF AudioMapInv, FirstAudio, Described, Port, IsAudio, Oversized, Lv2Ports, NumPorts

LEMMA RegisterKeepsMap ==
    ASSUME PortInv, AudioMapInv, RegisterPort
    PROVE  AudioMapInv'
<1>1. Allocated' = {} /\ pc' \in {"params", "allocate"} /\ pc = "params"
      /\ UNCHANGED <<ports, aap_ports, current_aap>>
  BY RegisteredGrows DEF RegisterPort, audioVars
<1>2. pc' = "allocate" => next' = 0
  BY DEF RegisterPort, NextPort
<1>3. current_aap = 0 /\ current_aap \in 0..FirstAudio /\ AudioBefore(ports, 0) = 0
  BY <1>1, AudioCount DEF AudioMapInv, FirstAudio
<1>4. FirstAudio' = FirstAudio
  BY <1>1 DEF FirstAudio
<1>5. QED
  BY <1>1, <1>2, <1>3, <1>4 DEF AudioMapInv

LEMMA OthersKeepMap ==
    ASSUME PortInv, AudioMapInv, AllocateAtom \/ AllocateOversized \/ AllocateControl
    PROVE  AudioMapInv'
<1>1. /\ pc = "allocate" /\ NextPort("connect")
      /\ lv2_to_aap' = Put(lv2_to_aap, next, -1)
      /\ UNCHANGED <<ports, aap_ports, aap_to_lv2, current_aap>>
  BY DEF AllocateAtom, AllocateOversized, AllocateControl, AllocateAs, NoAapPort
<1>2. /\ Allocated' = Allocated \cup {next} /\ next \notin Allocated /\ Allocated \subseteq Lv2Ports
      /\ DOMAIN lv2_to_aap = Allocated /\ next \in Lv2Ports /\ next \in Nat
  BY <1>1, AllocatedGrows, PortTypes DEF PortInv, AudioInv
<1>3. /\ FirstAudio' = FirstAudio /\ (Described' <=> Described)
      /\ \A p : Port(p)' = Port(p)
  BY <1>1 DEF FirstAudio, Described, Port, IsAudio, Oversized, Lv2Ports, NumPorts
<1>4. Described => ~IsAudio(Port(next))
  BY <1>2 DEF Described, AllocateAtom, AllocateOversized, AllocateControl, IsAudio
<1>5. Described => AudioBefore(ports, next + 1) = AudioBefore(ports, next)
  BY <1>2, <1>4, AudioCount DEF Port
<1>6. pc' # "params" /\ (pc' = "allocate" => next' = next + 1)
  BY <1>1 DEF NextPort
<1>7. ASSUME Described, NEW p \in Allocated', IsAudio(Port(p))
      PROVE  LET a == FirstAudio + AudioBefore(ports, p)
             IN  lv2_to_aap'[p] = a /\ a \in DOMAIN aap_to_lv2 /\ aap_to_lv2[a] = p
  <2>1. p \in Allocated /\ p # next
    BY <1>2, <1>4, <1>7
  <2>2. lv2_to_aap'[p] = lv2_to_aap[p]
    BY <1>1, <1>2, <2>1 DEF Put
  <2>3. QED
    BY <1>7, <2>1, <2>2 DEF AudioMapInv
<1>8. QED
  BY <1>1, <1>3, <1>5, <1>6, <1>7 DEF AudioMapInv

LEMMA NextAudio ==
    ASSUME PortInv, AudioMapInv, Described, pc = "allocate", IsAudio(Port(next))
    PROVE  LET a == FirstAudio + AudioBefore(ports, next)
           IN  /\ a \in Nat /\ current_aap \in 0..a
               /\ AtOtherPort <=> current_aap # a
<1> DEFINE r == AudioBefore(ports, next)
           m == AudioBefore(ports, NumPorts)
           a == FirstAudio + r
<1>1. next \in Lv2Ports /\ ports \in Plugins /\ aap_ports \in Metadata(ports)
  BY DEF PortInv, AudioMapInv
<1>2. /\ m \in Nat /\ FirstAudio \in {0, 2} /\ Len(aap_ports) = m + 2
      /\ \A k \in 0..(m - 1) : aap_ports[FirstAudio + k + 1].content = "audio"
      /\ \A k \in 0..(FirstAudio - 1) : aap_ports[k + 1].content # "audio"
  BY <1>1, MetadataLayout
<1>3. r \in Nat /\ r + 1 \in 1..m
  <2>1. next \in Nat
    BY <1>1, PortTypes
  <2>2. QED
    BY <1>1, <2>1, AudioOfPort, AudioCount
<1>4. current_aap = a \/ (r = 0 /\ current_aap \in 0..FirstAudio)
  BY DEF AudioMapInv
<1> HIDE DEF r, m
<1>5. aap_ports[a + 1].content = "audio" /\ a < Len(aap_ports)
  <2>1. r \in 0..(m - 1) /\ a < Len(aap_ports)
    BY <1>2, <1>3
  <2>2. QED
    BY <1>2, <2>1
<1>6. CASE current_aap = a
  BY <1>2, <1>3, <1>5, <1>6 DEF AtOtherPort, r
<1>7. CASE current_aap # a
  <2>1. current_aap \in 0..(FirstAudio - 1) /\ current_aap < Len(aap_ports) /\ current_aap \in 0..a
    BY <1>2, <1>3, <1>4, <1>7
  <2>2. aap_ports[current_aap + 1].content # "audio"
    BY <1>2, <2>1
  <2>3. QED
    BY <1>2, <1>3, <1>7, <2>1, <2>2 DEF AtOtherPort, r
<1>8. QED
  BY <1>6, <1>7 DEF r

LEMMA AudioKeepsMap ==
    ASSUME PortInv, AudioMapInv, AllocateAudio
    PROVE  AudioMapInv'
<1>1. /\ pc = "allocate" /\ NextPort("connect") /\ TakesAapPort /\ ~AtOtherPort
      /\ lv2_to_aap' = Put(lv2_to_aap, next, current_aap)
      /\ aap_to_lv2' = Put(aap_to_lv2, current_aap, next)
      /\ current_aap' = current_aap + 1
      /\ UNCHANGED <<ports, aap_ports>>
  BY DEF AllocateAudio, AllocateAs
<1>2. /\ Allocated' = Allocated \cup {next} /\ next \notin Allocated
      /\ DOMAIN lv2_to_aap = Allocated /\ next \in Lv2Ports /\ next \in Nat
      /\ Allocated = 0..(next - 1)
  BY <1>1, AllocatedGrows, PortTypes DEF PortInv, AudioInv, Allocated
<1>3. /\ FirstAudio' = FirstAudio /\ (Described' <=> Described)
      /\ \A p : Port(p)' = Port(p)
  BY <1>1 DEF FirstAudio, Described, Port, IsAudio, Oversized, Lv2Ports, NumPorts
<1>4. pc' # "params" /\ (pc' = "allocate" => next' = next + 1)
  BY <1>1 DEF NextPort
<1>5. CASE ~Described
  BY <1>1, <1>3, <1>4, <1>5 DEF AudioMapInv
<1>6. CASE Described
  <2>1. IsAudio(Port(next))
    BY <1>1, <1>2, <1>6 DEF Described, TakesAapPort, IsAudio
  <2> DEFINE At(p) == FirstAudio + AudioBefore(ports, p)
  <2>2. current_aap = At(next) /\ current_aap \in Nat
    BY <1>1, <1>6, <2>1, NextAudio
  <2>3. AudioBefore(ports, next + 1) = AudioBefore(ports, next) + 1 /\ AudioBefore(ports, next) \in Nat
    BY <1>2, <2>1, AudioCount DEF Port
  <2>4. current_aap' = At(next + 1)
    <3>1. At(next + 1) = At(next) + 1
      BY <2>3 DEF FirstAudio
    <3>2. QED
      BY <1>1, <2>2, <3>1, Zenon
  <2>5. ASSUME NEW p \in Allocated, IsAudio(Port(p))
        PROVE  lv2_to_aap'[p] = At(p) /\ At(p) \in DOMAIN aap_to_lv2' /\ aap_to_lv2'[At(p)] = p
    <3>1. lv2_to_aap[p] = At(p) /\ At(p) \in DOMAIN aap_to_lv2 /\ aap_to_lv2[At(p)] = p
      BY <1>6, <2>5 DEF AudioMapInv
    <3>2. p # next /\ p \in Nat /\ p < next
      BY <1>2
    <3>3. AudioBefore(ports, p) < AudioBefore(ports, next) /\ AudioBefore(ports, p) \in Nat
      BY <1>2, <2>5, <3>2, AudioCount, AudioCountGrows DEF Port
    <3>4. At(p) # current_aap
      BY <2>2, <2>3, <3>3 DEF FirstAudio
    <3> HIDE DEF At
    <3>5. QED
      BY <1>1, <1>2, <3>1, <3>2, <3>4 DEF Put
  <2>6. lv2_to_aap'[next] = At(next) /\ At(next) \in DOMAIN aap_to_lv2' /\ aap_to_lv2'[At(next)] = next
    BY <1>1, <2>2 DEF Put
  <2>7. \A p \in Allocated' : IsAudio(Port(p)) =>
            lv2_to_aap'[p] = At(p) /\ At(p) \in DOMAIN aap_to_lv2' /\ aap_to_lv2'[At(p)] = p
    BY <1>2, <2>5, <2>6
  <2>8. QED
    BY <1>1, <1>3, <1>4, <2>4, <2>7 DEF AudioMapInv
<1>7. QED
  BY <1>5, <1>6

LEMMA SkipKeepsMap ==
    ASSUME PortInv, AudioMapInv, SkipAapPort
    PROVE  AudioMapInv'
<1>1. /\ pc = "allocate" /\ pc' = "allocate" /\ next' = next /\ TakesAapPort /\ AtOtherPort
      /\ current_aap' = current_aap + 1
      /\ UNCHANGED <<ports, aap_ports, lv2_to_aap, aap_to_lv2>>
  BY DEF SkipAapPort, TakesAapPort
<1>2. Allocated' = Allocated /\ FirstAudio' = FirstAudio /\ (Described' <=> Described)
      /\ \A p : Port(p)' = Port(p)
  BY <1>1 DEF Allocated, FirstAudio, Described, Port, IsAudio, Oversized, Lv2Ports, NumPorts
<1>3. ASSUME Described
      PROVE  AudioBefore(ports, next) = 0 /\ current_aap' \in 0..FirstAudio
  <2>1. IsAudio(Port(next)) /\ next \in Nat
    BY <1>1, <1>3, PortTypes DEF Described, TakesAapPort, IsAudio, PortInv
  <2> DEFINE r == AudioBefore(ports, next)
             f == FirstAudio
  <2>2. /\ f + r \in Nat /\ current_aap \in 0..(f + r) /\ current_aap # f + r
    BY <1>1, <1>3, <2>1, NextAudio
  <2>3. r = 0 /\ current_aap \in 0..f
    BY <1>1, <1>3, <2>2 DEF AudioMapInv
  <2>4. f \in Nat
    BY DEF FirstAudio
  <2> HIDE DEF r, f
  <2>5. r = 0 /\ current_aap' \in 0..f
    BY <1>1, <2>2, <2>3, <2>4
  <2>6. QED
    BY <2>5 DEF r, f
<1>4. QED
  BY <1>1, <1>2, <1>3 DEF AudioMapInv

LEMMA NextKeepsMap ==
    ASSUME PortInv, AudioMapInv, [Next]_vars
    PROVE  AudioMapInv'
<1>1. CASE RegisterPort
  BY <1>1, RegisterKeepsMap
<1>2. CASE AllocateAtom \/ AllocateOversized \/ AllocateControl
  BY <1>2, OthersKeepMap
<1>3. CASE AllocateAudio
  BY <1>3, AudioKeepsMap
<1>4. CASE SkipAapPort
  BY <1>4, SkipKeepsMap
<1>5. CASE ConnectPorts \/ (\E frames \in FrameCounts : Process(frames)) \/ Run
           \/ (\E m \in Messages : Message(m))
  <2>1. /\ UNCHANGED <<ports, aap_ports, lv2_to_aap, aap_to_lv2, current_aap>>
        /\ {pc, pc'} \subseteq {"connect", "ready", "midi"}
    BY <1>5 DEF ConnectPorts, Process, Run, Message, JRTimestamp, Ignored, ParameterChange,
       NoSequence, Event, EventOverflow, ReadMessage, audioVars
  <2>2. Allocated' = Allocated
    BY <2>1 DEF Allocated, Lv2Ports, NumPorts
  <2>3. QED
    BY <2>1, <2>2, AudioMapKept
<1>6. CASE UNCHANGED vars
  BY <1>6 DEF vars, portVars, audioVars, AudioMapInv, FirstAudio, Described, Port, IsAudio, Oversized,
     Lv2Ports, NumPorts, Allocated
<1>7. QED
  BY <1>1, <1>2, <1>3, <1>4, <1>5, <1>6 DEF Next, Prepare, PrepareStep

LEMMA AudioMapFollows ==
    ASSUME PortInv, AudioMapInv
    PROVE  AudioFollowsMetadata
<1> SUFFICES ASSUME Prepared, Described, NEW p \in Lv2Ports, IsAudio(Port(p))
             PROVE  LET a == lv2_to_aap[p]
                    IN  /\ a \in 0..(Len(aap_ports) - 1)
                        /\ aap_to_lv2[a] = p
                        /\ aap_ports[a + 1] = [content |-> "audio", dir |-> Port(p).dir]
                        /\ Cardinality({b \in 0..(a - 1) : aap_ports[b + 1].content = "audio"})
                              = Cardinality({q \in 0..(p - 1) : IsAudio(Port(q))})
  BY DEF AudioFollowsMetadata
<1> DEFINE r == AudioBefore(ports, p)
           m == AudioBefore(ports, NumPorts)
           f == FirstAudio
           a == f + r
<1>1. p \in Allocated
  BY DEF Prepared, Allocated
<1>2. lv2_to_aap[p] = a /\ aap_to_lv2[a] = p
  BY <1>1 DEF AudioMapInv
<1>3. /\ m \in Nat /\ f \in {0, 2} /\ Len(aap_ports) = m + 2
      /\ \A k \in 0..(m - 1) : /\ aap_ports[f + k + 1] = Audio(ports)[k + 1]
                               /\ aap_ports[f + k + 1].content = "audio"
      /\ \A k \in 0..(f - 1) : aap_ports[k + 1].content # "audio"
  BY MetadataLayout DEF PortInv, AudioMapInv
<1>4. r \in Nat /\ r + 1 \in 1..m /\ Audio(ports)[r + 1] = [content |-> "audio", dir |-> Port(p).dir]
  <2>1. p \in Nat
    BY PortTypes DEF PortInv
  <2>2. QED
    BY <2>1, AudioOfPort, AudioCount DEF PortInv
<1>5. Cardinality({q \in 0..(p - 1) : IsAudio(Port(q))}) = r
  BY DEF AudioBefore, Port
<1> HIDE DEF r, m, f
<1>6. {b \in 0..(a - 1) : aap_ports[b + 1].content = "audio"} = f..(a - 1)
  <2>1. ASSUME NEW b \in f..(a - 1)
        PROVE  b \in 0..(a - 1) /\ aap_ports[b + 1].content = "audio"
    <3>1. b - f \in 0..(m - 1) /\ f + (b - f) + 1 = b + 1 /\ b \in 0..(a - 1)
      BY <1>3, <1>4
    <3>2. QED
      BY <1>3, <3>1
  <2>2. ASSUME NEW b \in 0..(a - 1), b \notin f..(a - 1)
        PROVE  aap_ports[b + 1].content # "audio"
    <3>1. b \in 0..(f - 1)
      BY <1>3, <1>4, <2>2
    <3>2. QED
      BY <1>3, <3>1
  <2>3. QED
    BY <2>1, <2>2
<1>7. Cardinality(f..(a - 1)) = r
  <2>1. f \in Int /\ a - 1 \in Int /\ a = f + r /\ r \in Nat
    BY <1>3, <1>4
  <2>2. Cardinality(f..(a - 1)) = IF f > a - 1 THEN 0 ELSE (a - 1) - f + 1
    BY <2>1, FS_Interval
  <2>3. QED
    BY <2>1, <2>2
<1>8. a \in 0..(Len(aap_ports) - 1) /\ aap_ports[a + 1] = Audio(ports)[r + 1]
  <2>1. r \in 0..(m - 1) /\ a \in 0..(Len(aap_ports) - 1)
    BY <1>3, <1>4
  <2>2. QED
    BY <1>3, <2>1
<1>9. QED
  BY <1>2, <1>4, <1>5, <1>6, <1>7, <1>8

(* Each audio port of the plugin is given the audio port of the metadata   *)
(* that has as many before it, for every plugin that the metadata          *)
(* describe.                                                               *)
THEOREM AudioPorts == Spec => []AudioFollowsMetadata
<1>1. Init => AudioMapInv
  <2> SUFFICES ASSUME Init PROVE AudioMapInv
    OBVIOUS
  <2>1. Allocated = {}
    BY DEF Init, InitPorts, Allocated
  <2>2. QED
    BY <2>1 DEF Init, InitPorts, AudioMapInv
<1>2. PortInv /\ AudioMapInv /\ [Next]_vars => AudioMapInv'
  BY NextKeepsMap
<1>3. PortInv /\ AudioMapInv => AudioFollowsMetadata
  BY AudioMapFollows
<1>4. QED
  BY <1>1, <1>2, <1>3, PortInvariant, PTL DEF Spec

-----------------------------------------------------------------------------
(* The time stamps of a call add up, message by message.                   *)
Ticks(msg) == IF msg.type = "jr" THEN msg.ticks ELSE 0

LEMMA StampIs ==
    ASSUME NEW msgs
    PROVE  /\ Stamp(msgs)[0] = 0
           /\ \A n \in Nat : n > 0 => Stamp(msgs)[n] = Stamp(msgs)[n - 1] + Ticks(msgs[n])
<1> DEFINE x == [n \in Nat |-> Ticks(msgs[n])]
           IsStamp(f) == f = [n \in Nat |-> IF n = 0 THEN 0
               ELSE f[n - 1] + (IF msgs[n].type = "jr" THEN msgs[n].ticks ELSE 0)]
<1>1. PICK f : f = [n \in Nat |-> IF n = 0 THEN 0 ELSE f[n - 1] + x[n]]
  BY RunningSum
<1>2. IsStamp(f)
  <2>1. \A n \in Nat : x[n] = IF msgs[n].type = "jr" THEN msgs[n].ticks ELSE 0
    BY DEF Ticks
  <2> HIDE DEF x
  <2>2. QED
    BY <1>1, <2>1
<1>3. Stamp(msgs) = CHOOSE g : IsStamp(g)
  BY DEF Stamp
<1> HIDE DEF IsStamp
<1>4. IsStamp(Stamp(msgs))
  BY <1>2, <1>3
<1> DEFINE s == Stamp(msgs)
<1>5. s = [n \in Nat |-> IF n = 0 THEN 0 ELSE s[n - 1] + Ticks(msgs[n])]
  BY <1>4 DEF IsStamp, Ticks
<1> HIDE DEF s
<1>6. s[0] = 0 /\ \A n \in Nat : n > 0 => s[n] = s[n - 1] + Ticks(msgs[n])
  BY <1>5
<1>7. QED
  BY <1>6 DEF s

LEMMA StampsStay ==
    ASSUME NEW msgs \in Seq(Messages), NEW m \in Messages
    PROVE  \A n \in 0..Len(msgs) : Stamp(Append(msgs, m))[n] = Stamp(msgs)[n]
<1> DEFINE more == Append(msgs, m)
           S == {n \in 0..Len(msgs) : Stamp(more)[n] # Stamp(msgs)[n]}
<1>1. \A n \in 1..Len(msgs) : more[n] = msgs[n]
  BY AppendProperties
<1>2. SUFFICES ASSUME S # {}
               PROVE  FALSE
  OBVIOUS
<1> HIDE DEF more
<1> S \in SUBSET Nat
  OBVIOUS
<1>3. PICK n \in S : \A k \in S : n <= k
  BY <1>2, LeastNatural
<1>4. n # 0
  BY <1>3, StampIs
<1>5. n \in 1..Len(msgs) /\ n - 1 \in 0..Len(msgs) /\ n - 1 \notin S
  BY <1>3, <1>4
<1>6. Stamp(more)[n - 1] = Stamp(msgs)[n - 1]
  BY <1>5
<1>7. /\ Stamp(more)[n] = Stamp(more)[n - 1] + Ticks(more[n])
      /\ Stamp(msgs)[n] = Stamp(msgs)[n - 1] + Ticks(msgs[n])
  BY <1>5, StampIs
<1>8. QED
  BY <1>1, <1>3, <1>5, <1>6, <1>7

LEMMA StampGrows ==
    ASSUME NEW msgs \in Seq(Messages), NEW m \in Messages
    PROVE  Stamp(Append(msgs, m))[Len(msgs) + 1] = Stamp(msgs)[Len(msgs)] + Ticks(m)
<1> DEFINE more == Append(msgs, m)
           last == Len(msgs)
<1>1. last \in Nat /\ more[last + 1] = m
  BY AppendProperties
<1>2. Stamp(more)[last] = Stamp(msgs)[last]
  BY <1>1, StampsStay
<1>3. last + 1 \in Nat /\ last + 1 > 0 /\ (last + 1) - 1 = last
  BY <1>1
<1>4. Stamp(more)[last + 1] = Stamp(more)[(last + 1) - 1] + Ticks(more[last + 1])
  BY <1>3, StampIs
<1> HIDE DEF more, last
<1>5. Stamp(more)[last + 1] = Stamp(msgs)[last] + Ticks(m)
  BY <1>1, <1>2, <1>3, <1>4
<1>6. QED
  BY <1>5 DEF more, last

(* The messages that are events of a group, and their places among them.   *)
Its(msgs, last, group) == {n \in 1..last : msgs[n].type = "midi" /\ msgs[n].group = group}
Place(its, n) == Cardinality({k \in its : k <= n})

LEMMA ItsCount ==
    ASSUME NEW msgs, NEW last \in Nat, NEW group
    PROVE  /\ IsFiniteSet(Its(msgs, last, group))
           /\ Cardinality(Its(msgs, last, group)) \in Nat
           /\ \A n \in Its(msgs, last, group) :
                 Place(Its(msgs, last, group), n) \in 1..Cardinality(Its(msgs, last, group))
<1> DEFINE its == Its(msgs, last, group)
<1>1. IsFiniteSet(its) /\ Cardinality(its) \in Nat
  <2>1. its \in SUBSET (1..last) /\ IsFiniteSet(1..last)
    BY FS_Interval DEF Its
  <2>2. QED
    BY <2>1, FS_Subset, FS_CardinalityType
<1>2. ASSUME NEW n \in its
      PROVE  Place(its, n) \in 1..Cardinality(its)
  <2> DEFINE S == {k \in its : k <= n}
  <2>1. S \in SUBSET its /\ n \in S
    BY DEF Its
  <2> HIDE DEF its, S
  <2>2. IsFiniteSet(S) /\ Cardinality(S) <= Cardinality(its) /\ Cardinality(S) \in Nat
    BY <1>1, <2>1, FS_Subset, FS_CardinalityType
  <2>3. Cardinality(S) # 0
    BY <2>1, <2>2, FS_EmptySet
  <2>4. QED
    BY <1>1, <2>2, <2>3 DEF Place, S
<1>3. QED
  BY <1>1, <1>2

(* One more message: the events of its group are one more if it is one.    *)
LEMMA ItsGrow ==
    ASSUME NEW msgs \in Seq(Messages), NEW m \in Messages, NEW group
    PROVE  LET n == Len(msgs)
               its == Its(msgs, n, group)
           IN  /\ Its(Append(msgs, m), n, group) = its
               /\ Its(Append(msgs, m), n + 1, group)
                     = IF m.type = "midi" /\ m.group = group THEN its \cup {n + 1} ELSE its
<1> DEFINE n == Len(msgs)
           more == Append(msgs, m)
<1>1. n \in Nat /\ more[n + 1] = m /\ \A k \in 1..n : more[k] = msgs[k]
  BY AppendProperties
<1>2. \A k : k \in 1..(n + 1) <=> k \in 1..n \/ k = n + 1
  BY <1>1
<1> HIDE DEF n, more
<1>3. Its(more, n, group) = Its(msgs, n, group)
  BY <1>1 DEF Its
<1>4. Its(more, n + 1, group)
         = IF m.type = "midi" /\ m.group = group THEN Its(msgs, n, group) \cup {n + 1}
           ELSE Its(msgs, n, group)
  BY <1>1, <1>2 DEF Its
<1>5. QED
  BY <1>3, <1>4 DEF n, more

LEMMA PlacesStay ==
    ASSUME NEW its, NEW last \in Nat, IsFiniteSet(its), \A n \in its : n \in Nat /\ n < last
    PROVE  /\ Cardinality(its \cup {last}) = Cardinality(its) + 1
           /\ Place(its \cup {last}, last) = Cardinality(its) + 1
           /\ \A n \in its : Place(its \cup {last}, n) = Place(its, n)
<1> DEFINE more == its \cup {last}
<1>1. last \notin its
  OBVIOUS
<1>2. Cardinality(more) = Cardinality(its) + 1
  BY <1>1, FS_AddElement
<1>3. {k \in more : k <= last} = more
  OBVIOUS
<1>4. ASSUME NEW n \in its
      PROVE  {k \in more : k <= n} = {k \in its : k <= n}
  OBVIOUS
<1>5. QED
  BY <1>2, <1>3, <1>4 DEF Place

(* What EventsAsSent says of one sequence.                                 *)
TimeIn(frames, stamp) ==
    LET t == (stamp * SampleRate) \div TicksPerSecond
    IN  IF frames > 0 /\ t >= frames THEN frames - 1 ELSE t

AsSent(msgs, n, frames, whole) ==
    [msg |-> msgs[n], time |-> TimeIn(frames, Stamp(msgs)[n]), whole |-> whole]

InPlace(seq, msgs, last, group, frames) ==
    \A n \in Its(msgs, last, group) :
        seq[Place(Its(msgs, last, group), n)] = AsSent(msgs, n, frames, TRUE)

Matches(seq, msgs, last, group, frames) ==
    /\ Len(seq) = Cardinality(Its(msgs, last, group))
    /\ InPlace(seq, msgs, last, group, frames)

Torn(seq, msgs, last, group, frames) ==
    LET count == Cardinality(Its(msgs, last, group))
    IN  /\ Len(seq) = count + 1
        /\ InPlace(seq, msgs, last, group, frames)
        /\ msgs[Len(msgs)].group = group
        /\ seq[count + 1] = AsSent(msgs, Len(msgs), frames, FALSE)

AllMatch(ins, evs, msgs, last, frames, over) ==
    \A group \in 0..(Len(ins) - 1) :
        ins[group + 1] \in DOMAIN evs =>
            \/ Matches(evs[ins[group + 1]], msgs, last, group, frames)
            \/ over /\ Torn(evs[ins[group + 1]], msgs, last, group, frames)

LEMMA EventsAsSentIs ==
    /\ EventsAsSent <=> AllMatch(midi_ins, events, sent, Handled, frame_count, overflow)
    /\ EventsAsSent' <=> AllMatch(midi_ins', events', sent', Handled', frame_count', overflow')
BY DEF EventsAsSent, SentEvent, EventsOf, AllMatch, Matches, Torn, InPlace, AsSent, Its, Place,
       FrameTime, TimeIn

LEMMA MatchesMore ==
    ASSUME NEW msgs \in Seq(Messages), NEW m \in Messages, NEW group, NEW frames,
           NEW S, NEW seq \in Seq(S), NEW time,
           \A w \in BOOLEAN : [msg |-> m, time |-> time, whole |-> w] \in S,
           Matches(seq, msgs, Len(msgs), group, frames),
           Stamp(msgs)[Len(msgs)] \in Nat,
           m.type = "midi" => time = TimeIn(frames, Stamp(msgs)[Len(msgs)])
    PROVE  LET more == Append(msgs, m)
               last == Len(msgs)
           IN  /\ Matches(seq, more, last, group, frames)
               /\ ~(m.type = "midi" /\ m.group = group) => Matches(seq, more, last + 1, group, frames)
               /\ m.type = "midi" /\ m.group = group =>
                     /\ Matches(Append(seq, [msg |-> m, time |-> time, whole |-> TRUE]),
                                more, last + 1, group, frames)
                     /\ Torn(Append(seq, [msg |-> m, time |-> time, whole |-> FALSE]),
                             more, last, group, frames)
<1> DEFINE more == Append(msgs, m)
           last == Len(msgs)
           its == Its(msgs, last, group)
           e(w) == [msg |-> m, time |-> time, whole |-> w]
<1>1. last \in Nat /\ more[last + 1] = m /\ \A k \in 1..last : more[k] = msgs[k]
  BY AppendProperties
<1>2. \A n \in its : n \in 1..last /\ more[n] = msgs[n] /\ Stamp(more)[n] = Stamp(msgs)[n]
  <2>1. \A n \in 0..last : Stamp(more)[n] = Stamp(msgs)[n]
    BY StampsStay
  <2>2. \A n \in its : n \in 1..last /\ n \in 0..last
    BY <1>1 DEF Its
  <2>3. QED
    BY <1>1, <2>1, <2>2
<1>3. /\ Its(more, last, group) = its
      /\ Its(more, last + 1, group)
            = IF m.type = "midi" /\ m.group = group THEN its \cup {last + 1} ELSE its
  BY ItsGrow
<1>4. Len(seq) = Cardinality(its)
      /\ \A n \in its : seq[Place(its, n)] = AsSent(msgs, n, frames, TRUE)
  BY DEF Matches, InPlace
<1>5. \A n \in its : Place(its, n) \in 1..Cardinality(its)
  BY <1>1, ItsCount
<1>6. Stamp(more)[last + 1] = Stamp(msgs)[last] + Ticks(m)
  BY StampGrows
<1> DEFINE new == last + 1
<1>7. new \in Nat /\ IsFiniteSet(its) /\ \A n \in its : n \in Nat /\ n < new
  BY <1>1, <1>2, ItsCount
<1> HIDE DEF more, last, its, new
<1>8. /\ Cardinality(its \cup {new}) = Cardinality(its) + 1
      /\ Place(its \cup {new}, new) = Cardinality(its) + 1
      /\ \A n \in its : Place(its \cup {new}, n) = Place(its, n)
  BY <1>7, PlacesStay
<1> USE DEF new
<1>9. \A n \in its : AsSent(more, n, frames, TRUE) = AsSent(msgs, n, frames, TRUE)
  BY <1>2 DEF AsSent
<1>10. Matches(seq, more, last, group, frames)
  BY <1>3, <1>4, <1>9 DEF Matches, InPlace
<1>11. ASSUME ~(m.type = "midi" /\ m.group = group)
       PROVE  Matches(seq, more, last + 1, group, frames)
  BY <1>3, <1>4, <1>9, <1>11 DEF Matches, InPlace
<1>12. ASSUME m.type = "midi", m.group = group
       PROVE  /\ Matches(Append(seq, e(TRUE)), more, last + 1, group, frames)
              /\ Torn(Append(seq, e(FALSE)), more, last, group, frames)
  <2> DEFINE itsMore == its \cup {last + 1}
  <2>1. ASSUME NEW w \in BOOLEAN
        PROVE  /\ Len(Append(seq, e(w))) = Len(seq) + 1 /\ Append(seq, e(w))[Len(seq) + 1] = e(w)
               /\ \A k \in 1..Len(seq) : Append(seq, e(w))[k] = seq[k]
    BY AppendProperties
  <2>2. Stamp(more)[last + 1] = Stamp(msgs)[last]
    <3>1. Stamp(msgs)[last] \in Nat
      BY DEF last
    <3>2. QED
      BY <1>6, <1>12, <3>1 DEF Ticks
  <2>3. \A w \in BOOLEAN : e(w) = AsSent(more, last + 1, frames, w)
    BY <1>1, <1>12, <2>2 DEF last, AsSent
  <2> HIDE DEF e
  <2>4. Its(more, last + 1, group) = itsMore
    BY <1>3, <1>12
  <2>5. ASSUME NEW n \in itsMore
        PROVE  Append(seq, e(TRUE))[Place(itsMore, n)] = AsSent(more, n, frames, TRUE)
    <3>1. CASE n \in its
      BY <1>4, <1>5, <1>8, <1>9, <2>1, <3>1
    <3>2. CASE n = last + 1
      BY <1>4, <1>8, <2>1, <2>3, <3>2
    <3>3. QED
      BY <3>1, <3>2
  <2>6. Len(Append(seq, e(TRUE))) = Cardinality(itsMore)
    BY <1>4, <1>8, <2>1
  <2>7. Torn(Append(seq, e(FALSE)), more, last, group, frames)
    <3> DEFINE torn == Append(seq, e(FALSE))
    <3>1. /\ Len(torn) = Cardinality(its) + 1 /\ torn[Cardinality(its) + 1] = e(FALSE)
          /\ \A k \in 1..Cardinality(its) : torn[k] = seq[k]
      BY <1>4, <2>1
    <3>2. Len(more) = last + 1 /\ more[Len(more)].group = group
      BY <1>1, <1>12, AppendProperties DEF more, last
    <3>3. e(FALSE) = AsSent(more, Len(more), frames, FALSE)
      BY <2>3, <3>2
    <3> HIDE DEF torn
    <3>4. \A n \in its : torn[Place(its, n)] = AsSent(more, n, frames, TRUE)
      BY <1>4, <1>5, <1>9, <3>1
    <3>5. Torn(torn, more, last, group, frames)
      BY <1>3, <3>1, <3>2, <3>3, <3>4 DEF Torn, InPlace
    <3>6. QED
      BY <3>5 DEF torn
  <2> HIDE DEF itsMore
  <2>8. QED
    BY <2>4, <2>5, <2>6, <2>7 DEF Matches, InPlace
<1>13. QED
  BY <1>10, <1>11, <1>12 DEF more, last, e

-----------------------------------------------------------------------------
(* What any message does: it is added to those read, and the sequence is   *)
(* that of its group.                                                      *)
LEMMA ReadSent ==
    ASSUME PortInv, SentInv, NEW m \in Messages, ReadMessage(m)
    PROVE  /\ ~overflow /\ Handled = Len(sent) /\ Prepared /\ Prepared'
           /\ sent' = Append(sent, m) /\ sent' \in Seq(Messages) /\ sent' # << >>
           /\ Len(sent') = Len(sent) + 1 /\ Len(sent) \in Nat /\ sent'[Len(sent')] = m
           /\ prev_group' = m.group /\ atom_in' = GroupPort(m.group)
           /\ UNCHANGED <<midi_ins, frame_count>>
<1>1. /\ pc = "midi" /\ pc' = pc /\ ~overflow
      /\ sent' = Append(sent, m) /\ prev_group' = m.group
      /\ atom_in' = IF m.group # prev_group THEN GroupPort(m.group) ELSE atom_in
      /\ UNCHANGED <<midi_ins, frame_count>>
  BY DEF ReadMessage, atomVars
<1>2. sent \in Seq(Messages)
  BY DEF SentInv
<1>3. /\ sent' \in Seq(Messages) /\ sent' # << >>
      /\ Len(sent') = Len(sent) + 1 /\ Len(sent) \in Nat /\ sent'[Len(sent')] = m
  <2>1. Len(sent) \in Nat
    BY <1>2
  <2>2. /\ Append(sent, m) \in Seq(Messages) /\ Append(sent, m) # << >>
        /\ Len(Append(sent, m)) = Len(sent) + 1
        /\ Append(sent, m)[Len(sent) + 1] = m
    BY <1>2, AppendProperties
  <2>3. QED
    BY <1>1, <2>1, <2>2
<1>4. atom_in' = GroupPort(m.group)
  <2>1. m.group \in Nat
    BY MidiInAssumption
  <2>2. m.group = prev_group => atom_in = GroupPort(prev_group)
    BY <2>1 DEF SentInv
  <2>3. QED
    BY <1>1, <2>2
<1>5. QED
  BY <1>1, <1>3, <1>4 DEF Handled, Prepared

(* The sequence of a group after a message: of those that are none of its  *)
(* own it holds what it did, of its own one more, unless that has no room. *)
LEMMA MessageMatches ==
    ASSUME TimeInv, SentInv, NEW m \in Messages, ReadMessage(m),
           NEW group \in 0..(Len(midi_ins) - 1), midi_ins[group + 1] \in DOMAIN events
    PROVE  LET seq == events[midi_ins[group + 1]]
               more == Append(sent, m)
               last == Len(sent)
           IN  /\ Matches(seq, more, last, group, frame_count)
               /\ ~(m.type = "midi" /\ m.group = group) =>
                     Matches(seq, more, last + 1, group, frame_count)
               /\ m.type = "midi" /\ m.group = group =>
                     /\ Matches(Append(seq, EventOf(m, TRUE)), more, last + 1, group, frame_count)
                     /\ Torn(Append(seq, EventOf(m, FALSE)), more, last, group, frame_count)
<1> DEFINE S == [msg : Messages, time : Nat, whole : BOOLEAN]
           seq == events[midi_ins[group + 1]]
           time == FrameTime(jr)
<1>1. frame_count \in Nat /\ jr \in Nat /\ seq \in Seq(S)
  BY DEF TimeInv
<1>2. time \in Nat
  <2>1. jr <= jr
    BY <1>1
  <2>2. QED
    BY <1>1, <2>1, FrameTimeMonotone
<1>3. \A w \in BOOLEAN : [msg |-> m, time |-> time, whole |-> w] \in S
  BY <1>2
<1>4. sent \in Seq(Messages) /\ jr = Stamp(sent)[Len(sent)] /\ EventsAsSent
  BY DEF SentInv
<1>5. Handled = Len(sent)
  BY DEF Handled, ReadMessage
<1>6. Matches(seq, sent, Len(sent), group, frame_count)
  <2>1. AllMatch(midi_ins, events, sent, Handled, frame_count, overflow) /\ ~overflow
    BY <1>4, EventsAsSentIs DEF ReadMessage
  <2>2. QED
    BY <1>5, <2>1 DEF AllMatch
<1>7. time = TimeIn(frame_count, Stamp(sent)[Len(sent)])
  BY <1>4 DEF FrameTime, TimeIn
<1>8. Stamp(sent)[Len(sent)] \in Nat
  BY <1>1, <1>4
<1> HIDE DEF S, seq, time
<1>9. /\ Matches(seq, Append(sent, m), Len(sent), group, frame_count)
      /\ ~(m.type = "midi" /\ m.group = group) =>
            Matches(seq, Append(sent, m), Len(sent) + 1, group, frame_count)
      /\ m.type = "midi" /\ m.group = group =>
            /\ Matches(Append(seq, [msg |-> m, time |-> time, whole |-> TRUE]),
                       Append(sent, m), Len(sent) + 1, group, frame_count)
            /\ Torn(Append(seq, [msg |-> m, time |-> time, whole |-> FALSE]),
                    Append(sent, m), Len(sent), group, frame_count)
  BY <1>1, <1>3, <1>4, <1>6, <1>7, <1>8, MatchesMore
<1>10. QED
  BY <1>9 DEF seq, time, EventOf

(* So every sequence of the call still is as sent.                         *)
LEMMA MessageSends ==
    ASSUME PortInv, TimeInv, SentInv, NEW m \in Messages, Message(m)
    PROVE  EventsAsSent'
<1> DEFINE last == Len(sent)
           more == Append(sent, m)
<1>1. ReadMessage(m)
  BY DEF Message, JRTimestamp, Ignored, ParameterChange, NoSequence, Event, EventOverflow
<1>2. /\ ~overflow /\ sent' = more /\ Len(sent') = last + 1 /\ last \in Nat
      /\ atom_in' = GroupPort(m.group) /\ UNCHANGED <<midi_ins, frame_count>>
  BY <1>1, ReadSent
<1>3. m.group \in Nat /\ Len(midi_ins) \in Nat /\ \A g \in 1..Len(midi_ins) : midi_ins[g] \in Nat
  <2>1. midi_ins \in Seq(Nat)
    BY AllocatedAreNat, SeqOfMore DEF PortInv
  <2>2. QED
    BY <2>1, ElementOfSeq, MidiInAssumption
<1>4. atom_in' \in Int /\ (atom_in' >= 0 <=> m.group < Len(midi_ins))
  <2>1. m.group < Len(midi_ins) => m.group + 1 \in 1..Len(midi_ins)
    BY <1>3
  <2>2. QED
    BY <1>2, <1>3, <2>1 DEF GroupPort
<1>5. ASSUME NEW group \in 0..(Len(midi_ins) - 1), midi_ins[group + 1] \in DOMAIN events'
      PROVE  \/ Matches(events'[midi_ins[group + 1]], sent', Handled', group, frame_count)
             \/ overflow' /\ Torn(events'[midi_ins[group + 1]], sent', Handled', group, frame_count)
  <2> DEFINE p == midi_ins[group + 1]
             seq == events[p]
  <2>1. DOMAIN events' = DOMAIN events
    BY DEF Message, JRTimestamp, Ignored, ParameterChange, NoSequence, Event, EventOverflow,
           sequenceVars
  <2>2. /\ Matches(seq, more, last, group, frame_count)
        /\ ~(m.type = "midi" /\ m.group = group) =>
              Matches(seq, more, last + 1, group, frame_count)
        /\ m.type = "midi" /\ m.group = group =>
              /\ Matches(Append(seq, EventOf(m, TRUE)), more, last + 1, group, frame_count)
              /\ Torn(Append(seq, EventOf(m, FALSE)), more, last, group, frame_count)
    BY <1>1, <1>5, <2>1, MessageMatches
  <2>3. group \in Nat /\ group < Len(midi_ins)
    BY <1>3
  <2> HIDE DEF more, last
  <2>4. atom_in' >= 0 => (p = atom_in' <=> group = m.group)
    <3> SUFFICES ASSUME atom_in' >= 0 PROVE p = atom_in' <=> group = m.group
      OBVIOUS
    <3>1. m.group < Len(midi_ins) /\ atom_in' = midi_ins[m.group + 1]
      BY <1>2, <1>4 DEF GroupPort
    <3>2. group + 1 \in 1..Len(midi_ins) /\ m.group + 1 \in 1..Len(midi_ins)
      BY <1>3, <2>3, <3>1
    <3>3. p = atom_in' => group + 1 = m.group + 1
      BY <3>1, <3>2 DEF SentInv
    <3>4. QED
      BY <1>3, <2>3, <3>1, <3>3
  <2>5. CASE events' = events /\ overflow' = overflow /\ ~(m.type = "midi" /\ m.group = group)
    <3>1. Handled' = last + 1
      BY <1>2, <2>5 DEF Handled
    <3>2. QED
      BY <1>2, <2>2, <2>5, <3>1
  <2>6. CASE Event(m)
    <3>1. /\ atom_in' >= 0 /\ overflow' = overflow /\ m.type = "midi"
          /\ events' = [events EXCEPT ![atom_in'] = Append(@, EventOf(m, TRUE))]
      BY <2>6 DEF Event
    <3>2. Handled' = last + 1
      BY <1>2, <3>1 DEF Handled
    <3>3. CASE group = m.group
      <4>1. events'[p] = Append(seq, EventOf(m, TRUE))
        BY <1>5, <2>1, <2>4, <3>1, <3>3
      <4>2. QED
        BY <1>2, <2>2, <3>1, <3>2, <3>3, <4>1
    <3>4. CASE group # m.group
      <4>1. events'[p] = seq
        BY <1>5, <2>1, <2>4, <3>1, <3>4
      <4>2. QED
        BY <1>2, <2>2, <3>2, <3>4, <4>1
    <3>5. QED
      BY <3>3, <3>4
  <2>7. CASE EventOverflow(m)
    <3>1. /\ atom_in' >= 0 /\ overflow' /\ m.type = "midi"
          /\ \/ events' = events
             \/ events' = [events EXCEPT ![atom_in'] = Append(@, EventOf(m, FALSE))]
      BY <2>7 DEF EventOverflow
    <3>2. Handled' = last
      BY <1>2, <3>1 DEF Handled
    <3>3. CASE events' = events
      BY <1>2, <2>2, <3>2, <3>3
    <3>4. CASE group = m.group /\ events' # events
      <4>1. events'[p] = Append(seq, EventOf(m, FALSE))
        BY <1>5, <2>1, <2>4, <3>1, <3>4
      <4>2. QED
        BY <1>2, <2>2, <3>1, <3>2, <3>4, <4>1
    <3>5. CASE group # m.group /\ events' # events
      <4>1. events'[p] = seq
        BY <1>5, <2>1, <2>4, <3>1, <3>5
      <4>2. QED
        BY <1>2, <2>2, <3>2, <4>1
    <3>6. QED
      BY <3>3, <3>4, <3>5
  <2>8. CASE NoSequence(m)
    <3>1. events' = events /\ overflow' = overflow /\ atom_in' < 0
      BY <2>8 DEF NoSequence, sequenceVars
    <3>2. m.group # group
      BY <1>4, <2>3, <3>1
    <3>3. QED
      BY <2>5, <3>1, <3>2
  <2>9. CASE JRTimestamp(m) \/ Ignored(m) \/ ParameterChange(m)
    BY <2>9, <2>5 DEF JRTimestamp, Ignored, ParameterChange, sequenceVars
  <2>10. QED
    BY <2>6, <2>7, <2>8, <2>9 DEF Message
<1>6. AllMatch(midi_ins', events', sent', Handled', frame_count', overflow')
  BY <1>2, <1>5 DEF AllMatch
<1>7. QED
  BY <1>6, EventsAsSentIs

LEMMA MessageKeepsSent ==
    ASSUME PortInv, TimeInv, SentInv, NEW m \in Messages, Message(m)
    PROVE  SentInv'
<1>1. ReadMessage(m)
  BY DEF Message, JRTimestamp, Ignored, ParameterChange, NoSequence, Event, EventOverflow
<1>2. /\ Prepared' /\ sent' = Append(sent, m) /\ sent' \in Seq(Messages) /\ sent' # << >>
      /\ Len(sent') = Len(sent) + 1 /\ Len(sent) \in Nat /\ sent'[Len(sent')] = m
      /\ prev_group' = m.group /\ atom_in' = GroupPort(m.group)
      /\ UNCHANGED <<midi_ins, frame_count>>
  BY <1>1, ReadSent
<1>3. jr' = Stamp(sent')[Len(sent')]
  <2>1. jr' = jr + Ticks(m)
    <3>1. jr \in Nat
      BY DEF TimeInv
    <3>2. CASE JRTimestamp(m)
      BY <3>2 DEF JRTimestamp, Ticks
    <3>3. CASE ~JRTimestamp(m)
      <4>1. jr' = jr /\ m.type # "jr"
        BY <3>3 DEF Message, Ignored, ParameterChange, NoSequence, Event, EventOverflow
      <4>2. QED
        BY <3>1, <4>1 DEF Ticks
    <3>4. QED
      BY <3>2, <3>3
  <2>2. Stamp(Append(sent, m))[Len(sent) + 1] = Stamp(sent)[Len(sent)] + Ticks(m)
    BY StampGrows DEF SentInv
  <2>3. QED
    BY <1>2, <2>1, <2>2 DEF SentInv
<1>4. GroupPort(m.group)' = GroupPort(m.group')
  BY <1>2 DEF GroupPort
<1>5. atom_in' = GroupPort(prev_group)'
  BY <1>2 DEF GroupPort
<1>6. \A g, h \in 1..Len(midi_ins') : midi_ins'[g] = midi_ins'[h] => g = h
  BY <1>2 DEF SentInv
<1>7. EventsAsSent'
  BY MessageSends
<1>8. QED
  BY <1>2, <1>3, <1>5, <1>6, <1>7 DEF SentInv

(* A call begins with empty sequences, and nothing has been read.          *)
LEMMA EmptyMatches ==
    ASSUME NEW group, NEW frames, NEW msgs
    PROVE  Matches(<< >>, msgs, 0, group, frames)
<1>1. Its(msgs, 0, group) = {}
  BY DEF Its
<1>2. QED
  BY <1>1, FS_EmptySet DEF Matches, InPlace

LEMMA ProcessKeepsSent ==
    ASSUME SentInv, NEW frames \in FrameCounts, Process(frames)
    PROVE  SentInv'
<1>1. /\ Prepared' /\ jr' = 0 /\ prev_group' = -1 /\ overflow' = FALSE /\ sent' = << >>
      /\ UNCHANGED midi_ins
      /\ \A p \in DOMAIN events' : events'[p] = << >>
  BY DEF Process, Prepared, atomVars
<1>2. sent' \in Seq(Messages) /\ Len(sent') = 0 /\ Handled' = 0
  BY <1>1 DEF Handled
<1>3. jr' = Stamp(sent')[Len(sent')]
  BY <1>1, <1>2, StampIs
<1>4. EventsAsSent'
  <2>1. AllMatch(midi_ins', events', sent', Handled', frame_count', overflow')
    BY <1>1, <1>2, EmptyMatches DEF AllMatch
  <2>2. QED
    BY <2>1, EventsAsSentIs
<1>5. QED
  BY <1>1, <1>2, <1>3, <1>4 DEF SentInv

(* While the ports are prepared there are no sequences yet, and each port  *)
(* is given one group.                                                     *)
LEMMA PrepareKeepsSent ==
    ASSUME PortInv, TypeInv, SentInv, Prepare
    PROVE  SentInv'
<1>1. ~Prepared /\ UNCHANGED midiVars
  BY DEF Prepare, PrepareStep, Prepared, RegisterPort, AllocateAtom, AllocateOversized,
         AllocateControl, SkipAapPort, AllocateAudio, ConnectPorts, AllocateAs, TakesAapPort
<1>2. sent = << >> /\ prev_group = -1 /\ DOMAIN events = {} /\ ~overflow
  BY <1>1 DEF SentInv, TypeInv, MidiTypeOK
<1>3. UNCHANGED <<sent, prev_group, events, overflow, jr>>
  BY <1>1 DEF midiVars, sequenceVars
<1>4. \A g, h \in 1..Len(midi_ins') : midi_ins'[g] = midi_ins'[h] => g = h
  <2>1. CASE midi_ins' = midi_ins
    BY <2>1 DEF SentInv
  <2>2. CASE midi_ins' # midi_ins
    <3>1. AllocateAtom /\ midi_ins' = Append(midi_ins, next)
      BY <2>2 DEF Prepare, PrepareStep, RegisterPort, AllocateAtom, AllocateOversized,
           AllocateControl, SkipAapPort, AllocateAudio, ConnectPorts, AllocateAs, atomVars
    <3>2. next \notin Allocated
      BY <3>1, AllocatedGrows DEF AllocateAtom, AllocateAs
    <3>3. midi_ins \in Seq(Allocated) /\ midi_ins \in Seq(Allocated \cup {next})
      BY SeqOfMore DEF PortInv
    <3>4. \A g \in 1..Len(midi_ins) : midi_ins[g] \in Allocated
      BY <3>3, ElementOfSeq
    <3> DEFINE n == Len(midi_ins)
    <3>5. /\ n \in Nat /\ Len(midi_ins') = n + 1 /\ midi_ins'[n + 1] = next
          /\ \A g \in 1..n : midi_ins'[g] = midi_ins[g]
      BY <3>1, <3>3, AppendProperties
    <3>6. \A g, h \in 1..n : midi_ins[g] = midi_ins[h] => g = h
      BY DEF SentInv
    <3> HIDE DEF n
    <3>7. \A g : g \in 1..(n + 1) <=> g \in 1..n \/ g = n + 1
      BY <3>5
    <3>8. \A g \in 1..n : midi_ins'[g] # next
      BY <3>2, <3>4, <3>5 DEF n
    <3>9. QED
      BY <3>5, <3>6, <3>7, <3>8
  <2>3. QED
    BY <2>1, <2>2
<1>5. EventsAsSent'
  BY <1>2, <1>3 DEF EventsAsSent
<1>6. QED
  BY <1>2, <1>3, <1>4, <1>5 DEF SentInv

LEMMA RestKeepsSent ==
    ASSUME SentInv,
           UNCHANGED <<midi_ins, sent, jr, prev_group, atom_in, overflow, events, frame_count>>,
           Prepared' = Prepared
    PROVE  SentInv'
<1>1. EventsAsSent'
  <2>1. AllMatch(midi_ins, events, sent, Handled, frame_count, overflow)
    BY EventsAsSentIs DEF SentInv
  <2>2. AllMatch(midi_ins', events', sent', Handled', frame_count', overflow')
    BY <2>1 DEF Handled
  <2>3. QED
    BY <2>2, EventsAsSentIs
<1>2. GroupPort(prev_group)' = GroupPort(prev_group)
  BY DEF GroupPort
<1>3. QED
  BY <1>1, <1>2 DEF SentInv

LEMMA NextKeepsSent ==
    ASSUME PortInv, TypeInv, TimeInv, SentInv, [Next]_vars
    PROVE  SentInv'
<1>1. CASE Prepare
  BY <1>1, PrepareKeepsSent
<1>2. ASSUME NEW frames \in FrameCounts, Process(frames) PROVE SentInv'
  BY <1>2, ProcessKeepsSent
<1>3. ASSUME NEW m \in Messages, Message(m) PROVE SentInv'
  BY <1>3, MessageKeepsSent
<1>4. CASE Run
  BY <1>4, RestKeepsSent DEF Run, Prepared, atomVars, midiVars, sequenceVars
<1>5. CASE UNCHANGED vars
  BY <1>5, RestKeepsSent DEF vars, portVars, Prepared, atomVars, midiVars, sequenceVars
<1>6. QED
  BY <1>1, <1>2, <1>3, <1>4, <1>5 DEF Next

LEMMA InitSent == Init => SentInv
<1> SUFFICES ASSUME Init PROVE SentInv
  OBVIOUS
<1>1. /\ sent = << >> /\ midi_ins = << >> /\ jr = 0 /\ prev_group = -1 /\ ~overflow
  BY DEF Init, InitPorts
<1>2. Len(sent) = 0 /\ Len(midi_ins) = 0 /\ sent \in Seq(Messages)
  BY <1>1
<1>3. jr = Stamp(sent)[Len(sent)]
  BY <1>1, <1>2, StampIs
<1>4. EventsAsSent /\ \A g, h \in 1..Len(midi_ins) : midi_ins[g] = midi_ins[h] => g = h
  BY <1>2 DEF EventsAsSent
<1>5. QED
  BY <1>1, <1>2, <1>3, <1>4 DEF SentInv

(* Each sequence holds the events of its UMP group, all of them, whole, up *)
(* to the one that had no room, in the order and at the times the host has *)
(* sent them, and behind them at most what that one has left there; for    *)
(* every plugin, message, sample rate, and buffer size.                    *)
THEOREM EventsSent == Spec => []EventsAsSent
<1>1. Init => TypeInv /\ TimeInv /\ SentInv
  BY InitTypes, InitTimeInv, InitSent
<1>2. PortInv /\ TypeInv /\ TimeInv /\ SentInv /\ [Next]_vars => TypeInv' /\ TimeInv' /\ SentInv'
  BY NextKeepsTypes, NextKeepsTime, NextKeepsSent
<1>3. SentInv => EventsAsSent
  BY DEF SentInv
<1>4. QED
  BY <1>1, <1>2, <1>3, PortInvariant, PTL DEF Spec
=============================================================================
