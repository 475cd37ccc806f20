------------------------------ MODULE MCMidiIn ------------------------------
(***************************************************************************)
(* Every plugin of up to three ports of the kinds below, and for some of   *)
(* them the messages of two process() calls.                               *)
(***************************************************************************)
EXTENDS MidiIn

MCPort(kind, dir) ==
    [kind |-> kind, dir |-> dir, event |-> "none", rsz |-> 0, points |-> << >>, toggled |-> FALSE]
MCAtom(dir, event) == [MCPort("atom", dir) EXCEPT !.event = event]

MCMidiPort == MCAtom("in", "midi")
MCShortMidiPort == [MCMidiPort EXCEPT !.rsz = 7]
MCPatchPort == MCAtom("in", "patch")
MCControl == MCPort("control", "in")
MCChoice == [MCControl EXCEPT !.points = <<5, 6>>]
MCOversized == [MCControl EXCEPT !.rsz = 3]
MCAudio == MCPort("audio", "in")

MCKinds ==
    {MCAudio, MCPort("audio", "out"), [MCAudio EXCEPT !.rsz = 3], MCPort("cv", "in"),
     MCControl, MCPort("control", "out"), MCChoice, [MCControl EXCEPT !.toggled = TRUE],
     MCOversized,
     MCMidiPort, MCShortMidiPort, MCAtom("out", "midi"), MCPatchPort, MCAtom("out", "patch")}

MCPlayed ==
    {<<MCShortMidiPort, MCMidiPort, MCControl>>, <<MCControl, MCMidiPort, MCChoice>>,
     <<MCMidiPort, MCPatchPort, MCControl>>, <<MCControl, MCMidiPort, MCOversized>>,
     <<MCMidiPort, MCPatchPort, MCOversized>>}

MCPlugins == UNION {[1..n -> MCKinds] : n \in 1..3}

MCMessage(type, group) == [type |-> type, group |-> group]
MCEvent(group, size) == [type |-> "midi", group |-> group, size |-> size]
MCChange(id, value) == [type |-> "param", group |-> 0, id |-> id, value |-> value]
MCMessages ==
    {[type |-> "jr", group |-> 0, ticks |-> t] : t \in {1, 2}}
        \cup {MCEvent(0, 1), MCEvent(0, 2), MCEvent(0, 3), MCEvent(1, 2), MCEvent(2, 1)}
        \cup {MCMessage("other", 1)}
        \cup {MCChange(0, 3), MCChange(2, 3), MCChange(2, 4), MCChange(9, 3)}
=============================================================================
