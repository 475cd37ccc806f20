SPECIFICATION Spec
CONSTANTS
    Plugins <- MCPlugins
    Played <- MCPlayed
    Messages <- MCMessages
    NumFrames = 4
    Default = 1
    FrameCounts = {0, 3, 6}
    AtomUnits = 16
    SampleRate = 3
    TicksPerSecond = 2
    MaxMessages = 4
    MaxCycles = 2
INVARIANTS
    TypeOK
    AudioFollowsMetadata
    PortsDoNotShare
    EnumerationsAreOwn
    EventsInTime
    EventsAsSent
    OnlyNamedPort
\* A plugin that is not played stops when it is prepared, the others at the bounds.
CHECK_DEADLOCK FALSE
