SPECIFICATION Spec
CONSTANTS
    Addresses = {a1, a2}
    MaxBlocks = 4
    NumPresets = 1
    ControlInputs = {1, 3}
    NumAapPorts = 3
    NULL = NULL
INVARIANTS
    EndRunFollowsRun
\* The host may never call again, and a crashed call does not return.
CHECK_DEADLOCK FALSE
