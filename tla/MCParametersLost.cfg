CONSTANTS
    N = 2
    Outputs = {2}
    Capacities = {0, 1, 2}
    Values = {0, 1}
    NaN = NaN
    MaxChanges = 3
    MaxRestores = 1
SPECIFICATION Spec
INVARIANTS
    OnlyMidiIsDropped
