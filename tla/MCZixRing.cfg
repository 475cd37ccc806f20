CONSTANTS
    Size = 4
    MaxBytes = 9
    LoadsInOrder = TRUE
SPECIFICATION Spec
INVARIANTS
    TypeOK
    RingInv
    HeadsCountTheBytes
    NoDataRace
    CopiesNextBytes
PROPERTIES
    ImplementsFifo

