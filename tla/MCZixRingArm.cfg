CONSTANTS
    Size = 4
    MaxBytes = 9
    LoadsInOrder = FALSE
SPECIFICATION Spec
INVARIANT
    CopiesNextBytes
