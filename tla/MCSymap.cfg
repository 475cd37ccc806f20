SPECIFICATION Spec
CONSTANTS
    Threads = {t1, t2}
    Strings = {11, 12, 13, 14}
    NULL = NULL
INVARIANTS
    TypeOK
    SymapInv
PROPERTIES
    ImplementsInterner
    LockIsReturned
CHECK_DEADLOCK TRUE
