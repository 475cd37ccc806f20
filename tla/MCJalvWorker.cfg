CONSTANTS
    RequestSpace = 3
    ResponseSpace = 3
    RequestSizes = {0, 2}
    ResponseSizes = {1}
    Modulus = 4
    MaxRequests = 2
    MaxResponses = 1
    MaxRestores = 1
SPECIFICATION Spec
INVARIANTS
    TypeOK
    WorkExclusive
    RingsAlive
    ThreadsInv
PROPERTIES
    DeleteCompletes
