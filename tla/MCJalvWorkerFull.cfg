CONSTANTS
    RequestSpace = 3
    ResponseSpace = 4
    RequestSizes = {1, 2}
    ResponseSizes = {1}
    Modulus = 5
    MaxRequests = 2
    MaxResponses = 1
    MaxRestores = 1
SPECIFICATION Spec
INVARIANTS
    WorkedInOrder
