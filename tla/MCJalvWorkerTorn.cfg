CONSTANTS
    RequestSpace = 6
    ResponseSpace = 4
    RequestSizes = {1, 2}
    ResponseSizes = {1}
    Modulus = 5
    MaxRequests = 2
    MaxResponses = 1
    MaxRestores = 0
SPECIFICATION Spec
INVARIANTS
    ResponsesAreWhole
