CONSTANTS
    Requests <- MCRequests
    MaxCalls <- MCMaxCalls
SPECIFICATION Spec
INVARIANTS
    TypeOK
    CallsReachServerInOrder
PROPERTIES
    CallsReachServer
CHECK_DEADLOCK FALSE
