CONSTANTS
    Requests <- MCRequests
    MaxRequests <- MCMaxRequests
    WriteCap <- MCWriteCap
SPECIFICATION Spec
INVARIANTS
    TypeOK
    ServesLatestRequest
CHECK_DEADLOCK FALSE
