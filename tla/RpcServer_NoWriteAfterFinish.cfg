CONSTANTS
    Requests <- MCRequests
    MaxRequests <- MCMaxRequests
    WriteCap <- MCWriteCap
SPECIFICATION Spec
INVARIANT NoWriteAfterFinish
CHECK_DEADLOCK FALSE
