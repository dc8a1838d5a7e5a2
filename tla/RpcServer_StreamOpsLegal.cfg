CONSTANTS
    Requests <- MCRequests
    MaxRequests <- MCMaxRequests
    WriteCap <- MCWriteCap
SPECIFICATION Spec
INVARIANT StreamOpsLegal
CHECK_DEADLOCK FALSE
