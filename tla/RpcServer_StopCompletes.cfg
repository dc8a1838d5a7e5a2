CONSTANTS
    Requests <- MCRequests
    MaxRequests <- MCMaxRequests
    WriteCap <- MCWriteCap
SPECIFICATION Spec
PROPERTY StopCompletes
CHECK_DEADLOCK FALSE
