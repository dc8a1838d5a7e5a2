CONSTANTS
    Requests <- MCRequests
    MaxCalls <- MCMaxCalls
SPECIFICATION Spec
PROPERTY DestroyCompletes
CHECK_DEADLOCK FALSE
