CONSTANTS
    Threads <- MCThreads
    Capacity <- MCCapacity
    Attempts <- MCAttempts
    NoConn = NoConn
SPECIFICATION Spec
INVARIANTS
    TypeOK
    LeaseExclusive
PROPERTIES
    OperationCompletes
