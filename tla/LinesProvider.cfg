CONSTANTS
    Sports <- MCSports
    Scores <- MCScores
    Requests <- MCRequests
    None = None
SPECIFICATION Spec
INVARIANTS
    TypeOK
    DeltasTelescope
PROPERTIES
    ShutdownCompletes
