CONSTANTS
    Sports <- MCSports
    Scores <- MCScores
    Requests <- MCRequests
    None = None
SPECIFICATION Spec
INVARIANT NoCallbackOnFreedCache
