\* Up to two requests at once; the process really ends.
CONSTANTS
    MaxRequests = 2
SPECIFICATION FairShutdownSpec
INVARIANTS ShutdownInv NothingCutShort FailureIsReported
PROPERTIES ExitsAfterSignal
CHECK_DEADLOCK FALSE
