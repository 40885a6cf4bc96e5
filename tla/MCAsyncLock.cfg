CONSTANTS
    Callers = {c1, c2, c3}
    NoCaller = NoCaller
    HasALS = TRUE
    Detaches = TRUE
    MaxGeneration = 6
SPECIFICATION FairSpec
INVARIANT NoLostWakeup
PROPERTIES ImplementsFifoMutex WaitersSettle
CHECK_DEADLOCK FALSE
