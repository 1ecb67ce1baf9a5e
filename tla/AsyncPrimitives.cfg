SPECIFICATION AsyncFairSpec
CONSTANTS
    Tasks = {t1, t2, t3}
    Signalers = {s1, s2, s3}
    InitialCount = 2
    Null = Null
PROPERTIES EveryTaskServed ImplementsFifoMutex
