\* Three threads that acquire, try and release, and may come back for ever.
CONSTANTS
    t1 = t1  t2 = t2  t3 = t3
    Threads = {t1, t2, t3}
    NULL = NULL
SPECIFICATION FairSpec
INVARIANTS IInv NodesAlive
PROPERTIES RefinesFairMutex NoStarvation
