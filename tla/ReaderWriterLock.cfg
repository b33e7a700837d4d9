\* Three threads that all lock, try and unlock in both modes.
CONSTANTS
    t1 = t1  t2 = t2  t3 = t3
    Threads = {t1, t2, t3}
    Writers = {t1, t2, t3}
    Readers = {t1, t2, t3}
    Triers = {t1, t2, t3}
    NULL = NULL
SPECIFICATION FairSpec
INVARIANTS Bookkeeping SourceAssertions CleanWhenIdle
PROPERTIES RefinesRWLock WritersGetIn
