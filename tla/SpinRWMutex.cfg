\* Three threads that all read, write, try, upgrade and downgrade; or one writer
\* among readers that may come back for ever, all of which use lock, lock_read
\* and unlock, and none of which upgrades.
CONSTANTS
    t1 = t1  t2 = t2  t3 = t3  w = w  r1 = r1  r2 = r2
    Threads = {t1, t2, t3, w, r1, r2}
    Writers = {t1, t2, t3, w}
    Upgraders = {t1, t2, t3}
    Unlockers = {w, r1, r2}
    Populations = {{t1, t2, t3}, {w, r1, r2}}
SPECIFICATION FairSpec
INVARIANTS IInv SourceAssertions
PROPERTIES RefinesRWLock UpgradeCompletes WriterPreference
