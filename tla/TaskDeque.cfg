\* An owner and two thieves; three tasks, the second of which is mailed.
CONSTANTS
    w1 = w1  w2 = w2 
    Owner = Owner
    Workers = {w1, w2}
    NumTasks = 3
    Affinity <- MCAffinity
    MinPoolSize = 2
    NULL = NULL
SPECIFICATION FairSpec
INVARIANTS Bookkeeping SourceAssertions
PROPERTIES RefinesTaskPool TasksRun
\* The deque is empty and the workers have left when all tasks have been run.
CHECK_DEADLOCK FALSE
