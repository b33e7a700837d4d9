CONSTANTS
    m1 = m1  Nobody = Nobody
    NThread = 2
    Masters = {m1}
    Fanout = 1
    MaxChanges = 5
    MaxDemand = 2
SPECIFICATION Spec
INVARIANTS ListedSleep
CHECK_DEADLOCK FALSE
