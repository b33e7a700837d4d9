CONSTANTS
    m1 = m1  Nobody = Nobody
    NThread = 2
    Masters = {m1}
    Fanout = 1
    MaxChanges = 5
    MaxDemand = 2
SPECIFICATION FairSpec
INVARIANTS IInv ServerAlive
PROPERTIES DemandMet CloseCompletes
CHECK_DEADLOCK FALSE
