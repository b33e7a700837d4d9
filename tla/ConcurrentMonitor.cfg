\* Two waiting threads and two notifiers that use every call.
CONSTANTS
    w1 = w1  w2 = w2  n1 = n1  n2 = n2
    Waiters = {w1, w2}
    Selectors = {n1}
    Broadcasters = {n2}
SPECIFICATION FairSpec
INVARIANTS IInv NoLostWakeup
PROPERTIES RefinesEventCount ReadyReturns
