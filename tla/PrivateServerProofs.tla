------------------------ MODULE PrivateServerProofs ------------------------
EXTENDS PrivateServer, FiniteSetTheorems, SequenceTheorems, TLAPS

LEMMA Sets ==
    /\ Threads = Workers \cup Masters /\ Workers \cap Masters = {}
    /\ Nobody \notin Threads
BY ServerAssumption DEF Threads, Workers

LEMMA WorkersAreNat == \A w \in Workers : w \in Nat \ {0} /\ w <= NThread
BY ServerAssumption DEF Workers

TypePc ==
    /\ pc \in [Threads -> WorkerLocs \cup ServerLocs \cup {"rest"}]
    /\ ret \in [Threads -> {"loop", "process", "rest"}]

AddRange == (-MaxDemand)..MaxDemand
TypeAdd == add \in [Threads -> AddRange]

TypeNumbers ==
    /\ my_slack \in Int
    /\ TypeAdd
    /\ shut \in 0..(NThread + 1)
    /\ demand \in 0..MaxDemand /\ changes \in 0..MaxChanges

TypeRest ==
    /\ my_state \in [Workers -> {"init", "starting", "normal", "quit"}]
    /\ root \in Workers \cup {Nobody}
    /\ my_next \in [Workers -> Workers \cup {Nobody}]
    /\ mutex \in Threads \cup {Nobody} /\ late \in BOOLEAN
    /\ handle \in [Workers -> {"none", "set", "released"}]
    /\ joins \in BOOLEAN /\ alive \in BOOLEAN

TypeMonitor == fresh \cup in_wait \cup spurious \cup sema \subseteq Workers
TypeWakee == wakee \in [Threads -> Seq(Workers)]

LEMMA LastIsWorker ==
    ASSUME TypeWakee, NEW t \in Threads, wakee[t] # <<>>
    PROVE  LastTaken(t) \in Workers /\ Len(wakee[t]) \in Nat \ {0}
<1>1. wakee[t] \in Seq(Workers)
    BY DEF TypeWakee
<1> QED BY <1>1 DEF LastTaken

LEMMA WorkerCount ==
    ASSUME NEW S \in SUBSET Workers
    PROVE  IsFiniteSet(S) /\ Cardinality(S) \in 0..NThread
<1>1. IsFiniteSet(Workers) /\ Cardinality(Workers) = NThread
    BY FS_Interval, ServerAssumption DEF Workers
<1>2. IsFiniteSet(S) /\ Cardinality(S) <= Cardinality(Workers)
    BY <1>1, FS_Subset
<1> QED BY <1>1, <1>2, FS_CardinalityType

LEMMA ShorterSeq ==
    ASSUME NEW S, NEW s \in Seq(S), s # <<>>
    PROVE  /\ Len(s) \in Nat \ {0} /\ SubSeq(s, 1, Len(s) - 1) \in Seq(S)
           /\ Len(SubSeq(s, 1, Len(s) - 1)) = Len(s) - 1
           /\ \A i \in 1..(Len(s) - 1) : SubSeq(s, 1, Len(s) - 1)[i] = s[i]
<1> DEFINE q == SubSeq(s, 1, Len(s) - 1)
<1>1. Len(s) \in Nat \ {0}
    BY EmptySeq, LenProperties
<1>2. 1 \in Int /\ Len(s) - 1 \in Int /\ \A i \in 1..(Len(s) - 1) : s[i] \in S
    BY <1>1, ElementOfSeq
<1>3. /\ q \in Seq(S) /\ Len(q) = (IF 1 <= Len(s) - 1 THEN Len(s) - 1 - 1 + 1 ELSE 0)
      /\ \A i \in 1..(Len(s) - 1 - 1 + 1) : q[i] = s[1 + i - 1]
    BY <1>2, SubSeqProperties
<1> HIDE DEF q
<1>4. Len(q) = Len(s) - 1
    <2>1. PICK n \in Nat \ {0} : n = Len(s)
        BY <1>1
    <2>2. Len(q) = (IF 1 <= n - 1 THEN n - 1 - 1 + 1 ELSE 0)
        BY <1>3, <2>1
    <2>3. Len(q) = n - 1
        BY <2>2
    <2> QED BY <2>1, <2>3
<1>5. ASSUME NEW i \in 1..(Len(s) - 1) PROVE  q[i] = s[i]
    <2>1. i \in 1..(Len(s) - 1 - 1 + 1) /\ 1 + i - 1 = i
        BY <1>1
    <2> QED BY <1>3, <2>1
<1> QED BY <1>1, <1>3, <1>4, <1>5 DEF q

LEMMA WithoutFirst ==
    ASSUME NEW S, NEW s \in Seq(S), s # <<>>
    PROVE  /\ SubSeq(s, 2, Len(s)) \in Seq(S) /\ Len(SubSeq(s, 2, Len(s))) = Len(s) - 1
           /\ \A i \in 1..(Len(s) - 1) : SubSeq(s, 2, Len(s))[i] = s[i + 1]
<1> DEFINE q == SubSeq(s, 2, Len(s))
<1>1. Len(s) \in Nat \ {0}
    BY EmptySeq, LenProperties
<1>2. 2 \in Int /\ Len(s) \in Int /\ \A i \in 2..Len(s) : s[i] \in S
    BY <1>1, ElementOfSeq
<1>3. /\ q \in Seq(S) /\ Len(q) = (IF 2 <= Len(s) THEN Len(s) - 2 + 1 ELSE 0)
      /\ \A i \in 1..(Len(s) - 2 + 1) : q[i] = s[2 + i - 1]
    BY <1>2, SubSeqProperties
<1> HIDE DEF q
<1>4. PICK n \in Nat \ {0} : n = Len(s)
    BY <1>1
<1>5. Len(q) = n - 1
    <2>1. Len(q) = (IF 2 <= n THEN n - 2 + 1 ELSE 0)
        BY <1>3, <1>4
    <2> QED BY <2>1
<1>6. ASSUME NEW i \in 1..(n - 1) PROVE  q[i] = s[i + 1]
    <2>1. i \in 1..(Len(s) - 2 + 1) /\ 2 + i - 1 = i + 1
        BY <1>4
    <2> QED BY <1>3, <2>1
<1> QED BY <1>3, <1>4, <1>5, <1>6 DEF q

LEMMA Bounds ==
    /\ NThread \in Nat \ {0} /\ Fanout \in Nat \ {0} /\ MaxDemand \in Nat \ {0} /\ MaxChanges \in Nat
BY ServerAssumption

TypeParts == TypePc /\ TypeNumbers /\ TypeRest /\ TypeMonitor /\ TypeWakee

LEMMA TypeOKParts ==
    /\ TypeOK => TypeParts /\ my_ref_count \in 0..(NThread + 1)
    /\ TypeParts' /\ my_ref_count' \in 0..(NThread + 1) => TypeOK'
BY DEF TypeOK, TypeParts, TypePc, TypeNumbers, TypeAdd, AddRange, TypeRest, TypeMonitor,
    TypeWakee

LEMMA TypePcKept == TypePc /\ [Next]_vars => TypePc'
<1> SUFFICES ASSUME TypePc, [Next]_vars PROVE TypePc'
    OBVIOUS
<1> USE Sets DEF TypePc, life, list, monitor, local, market, Goto, WorkerLocs, ServerLocs
<1>1. ASSUME NEW t \in Threads, WsLock(t) PROVE TypePc'
    BY <1>1 DEF WsLock
<1>2. ASSUME NEW t \in Threads, WsTake(t) PROVE TypePc'
    BY <1>2 DEF WsTake, UseDemand, UseSlack
<1>3. ASSUME NEW t \in Threads, WsEnough(t) PROVE TypePc'
    BY <1>3 DEF WsEnough
<1>4. ASSUME NEW t \in Threads, WsReturn(t) PROVE TypePc'
    BY <1>4 DEF WsReturn
<1>5. ASSUME NEW t \in Threads, WsWake(t) PROVE TypePc'
    BY <1>5 DEF WsWake, Launch, Notify
<1>6. ASSUME NEW t \in Threads, WsSignal(t) PROVE TypePc'
    BY <1>6 DEF WsSignal, DoneWith
<1>7. ASSUME NEW t \in Threads, WsNorm(t) PROVE TypePc'
    BY <1>7 DEF WsNorm, DoneWith, StoreHandle
<1>8. ASSUME NEW t \in Threads, Adjust(t) PROVE TypePc'
    BY <1>8 DEF Adjust, TakeBack, WakeSome
<1>9. ASSUME NEW t \in Threads, CloseWorker(t) PROVE TypePc'
    BY <1>9 DEF CloseWorker, TellToQuit
<1>10. ASSUME NEW t \in Threads, CloseSignal(t) PROVE TypePc'
    BY <1>10 DEF CloseSignal
<1>11. ASSUME NEW t \in Threads, CloseRelease(t) PROVE TypePc'
    BY <1>11 DEF CloseRelease
<1>12. ASSUME NEW t \in Threads, CloseRef(t) PROVE TypePc'
    BY <1>12 DEF CloseRef
<1>13. ASSUME NEW t \in Threads, CloseEnd(t) PROVE TypePc'
    BY <1>13 DEF CloseEnd
<1>14. ASSUME NEW t \in Threads, Close(t) PROVE TypePc'
    BY <1>14 DEF Close, Outside, Adjusting
<1>15. ASSUME NEW t \in Threads, NEW d \in (-MaxDemand)..MaxDemand, Demand(t, d) PROVE TypePc'
    BY <1>15 DEF Demand, Outside
<1>16. ASSUME NEW w \in Workers, Chain(w) PROVE TypePc'
    BY <1>16 DEF Chain, WakeSome
<1>17. ASSUME NEW w \in Workers, Loop(w) PROVE TypePc'
    BY <1>17 DEF Loop
<1>18. ASSUME NEW w \in Workers, ProcessReturns(w) PROVE TypePc'
    BY <1>18 DEF ProcessReturns
<1>19. ASSUME NEW w \in Workers, Prepare(w) PROVE TypePc'
    BY <1>19 DEF Prepare
<1>20. ASSUME NEW w \in Workers, InWait(w) PROVE TypePc'
    BY <1>20 DEF InWait
<1>21. ASSUME NEW w \in Workers, Check(w) PROVE TypePc'
    BY <1>21 DEF Check
<1>22. ASSUME NEW w \in Workers, Insert(w) PROVE TypePc'
    BY <1>22 DEF Insert, InsertFails, PushAsleep, InsertTooLate
<1>23. ASSUME NEW w \in Workers, Undo(w) PROVE TypePc'
    BY <1>23 DEF Undo
<1>24. ASSUME NEW w \in Workers, Commit(w) PROVE TypePc'
    BY <1>24 DEF Commit, Sleep
<1>25. ASSUME NEW w \in Workers, Wake(w) PROVE TypePc'
    BY <1>25 DEF Wake
<1>26. ASSUME NEW w \in Workers, Cancel(w) PROVE TypePc'
    BY <1>26 DEF Cancel
<1>27. ASSUME NEW w \in Workers, Exit(w) PROVE TypePc'
    BY <1>27 DEF Exit
<1>28. ASSUME NEW w \in Workers, Deref(w) PROVE TypePc'
    BY <1>28 DEF Deref
<1>29. CASE UNCHANGED vars
    BY <1>29 DEF vars
<1> QED
    BY <1>1, <1>2, <1>3, <1>4, <1>5, <1>6, <1>7, <1>8, <1>9, <1>10, <1>11, <1>12, <1>13,
        <1>14, <1>15, <1>16, <1>17, <1>18, <1>19, <1>20, <1>21, <1>22, <1>23, <1>24, <1>25,
        <1>26, <1>27, <1>28, <1>29
    DEF Next, ServerStep, WorkerStep, ClientStep

LEMMA TypeNumbersKept ==
    TypeNumbers /\ TypePc /\ CallPhase /\ ClosePhase /\ [Next]_vars =>
    TypeNumbers'
<1> SUFFICES ASSUME TypeNumbers, TypePc, CallPhase, ClosePhase, [Next]_vars PROVE TypeNumbers'
    OBVIOUS
<1> USE Sets, Bounds, WorkersAreNat DEF TypeNumbers, TypeAdd, AddRange, life, list,
    monitor, local, market
<1>1. ASSUME NEW t \in Threads, WsLock(t) PROVE TypeNumbers'
    BY <1>1 DEF WsLock
<1>2. ASSUME NEW t \in Threads, WsTake(t) PROVE TypeNumbers'
    BY <1>2 DEF WsTake, UseDemand, UseSlack
<1>3. ASSUME NEW t \in Threads, WsEnough(t) PROVE TypeNumbers'
    BY <1>3 DEF WsEnough
<1>4. ASSUME NEW t \in Threads, WsReturn(t) PROVE TypeNumbers'
    BY <1>4 DEF WsReturn
<1>5. ASSUME NEW t \in Threads, WsWake(t) PROVE TypeNumbers'
    BY <1>5 DEF WsWake, Launch, Notify
<1>6. ASSUME NEW t \in Threads, WsSignal(t) PROVE TypeNumbers'
    BY <1>6 DEF WsSignal, DoneWith
<1>7. ASSUME NEW t \in Threads, WsNorm(t) PROVE TypeNumbers'
    BY <1>7 DEF WsNorm, DoneWith, StoreHandle
<1>8. ASSUME NEW t \in Threads, Adjust(t) PROVE TypeNumbers'
    BY <1>8 DEF Adjust, TakeBack, WakeSome
<1>9. ASSUME NEW t \in Threads, CloseWorker(t) PROVE TypeNumbers'
    <2>1. CASE my_state[shut] = "init" /\ Goto(t, "c_ref") /\ UNCHANGED <<monitor, add>>
        BY <1>9, <2>1 DEF CloseWorker
    <2>2. CASE TellToQuit(t)
        BY <1>9, <2>2 DEF CloseWorker, TellToQuit
    <2> QED BY <1>9, <2>1, <2>2 DEF CloseWorker
<1>10. ASSUME NEW t \in Threads, CloseSignal(t) PROVE TypeNumbers'
    BY <1>10 DEF CloseSignal, ClosePhase, CloseLocs
<1>11. ASSUME NEW t \in Threads, CloseRelease(t) PROVE TypeNumbers'
    BY <1>11 DEF CloseRelease, ClosePhase, CloseLocs
<1>12. ASSUME NEW t \in Threads, CloseRef(t) PROVE TypeNumbers'
    BY <1>12 DEF CloseRef, ClosePhase, CloseLocs
<1>13. ASSUME NEW t \in Threads, CloseEnd(t) PROVE TypeNumbers'
    BY <1>13 DEF CloseEnd
<1>14. ASSUME NEW t \in Threads, Close(t) PROVE TypeNumbers'
    BY <1>14 DEF Close, Outside, Adjusting
<1>15. ASSUME NEW t \in Threads, NEW d \in (-MaxDemand)..MaxDemand, Demand(t, d) PROVE TypeNumbers'
    BY <1>15 DEF Demand, Outside
<1>16. ASSUME NEW w \in Workers, Chain(w) PROVE TypeNumbers'
    BY <1>16 DEF Chain, WakeSome
<1>17. ASSUME NEW w \in Workers, Loop(w) PROVE TypeNumbers'
    BY <1>17 DEF Loop
<1>18. ASSUME NEW w \in Workers, ProcessReturns(w) PROVE TypeNumbers'
    BY <1>18 DEF ProcessReturns
<1>19. ASSUME NEW w \in Workers, Prepare(w) PROVE TypeNumbers'
    BY <1>19 DEF Prepare
<1>20. ASSUME NEW w \in Workers, InWait(w) PROVE TypeNumbers'
    BY <1>20 DEF InWait
<1>21. ASSUME NEW w \in Workers, Check(w) PROVE TypeNumbers'
    BY <1>21 DEF Check
<1>22. ASSUME NEW w \in Workers, Insert(w) PROVE TypeNumbers'
    BY <1>22 DEF Insert, InsertFails, PushAsleep, InsertTooLate
<1>23. ASSUME NEW w \in Workers, Undo(w) PROVE TypeNumbers'
    BY <1>23 DEF Undo
<1>24. ASSUME NEW w \in Workers, Commit(w) PROVE TypeNumbers'
    BY <1>24 DEF Commit, Sleep
<1>25. ASSUME NEW w \in Workers, Wake(w) PROVE TypeNumbers'
    BY <1>25 DEF Wake
<1>26. ASSUME NEW w \in Workers, Cancel(w) PROVE TypeNumbers'
    BY <1>26 DEF Cancel
<1>27. ASSUME NEW w \in Workers, Exit(w) PROVE TypeNumbers'
    BY <1>27 DEF Exit
<1>28. ASSUME NEW w \in Workers, Deref(w) PROVE TypeNumbers'
    BY <1>28 DEF Deref
<1>29. CASE UNCHANGED vars
    BY <1>29 DEF vars
<1> QED
    BY <1>1, <1>2, <1>3, <1>4, <1>5, <1>6, <1>7, <1>8, <1>9, <1>10, <1>11, <1>12, <1>13,
        <1>14, <1>15, <1>16, <1>17, <1>18, <1>19, <1>20, <1>21, <1>22, <1>23, <1>24, <1>25,
        <1>26, <1>27, <1>28, <1>29
    DEF Next, ServerStep, WorkerStep, ClientStep

LEMMA TypeRestKept == TypeRest /\ [Next]_vars => TypeRest'
<1> SUFFICES ASSUME TypeRest, [Next]_vars PROVE TypeRest'
    OBVIOUS
<1> USE Sets DEF TypeRest, life, list, monitor, local, market
<1>1. ASSUME NEW t \in Threads, WsLock(t) PROVE TypeRest'
    BY <1>1 DEF WsLock
<1>2. ASSUME NEW t \in Threads, WsTake(t) PROVE TypeRest'
    BY <1>2 DEF WsTake, PopAsleep, MayTakeMore, UseDemand, UseSlack
<1>3. ASSUME NEW t \in Threads, WsEnough(t) PROVE TypeRest'
    BY <1>3 DEF WsEnough
<1>4. ASSUME NEW t \in Threads, WsReturn(t) PROVE TypeRest'
    BY <1>4 DEF WsReturn
<1>5. ASSUME NEW t \in Threads, WsWake(t) PROVE TypeRest'
    BY <1>5 DEF WsWake, Launch, Notify
<1>6. ASSUME NEW t \in Threads, WsSignal(t) PROVE TypeRest'
    BY <1>6 DEF WsSignal
<1>7. ASSUME NEW t \in Threads, WsNorm(t) PROVE TypeRest'
    BY <1>7 DEF WsNorm, StoreHandle, ReleaseHandle
<1>8. ASSUME NEW t \in Threads, Adjust(t) PROVE TypeRest'
    BY <1>8 DEF Adjust, TakeBack, WakeSome
<1>9. ASSUME NEW t \in Threads, CloseWorker(t) PROVE TypeRest'
    BY <1>9 DEF CloseWorker, TellToQuit
<1>10. ASSUME NEW t \in Threads, CloseSignal(t) PROVE TypeRest'
    BY <1>10 DEF CloseSignal
<1>11. ASSUME NEW t \in Threads, CloseRelease(t) PROVE TypeRest'
    BY <1>11 DEF CloseRelease, ReleaseHandle
<1>12. ASSUME NEW t \in Threads, CloseRef(t) PROVE TypeRest'
    BY <1>12 DEF CloseRef, RemoveRef
<1>13. ASSUME NEW t \in Threads, CloseEnd(t) PROVE TypeRest'
    BY <1>13 DEF CloseEnd, RemoveRef
<1>14. ASSUME NEW t \in Threads, Close(t) PROVE TypeRest'
    BY <1>14 DEF Close, Outside, Adjusting
<1>15. ASSUME NEW t \in Threads, NEW d \in (-MaxDemand)..MaxDemand, Demand(t, d) PROVE TypeRest'
    BY <1>15 DEF Demand, Outside
<1>16. ASSUME NEW w \in Workers, Chain(w) PROVE TypeRest'
    BY <1>16 DEF Chain, WakeSome
<1>17. ASSUME NEW w \in Workers, Loop(w) PROVE TypeRest'
    BY <1>17 DEF Loop
<1>18. ASSUME NEW w \in Workers, ProcessReturns(w) PROVE TypeRest'
    BY <1>18 DEF ProcessReturns
<1>19. ASSUME NEW w \in Workers, Prepare(w) PROVE TypeRest'
    BY <1>19 DEF Prepare
<1>20. ASSUME NEW w \in Workers, InWait(w) PROVE TypeRest'
    BY <1>20 DEF InWait
<1>21. ASSUME NEW w \in Workers, Check(w) PROVE TypeRest'
    BY <1>21 DEF Check
<1>22. ASSUME NEW w \in Workers, Insert(w) PROVE TypeRest'
    BY <1>22 DEF Insert, InsertFails, PushAsleep, InsertTooLate
<1>23. ASSUME NEW w \in Workers, Undo(w) PROVE TypeRest'
    BY <1>23 DEF Undo
<1>24. ASSUME NEW w \in Workers, Commit(w) PROVE TypeRest'
    BY <1>24 DEF Commit, Sleep
<1>25. ASSUME NEW w \in Workers, Wake(w) PROVE TypeRest'
    BY <1>25 DEF Wake
<1>26. ASSUME NEW w \in Workers, Cancel(w) PROVE TypeRest'
    BY <1>26 DEF Cancel
<1>27. ASSUME NEW w \in Workers, Exit(w) PROVE TypeRest'
    BY <1>27 DEF Exit
<1>28. ASSUME NEW w \in Workers, Deref(w) PROVE TypeRest'
    BY <1>28 DEF Deref, RemoveRef
<1>29. CASE UNCHANGED vars
    BY <1>29 DEF vars
<1> QED
    BY <1>1, <1>2, <1>3, <1>4, <1>5, <1>6, <1>7, <1>8, <1>9, <1>10, <1>11, <1>12, <1>13,
        <1>14, <1>15, <1>16, <1>17, <1>18, <1>19, <1>20, <1>21, <1>22, <1>23, <1>24, <1>25,
        <1>26, <1>27, <1>28, <1>29
    DEF Next, ServerStep, WorkerStep, ClientStep

LEMMA TypeMonitorKept == TypeMonitor /\ [Next]_vars => TypeMonitor'
<1> SUFFICES ASSUME TypeMonitor, [Next]_vars PROVE TypeMonitor'
    OBVIOUS
<1> USE Sets DEF TypeMonitor, life, list, monitor, local, market
<1>1. ASSUME NEW t \in Threads, WsLock(t) PROVE TypeMonitor'
    BY <1>1 DEF WsLock
<1>2. ASSUME NEW t \in Threads, WsTake(t) PROVE TypeMonitor'
    BY <1>2 DEF WsTake, UseDemand, UseSlack
<1>3. ASSUME NEW t \in Threads, WsEnough(t) PROVE TypeMonitor'
    BY <1>3 DEF WsEnough
<1>4. ASSUME NEW t \in Threads, WsReturn(t) PROVE TypeMonitor'
    BY <1>4 DEF WsReturn
<1>5. ASSUME NEW t \in Threads, WsWake(t) PROVE TypeMonitor'
    BY <1>5 DEF WsWake, Launch, Notify, NotifyEpoch
<1>6. ASSUME NEW t \in Threads, WsSignal(t) PROVE TypeMonitor'
    BY <1>6 DEF WsSignal, NotifySignal
<1>7. ASSUME NEW t \in Threads, WsNorm(t) PROVE TypeMonitor'
    BY <1>7 DEF WsNorm, StoreHandle
<1>8. ASSUME NEW t \in Threads, Adjust(t) PROVE TypeMonitor'
    BY <1>8 DEF Adjust, TakeBack, WakeSome
<1>9. ASSUME NEW t \in Threads, CloseWorker(t) PROVE TypeMonitor'
    BY <1>9 DEF CloseWorker, TellToQuit, NotifyEpoch
<1>10. ASSUME NEW t \in Threads, CloseSignal(t) PROVE TypeMonitor'
    BY <1>10 DEF CloseSignal, NotifySignal
<1>11. ASSUME NEW t \in Threads, CloseRelease(t) PROVE TypeMonitor'
    BY <1>11 DEF CloseRelease
<1>12. ASSUME NEW t \in Threads, CloseRef(t) PROVE TypeMonitor'
    BY <1>12 DEF CloseRef
<1>13. ASSUME NEW t \in Threads, CloseEnd(t) PROVE TypeMonitor'
    BY <1>13 DEF CloseEnd
<1>14. ASSUME NEW t \in Threads, Close(t) PROVE TypeMonitor'
    BY <1>14 DEF Close, Outside, Adjusting
<1>15. ASSUME NEW t \in Threads, NEW d \in (-MaxDemand)..MaxDemand, Demand(t, d) PROVE TypeMonitor'
    BY <1>15 DEF Demand, Outside
<1>16. ASSUME NEW w \in Workers, Chain(w) PROVE TypeMonitor'
    BY <1>16 DEF Chain, WakeSome
<1>17. ASSUME NEW w \in Workers, Loop(w) PROVE TypeMonitor'
    BY <1>17 DEF Loop
<1>18. ASSUME NEW w \in Workers, ProcessReturns(w) PROVE TypeMonitor'
    BY <1>18 DEF ProcessReturns
<1>19. ASSUME NEW w \in Workers, Prepare(w) PROVE TypeMonitor'
    BY <1>19 DEF Prepare
<1>20. ASSUME NEW w \in Workers, InWait(w) PROVE TypeMonitor'
    BY <1>20 DEF InWait
<1>21. ASSUME NEW w \in Workers, Check(w) PROVE TypeMonitor'
    BY <1>21 DEF Check
<1>22. ASSUME NEW w \in Workers, Insert(w) PROVE TypeMonitor'
    BY <1>22 DEF Insert, InsertFails, PushAsleep, InsertTooLate
<1>23. ASSUME NEW w \in Workers, Undo(w) PROVE TypeMonitor'
    BY <1>23 DEF Undo
<1>24. ASSUME NEW w \in Workers, Commit(w) PROVE TypeMonitor'
    BY <1>24 DEF Commit, Sleep, CancelWait
<1>25. ASSUME NEW w \in Workers, Wake(w) PROVE TypeMonitor'
    BY <1>25 DEF Wake
<1>26. ASSUME NEW w \in Workers, Cancel(w) PROVE TypeMonitor'
    BY <1>26 DEF Cancel, CancelWait
<1>27. ASSUME NEW w \in Workers, Exit(w) PROVE TypeMonitor'
    BY <1>27 DEF Exit
<1>28. ASSUME NEW w \in Workers, Deref(w) PROVE TypeMonitor'
    BY <1>28 DEF Deref
<1>29. CASE UNCHANGED vars
    BY <1>29 DEF vars
<1> QED
    BY <1>1, <1>2, <1>3, <1>4, <1>5, <1>6, <1>7, <1>8, <1>9, <1>10, <1>11, <1>12, <1>13,
        <1>14, <1>15, <1>16, <1>17, <1>18, <1>19, <1>20, <1>21, <1>22, <1>23, <1>24, <1>25,
        <1>26, <1>27, <1>28, <1>29
    DEF Next, ServerStep, WorkerStep, ClientStep

LEMMA TypeWakeeKept == TypeWakee /\ TypeRest /\ [Next]_vars => TypeWakee'
<1> SUFFICES ASSUME TypeWakee, TypeRest, [Next]_vars PROVE TypeWakee'
    OBVIOUS
<1> USE Sets DEF TypeWakee, life, list, monitor, local, market
<1>1. ASSUME NEW t \in Threads, WsLock(t) PROVE TypeWakee'
    BY <1>1 DEF WsLock
<1>2. ASSUME NEW t \in Threads, WsTake(t) PROVE TypeWakee'
    BY <1>2 DEF WsTake, PopAsleep, TypeRest, MayTakeMore, UseDemand, UseSlack
<1>3. ASSUME NEW t \in Threads, WsEnough(t) PROVE TypeWakee'
    BY <1>3 DEF WsEnough
<1>4. ASSUME NEW t \in Threads, WsReturn(t) PROVE TypeWakee'
    BY <1>4 DEF WsReturn
<1>5. ASSUME NEW t \in Threads, WsWake(t) PROVE TypeWakee'
    BY <1>5 DEF WsWake, Launch, Notify
<1>6. ASSUME NEW t \in Threads, WsSignal(t) PROVE TypeWakee'
    BY <1>6 DEF WsSignal, DoneWith
<1>7. ASSUME NEW t \in Threads, WsNorm(t) PROVE TypeWakee'
    BY <1>7 DEF WsNorm, DoneWith, StoreHandle
<1>8. ASSUME NEW t \in Threads, Adjust(t) PROVE TypeWakee'
    BY <1>8 DEF Adjust, TakeBack, WakeSome
<1>9. ASSUME NEW t \in Threads, CloseWorker(t) PROVE TypeWakee'
    BY <1>9 DEF CloseWorker, TellToQuit
<1>10. ASSUME NEW t \in Threads, CloseSignal(t) PROVE TypeWakee'
    BY <1>10 DEF CloseSignal
<1>11. ASSUME NEW t \in Threads, CloseRelease(t) PROVE TypeWakee'
    BY <1>11 DEF CloseRelease
<1>12. ASSUME NEW t \in Threads, CloseRef(t) PROVE TypeWakee'
    BY <1>12 DEF CloseRef
<1>13. ASSUME NEW t \in Threads, CloseEnd(t) PROVE TypeWakee'
    BY <1>13 DEF CloseEnd
<1>14. ASSUME NEW t \in Threads, Close(t) PROVE TypeWakee'
    BY <1>14 DEF Close, Outside, Adjusting
<1>15. ASSUME NEW t \in Threads, NEW d \in (-MaxDemand)..MaxDemand, Demand(t, d) PROVE TypeWakee'
    BY <1>15 DEF Demand, Outside
<1>16. ASSUME NEW w \in Workers, Chain(w) PROVE TypeWakee'
    BY <1>16 DEF Chain, WakeSome
<1>17. ASSUME NEW w \in Workers, Loop(w) PROVE TypeWakee'
    BY <1>17 DEF Loop
<1>18. ASSUME NEW w \in Workers, ProcessReturns(w) PROVE TypeWakee'
    BY <1>18 DEF ProcessReturns
<1>19. ASSUME NEW w \in Workers, Prepare(w) PROVE TypeWakee'
    BY <1>19 DEF Prepare
<1>20. ASSUME NEW w \in Workers, InWait(w) PROVE TypeWakee'
    BY <1>20 DEF InWait
<1>21. ASSUME NEW w \in Workers, Check(w) PROVE TypeWakee'
    BY <1>21 DEF Check
<1>22. ASSUME NEW w \in Workers, Insert(w) PROVE TypeWakee'
    BY <1>22 DEF Insert, InsertFails, PushAsleep, InsertTooLate
<1>23. ASSUME NEW w \in Workers, Undo(w) PROVE TypeWakee'
    BY <1>23 DEF Undo
<1>24. ASSUME NEW w \in Workers, Commit(w) PROVE TypeWakee'
    BY <1>24 DEF Commit, Sleep
<1>25. ASSUME NEW w \in Workers, Wake(w) PROVE TypeWakee'
    BY <1>25 DEF Wake
<1>26. ASSUME NEW w \in Workers, Cancel(w) PROVE TypeWakee'
    BY <1>26 DEF Cancel
<1>27. ASSUME NEW w \in Workers, Exit(w) PROVE TypeWakee'
    BY <1>27 DEF Exit
<1>28. ASSUME NEW w \in Workers, Deref(w) PROVE TypeWakee'
    BY <1>28 DEF Deref
<1>29. CASE UNCHANGED vars
    BY <1>29 DEF vars
<1> QED
    BY <1>1, <1>2, <1>3, <1>4, <1>5, <1>6, <1>7, <1>8, <1>9, <1>10, <1>11, <1>12, <1>13,
        <1>14, <1>15, <1>16, <1>17, <1>18, <1>19, <1>20, <1>21, <1>22, <1>23, <1>24, <1>25,
        <1>26, <1>27, <1>28, <1>29
    DEF Next, ServerStep, WorkerStep, ClientStep

LEMMA WorkerPhaseKept ==
    TypePc /\ TypeRest /\ TypeWakee /\ WorkerPhase /\ CallPhase /\ WakePhase /\
    ClosePhase /\ HandleOnce /\ [Next]_vars =>
    WorkerPhase'
<1> SUFFICES ASSUME TypePc, TypeRest, TypeWakee, WorkerPhase, CallPhase, WakePhase,
                    ClosePhase, HandleOnce, [Next]_vars
             PROVE  WorkerPhase'
    OBVIOUS
<1> USE Sets DEF WorkerPhase, CallPhase, ClosePhase, HandleOnce, life, list, monitor,
    local, market, Goto, WakeLocs, CloseLocs, TypePc, TypeRest, TypeWakee
<1>1. ASSUME NEW t \in Threads, WsLock(t) PROVE WorkerPhase'
    BY <1>1 DEF WsLock
<1>2. ASSUME NEW t \in Threads, WsTake(t) PROVE WorkerPhase'
    <2>1. CASE UseDemand(t)
        BY <1>2, <2>1 DEF WsTake, PopAsleep, UseDemand
    <2>2. CASE UseSlack(t)
        BY <1>2, <2>2 DEF WsTake, PopAsleep, UseSlack
    <2> QED BY <1>2, <2>1, <2>2 DEF WsTake
<1>3. ASSUME NEW t \in Threads, WsEnough(t) PROVE WorkerPhase'
    BY <1>3 DEF WsEnough
<1>4. ASSUME NEW t \in Threads, WsReturn(t) PROVE WorkerPhase'
    <2>1. PICK loc \in {"loop", "process", "rest"} : loc = ret[t]
        OBVIOUS
    <2> QED BY <1>4, <2>1 DEF WsReturn
<1>5. ASSUME NEW t \in Threads, WsWake(t) PROVE WorkerPhase'
    <2>1. CASE Launch(t, LastTaken(t))
        <3>1. PICK w \in Workers : w = LastTaken(t)
            BY <1>5, LastIsWorker DEF WsWake
        <3> QED BY <1>5, <2>1, <3>1 DEF WsWake, Launch
    <2>2. CASE Notify(t, LastTaken(t))
        BY <1>5, <2>2 DEF WsWake, Notify
    <2> QED BY <1>5, <2>1, <2>2 DEF WsWake
<1>6. ASSUME NEW t \in Threads, WsSignal(t) PROVE WorkerPhase'
    BY <1>6 DEF WsSignal, DoneWith
<1>7. ASSUME NEW t \in Threads, WsNorm(t) PROVE WorkerPhase'
    <2>1. CASE StoreHandle(LastTaken(t))
        BY <1>7, <2>1 DEF WsNorm, DoneWith, StoreHandle
    <2>2. CASE my_state[LastTaken(t)] # "starting" /\ ReleaseHandle(LastTaken(t)) /\ UNCHANGED my_state
        BY <1>7, <2>2 DEF WsNorm, DoneWith, ReleaseHandle
    <2> QED BY <1>7, <2>1, <2>2 DEF WsNorm
<1>8. ASSUME NEW t \in Threads, Adjust(t) PROVE WorkerPhase'
    <2>1. CASE TakeBack(t)
        <3>1. PICK loc \in {"loop", "process", "rest"} : loc = ret[t]
            OBVIOUS
        <3> QED BY <1>8, <2>1, <3>1 DEF Adjust, TakeBack
    <2>2. CASE add[t] > 0 /\ WakeSome(t, add[t], ret[t]) /\ UNCHANGED my_slack
        BY <1>8, <2>2 DEF Adjust, WakeSome
    <2> QED BY <1>8, <2>1, <2>2 DEF Adjust
<1>9. ASSUME NEW t \in Threads, CloseWorker(t) PROVE WorkerPhase'
    <2>1. CASE my_state[shut] = "init" /\ Goto(t, "c_ref") /\ UNCHANGED <<monitor, add>>
        BY <1>9, <2>1 DEF CloseWorker
    <2>2. CASE TellToQuit(t)
        BY <1>9, <2>2 DEF CloseWorker, TellToQuit
    <2> QED BY <1>9, <2>1, <2>2 DEF CloseWorker
<1>10. ASSUME NEW t \in Threads, CloseSignal(t) PROVE WorkerPhase'
    <2>1. CASE add[t] = 1 /\ Goto(t, "c_release") /\ UNCHANGED shut
        BY <1>10, <2>1 DEF CloseSignal
    <2>2. CASE add[t] = 0 /\ Goto(t, "close") /\ shut' = shut + 1
        BY <1>10, <2>2 DEF CloseSignal
    <2> QED BY <1>10, <2>1, <2>2 DEF CloseSignal
<1>11. ASSUME NEW t \in Threads, CloseRelease(t) PROVE WorkerPhase'
    BY <1>11 DEF CloseRelease, ReleaseHandle
<1>12. ASSUME NEW t \in Threads, CloseRef(t) PROVE WorkerPhase'
    BY <1>12 DEF CloseRef, RemoveRef
<1>13. ASSUME NEW t \in Threads, CloseEnd(t) PROVE WorkerPhase'
    <2>1. CASE t \in Masters /\ Goto(t, "gone")
        BY <1>13, <2>1 DEF CloseEnd, RemoveRef
    <2>2. CASE t \in Workers /\ Goto(t, "process")
        BY <1>13, <2>2 DEF CloseEnd, RemoveRef
    <2> QED BY <1>13, <2>1, <2>2 DEF CloseEnd
<1>14. ASSUME NEW t \in Threads, Close(t) PROVE WorkerPhase'
    BY <1>14 DEF Close, Outside, Adjusting
<1>15. ASSUME NEW t \in Threads, NEW d \in (-MaxDemand)..MaxDemand, Demand(t, d) PROVE WorkerPhase'
    BY <1>15 DEF Demand, Outside
<1>16. ASSUME NEW w \in Workers, Chain(w) PROVE WorkerPhase'
    <2>1. CASE root = Nobody /\ Goto(w, "loop") /\ UNCHANGED local
        BY <1>16, <2>1 DEF Chain
    <2>2. CASE root # Nobody /\ WakeSome(w, 0, "loop")
        BY <1>16, <2>2 DEF Chain, WakeSome
    <2> QED BY <1>16, <2>1, <2>2 DEF Chain
<1>17. ASSUME NEW w \in Workers, Loop(w) PROVE WorkerPhase'
    <2>1. CASE my_state[w] = "quit" /\ Goto(w, "exit")
        BY <1>17, <2>1 DEF Loop
    <2>2. CASE my_state[w] # "quit" /\ my_slack >= 0 /\ Goto(w, "process")
        BY <1>17, <2>2 DEF Loop
    <2>3. CASE my_state[w] # "quit" /\ ~ (my_slack >= 0) /\ Goto(w, "prepare")
        BY <1>17, <2>3 DEF Loop
    <2> HIDE DEF WorkerPhase, CallPhase, ClosePhase, HandleOnce, life, list, monitor,
        local, market, WakeLocs, CloseLocs, TypePc, TypeRest, TypeWakee
    <2> QED BY <1>17, <2>1, <2>2, <2>3 DEF Loop
<1>18. ASSUME NEW w \in Workers, ProcessReturns(w) PROVE WorkerPhase'
    BY <1>18 DEF ProcessReturns
<1>19. ASSUME NEW w \in Workers, Prepare(w) PROVE WorkerPhase'
    BY <1>19 DEF Prepare
<1>20. ASSUME NEW w \in Workers, InWait(w) PROVE WorkerPhase'
    BY <1>20 DEF InWait
<1>21. ASSUME NEW w \in Workers, Check(w) PROVE WorkerPhase'
    <2>1. CASE my_state[w] = "quit" /\ Goto(w, "cancel")
        BY <1>21, <2>1 DEF Check
    <2>2. CASE my_state[w] # "quit" /\ Goto(w, "insert")
        BY <1>21, <2>2 DEF Check
    <2> QED BY <1>21, <2>1, <2>2 DEF Check
<1>22. ASSUME NEW w \in Workers, Insert(w) PROVE WorkerPhase'
    <2>1. CASE InsertFails(w)
        BY <1>22, <2>1 DEF Insert, InsertFails
    <2>2. CASE PushAsleep(w)
        BY <1>22, <2>2 DEF Insert, PushAsleep
    <2>3. CASE InsertTooLate(w)
        BY <1>22, <2>3 DEF Insert, InsertTooLate
    <2> QED BY <1>22, <2>1, <2>2, <2>3 DEF Insert
<1>23. ASSUME NEW w \in Workers, Undo(w) PROVE WorkerPhase'
    BY <1>23 DEF Undo
<1>24. ASSUME NEW w \in Workers, Commit(w) PROVE WorkerPhase'
    <2>1. CASE Sleep(w)
        BY <1>24, <2>1 DEF Commit, Sleep
    <2>2. CASE w \notin fresh /\ CancelWait(w) /\ Goto(w, "chain")
        BY <1>24, <2>2 DEF Commit
    <2> QED BY <1>24, <2>1, <2>2 DEF Commit
<1>25. ASSUME NEW w \in Workers, Wake(w) PROVE WorkerPhase'
    BY <1>25 DEF Wake
<1>26. ASSUME NEW w \in Workers, Cancel(w) PROVE WorkerPhase'
    BY <1>26 DEF Cancel
<1>27. ASSUME NEW w \in Workers, Exit(w) PROVE WorkerPhase'
    BY <1>27 DEF Exit
<1>28. ASSUME NEW w \in Workers, Deref(w) PROVE WorkerPhase'
    BY <1>28 DEF Deref, RemoveRef
<1>29. CASE UNCHANGED vars
    BY <1>29 DEF vars
<1> HIDE DEF WorkerPhase, CallPhase, ClosePhase, HandleOnce, life, list, monitor, local,
    market, Goto, WakeLocs, CloseLocs, TypePc, TypeRest, TypeWakee
<1> QED
    BY <1>1, <1>2, <1>3, <1>4, <1>5, <1>6, <1>7, <1>8, <1>9, <1>10, <1>11, <1>12, <1>13,
        <1>14, <1>15, <1>16, <1>17, <1>18, <1>19, <1>20, <1>21, <1>22, <1>23, <1>24, <1>25,
        <1>26, <1>27, <1>28, <1>29
    DEF Next, ServerStep, WorkerStep, ClientStep

LEMMA CallPhaseKept ==
    TypePc /\ TypeRest /\ TypeWakee /\ WorkerPhase /\ CallPhase /\ [Next]_vars =>
    CallPhase'
<1> SUFFICES ASSUME TypePc, TypeRest, TypeWakee, WorkerPhase, CallPhase, [Next]_vars
             PROVE  CallPhase'
    OBVIOUS
<1> USE Sets DEF CallPhase, WorkerPhase, life, list, monitor, local, market, Goto,
    WakeLocs, CloseLocs, TypePc, TypeRest, TypeWakee
<1>1. ASSUME NEW t \in Threads, WsLock(t) PROVE CallPhase'
    BY <1>1 DEF WsLock
<1>2. ASSUME NEW t \in Threads, WsTake(t) PROVE CallPhase'
    <2>1. CASE UseDemand(t)
        BY <1>2, <2>1 DEF WsTake, PopAsleep, UseDemand
    <2>2. CASE UseSlack(t)
        BY <1>2, <2>2 DEF WsTake, PopAsleep, UseSlack
    <2> QED BY <1>2, <2>1, <2>2 DEF WsTake
<1>3. ASSUME NEW t \in Threads, WsEnough(t) PROVE CallPhase'
    BY <1>3 DEF WsEnough
<1>4. ASSUME NEW t \in Threads, WsReturn(t) PROVE CallPhase'
    <2>1. PICK loc \in {"loop", "process", "rest"} : loc = ret[t]
        OBVIOUS
    <2> QED BY <1>4, <2>1 DEF WsReturn
<1>5. ASSUME NEW t \in Threads, WsWake(t) PROVE CallPhase'
    <2>1. CASE Launch(t, LastTaken(t))
        <3>1. PICK w \in Workers : w = LastTaken(t)
            BY <1>5, LastIsWorker DEF WsWake
        <3> HIDE DEF TypeRest, TypeWakee
        <3> QED BY <1>5, <2>1, <3>1 DEF WsWake, Launch
    <2>2. CASE Notify(t, LastTaken(t))
        BY <1>5, <2>2 DEF WsWake, Notify
    <2> QED BY <1>5, <2>1, <2>2 DEF WsWake
<1>6. ASSUME NEW t \in Threads, WsSignal(t) PROVE CallPhase'
    BY <1>6 DEF WsSignal, DoneWith
<1>7. ASSUME NEW t \in Threads, WsNorm(t) PROVE CallPhase'
    <2>1. CASE StoreHandle(LastTaken(t))
        BY <1>7, <2>1 DEF WsNorm, DoneWith, StoreHandle
    <2>2. CASE my_state[LastTaken(t)] # "starting" /\ ReleaseHandle(LastTaken(t)) /\ UNCHANGED my_state
        BY <1>7, <2>2 DEF WsNorm, DoneWith, ReleaseHandle
    <2> QED BY <1>7, <2>1, <2>2 DEF WsNorm
<1>8. ASSUME NEW t \in Threads, Adjust(t) PROVE CallPhase'
    <2>1. CASE TakeBack(t)
        <3>1. PICK loc \in {"loop", "process", "rest"} : loc = ret[t]
            OBVIOUS
        <3> QED BY <1>8, <2>1, <3>1 DEF Adjust, TakeBack
    <2>2. CASE add[t] > 0 /\ WakeSome(t, add[t], ret[t]) /\ UNCHANGED my_slack
        BY <1>8, <2>2 DEF Adjust, WakeSome
    <2> QED BY <1>8, <2>1, <2>2 DEF Adjust
<1>9. ASSUME NEW t \in Threads, CloseWorker(t) PROVE CallPhase'
    <2>1. CASE my_state[shut] = "init" /\ Goto(t, "c_ref") /\ UNCHANGED <<monitor, add>>
        BY <1>9, <2>1 DEF CloseWorker
    <2>2. CASE TellToQuit(t)
        BY <1>9, <2>2 DEF CloseWorker, TellToQuit
    <2> QED BY <1>9, <2>1, <2>2 DEF CloseWorker
<1>10. ASSUME NEW t \in Threads, CloseSignal(t) PROVE CallPhase'
    <2>1. CASE add[t] = 1 /\ Goto(t, "c_release") /\ UNCHANGED shut
        BY <1>10, <2>1 DEF CloseSignal
    <2>2. CASE add[t] = 0 /\ Goto(t, "close") /\ shut' = shut + 1
        BY <1>10, <2>2 DEF CloseSignal
    <2> QED BY <1>10, <2>1, <2>2 DEF CloseSignal
<1>11. ASSUME NEW t \in Threads, CloseRelease(t) PROVE CallPhase'
    BY <1>11 DEF CloseRelease, ReleaseHandle
<1>12. ASSUME NEW t \in Threads, CloseRef(t) PROVE CallPhase'
    BY <1>12 DEF CloseRef, RemoveRef
<1>13. ASSUME NEW t \in Threads, CloseEnd(t) PROVE CallPhase'
    <2>1. CASE t \in Masters /\ Goto(t, "gone")
        BY <1>13, <2>1 DEF CloseEnd, RemoveRef
    <2>2. CASE t \in Workers /\ Goto(t, "process")
        BY <1>13, <2>2 DEF CloseEnd, RemoveRef
    <2> QED BY <1>13, <2>1, <2>2 DEF CloseEnd
<1>14. ASSUME NEW t \in Threads, Close(t) PROVE CallPhase'
    BY <1>14 DEF Close, Outside, Adjusting
<1>15. ASSUME NEW t \in Threads, NEW d \in (-MaxDemand)..MaxDemand, Demand(t, d) PROVE CallPhase'
    BY <1>15 DEF Demand, Outside
<1>16. ASSUME NEW w \in Workers, Chain(w) PROVE CallPhase'
    <2>1. CASE root = Nobody /\ Goto(w, "loop") /\ UNCHANGED local
        BY <1>16, <2>1 DEF Chain
    <2>2. CASE root # Nobody /\ WakeSome(w, 0, "loop")
        BY <1>16, <2>2 DEF Chain, WakeSome
    <2> QED BY <1>16, <2>1, <2>2 DEF Chain
<1>17. ASSUME NEW w \in Workers, Loop(w) PROVE CallPhase'
    <2>1. CASE my_state[w] = "quit" /\ Goto(w, "exit")
        BY <1>17, <2>1 DEF Loop
    <2>2. CASE my_state[w] # "quit" /\ my_slack >= 0 /\ Goto(w, "process")
        BY <1>17, <2>2 DEF Loop
    <2>3. CASE my_state[w] # "quit" /\ ~ (my_slack >= 0) /\ Goto(w, "prepare")
        BY <1>17, <2>3 DEF Loop
    <2> HIDE DEF CallPhase, WorkerPhase, life, list, monitor, local, market, WakeLocs,
        CloseLocs, TypePc, TypeRest, TypeWakee
    <2> QED BY <1>17, <2>1, <2>2, <2>3 DEF Loop
<1>18. ASSUME NEW w \in Workers, ProcessReturns(w) PROVE CallPhase'
    BY <1>18 DEF ProcessReturns
<1>19. ASSUME NEW w \in Workers, Prepare(w) PROVE CallPhase'
    BY <1>19 DEF Prepare
<1>20. ASSUME NEW w \in Workers, InWait(w) PROVE CallPhase'
    BY <1>20 DEF InWait
<1>21. ASSUME NEW w \in Workers, Check(w) PROVE CallPhase'
    <2>1. CASE my_state[w] = "quit" /\ Goto(w, "cancel")
        <3> HIDE DEF TypeRest, TypeWakee, WorkerPhase
        <3> QED BY <1>21, <2>1 DEF Check
    <2>2. CASE my_state[w] # "quit" /\ Goto(w, "insert")
        <3> HIDE DEF TypeRest, TypeWakee, WorkerPhase
        <3> QED BY <1>21, <2>2 DEF Check
    <2> QED BY <1>21, <2>1, <2>2 DEF Check
<1>22. ASSUME NEW w \in Workers, Insert(w) PROVE CallPhase'
    <2>1. CASE InsertFails(w)
        <3> HIDE DEF TypeRest, TypeWakee, WorkerPhase
        <3> QED BY <1>22, <2>1 DEF Insert, InsertFails
    <2>2. CASE PushAsleep(w)
        <3> HIDE DEF TypeRest, TypeWakee, WorkerPhase
        <3> QED BY <1>22, <2>2 DEF Insert, PushAsleep
    <2>3. CASE InsertTooLate(w)
        <3> HIDE DEF TypeRest, TypeWakee, WorkerPhase
        <3> QED BY <1>22, <2>3 DEF Insert, InsertTooLate
    <2> QED BY <1>22, <2>1, <2>2, <2>3 DEF Insert
<1>23. ASSUME NEW w \in Workers, Undo(w) PROVE CallPhase'
    BY <1>23 DEF Undo
<1>24. ASSUME NEW w \in Workers, Commit(w) PROVE CallPhase'
    <2>1. CASE Sleep(w)
        BY <1>24, <2>1 DEF Commit, Sleep
    <2>2. CASE w \notin fresh /\ CancelWait(w) /\ Goto(w, "chain")
        BY <1>24, <2>2 DEF Commit
    <2> QED BY <1>24, <2>1, <2>2 DEF Commit
<1>25. ASSUME NEW w \in Workers, Wake(w) PROVE CallPhase'
    BY <1>25 DEF Wake
<1>26. ASSUME NEW w \in Workers, Cancel(w) PROVE CallPhase'
    BY <1>26 DEF Cancel
<1>27. ASSUME NEW w \in Workers, Exit(w) PROVE CallPhase'
    BY <1>27 DEF Exit
<1>28. ASSUME NEW w \in Workers, Deref(w) PROVE CallPhase'
    BY <1>28 DEF Deref, RemoveRef
<1>29. CASE UNCHANGED vars
    BY <1>29 DEF vars
<1> HIDE DEF CallPhase, WorkerPhase, life, list, monitor, local, market, Goto, WakeLocs,
    CloseLocs, TypePc, TypeRest, TypeWakee
<1> QED
    BY <1>1, <1>2, <1>3, <1>4, <1>5, <1>6, <1>7, <1>8, <1>9, <1>10, <1>11, <1>12, <1>13,
        <1>14, <1>15, <1>16, <1>17, <1>18, <1>19, <1>20, <1>21, <1>22, <1>23, <1>24, <1>25,
        <1>26, <1>27, <1>28, <1>29
    DEF Next, ServerStep, WorkerStep, ClientStep

LEMMA WakePhaseKept ==
    TypePc /\ TypeNumbers /\ TypeWakee /\ WorkerPhase /\ CallPhase /\ WakePhase /\
    [Next]_vars =>
    WakePhase'
<1> SUFFICES ASSUME TypePc, TypeNumbers, TypeWakee, WorkerPhase, CallPhase, WakePhase,
                    [Next]_vars
             PROVE  WakePhase'
    OBVIOUS
<1> USE Sets DEF WakePhase, CallPhase, WorkerPhase, life, list, monitor, local, market,
    Goto, WakeLocs, CloseLocs, TypePc, TypeNumbers, TypeAdd, AddRange, TypeWakee
<1>1. ASSUME NEW t \in Threads, WsLock(t) PROVE WakePhase'
    BY <1>1 DEF WsLock
<1>2. ASSUME NEW t \in Threads, WsTake(t) PROVE WakePhase'
    <2>1. CASE UseDemand(t)
        <3>1. /\ pc[t] = "ws_loop" /\ pc' = pc /\ add[t] > 0 /\ add[t] \in Int /\ add'[t] = add[t] - 1
              /\ \A u \in Threads : u # t => add'[u] = add[u] /\ wakee'[u] = wakee[u]
            BY <1>2, <2>1, Bounds DEF WsTake, PopAsleep, UseDemand
        <3> HIDE DEF CallPhase, WorkerPhase, TypePc, TypeNumbers, TypeAdd, AddRange, TypeWakee
        <3> QED BY <3>1
    <2>2. CASE UseSlack(t)
        BY <1>2, <2>2 DEF WsTake, PopAsleep, UseSlack
    <2> QED BY <1>2, <2>1, <2>2 DEF WsTake
<1>3. ASSUME NEW t \in Threads, WsEnough(t) PROVE WakePhase'
    BY <1>3 DEF WsEnough
<1>4. ASSUME NEW t \in Threads, WsReturn(t) PROVE WakePhase'
    <2>1. PICK loc \in {"loop", "process", "rest"} : loc = ret[t]
        OBVIOUS
    <2> QED BY <1>4, <2>1 DEF WsReturn
<1>5. ASSUME NEW t \in Threads, WsWake(t) PROVE WakePhase'
    <2>1. CASE Launch(t, LastTaken(t))
        <3>1. PICK w \in Workers : w = LastTaken(t)
            BY <1>5, LastIsWorker DEF WsWake
        <3> HIDE DEF TypeNumbers, CallPhase
        <3> QED BY <1>5, <2>1, <3>1 DEF WsWake, Launch
    <2>2. CASE Notify(t, LastTaken(t))
        BY <1>5, <2>2 DEF WsWake, Notify
    <2> QED BY <1>5, <2>1, <2>2 DEF WsWake
<1>6. ASSUME NEW t \in Threads, WsSignal(t) PROVE WakePhase'
    BY <1>6 DEF WsSignal, DoneWith
<1>7. ASSUME NEW t \in Threads, WsNorm(t) PROVE WakePhase'
    <2>1. CASE StoreHandle(LastTaken(t))
        BY <1>7, <2>1 DEF WsNorm, DoneWith, StoreHandle
    <2>2. CASE my_state[LastTaken(t)] # "starting" /\ ReleaseHandle(LastTaken(t)) /\ UNCHANGED my_state
        BY <1>7, <2>2 DEF WsNorm, DoneWith, ReleaseHandle
    <2> QED BY <1>7, <2>1, <2>2 DEF WsNorm
<1>8. ASSUME NEW t \in Threads, Adjust(t) PROVE WakePhase'
    <2>1. CASE TakeBack(t)
        <3>1. /\ pc[t] = "adjust" /\ add'[t] = 0 /\ UNCHANGED wakee
              /\ pc'[t] \in {"loop", "process", "rest"}
              /\ \A u \in Threads : u # t => pc'[u] = pc[u]
              /\ \A u \in Threads : u # t => add'[u] = add[u]
            BY <1>8, <2>1 DEF Adjust, TakeBack
        <3> HIDE DEF CallPhase, WorkerPhase, TypeNumbers, TypeAdd, AddRange, TypeWakee, TypePc
        <3> QED BY <3>1
    <2>2. CASE add[t] > 0 /\ WakeSome(t, add[t], ret[t]) /\ UNCHANGED my_slack
        BY <1>8, <2>2 DEF Adjust, WakeSome
    <2> QED BY <1>8, <2>1, <2>2 DEF Adjust
<1>9. ASSUME NEW t \in Threads, CloseWorker(t) PROVE WakePhase'
    <2>1. CASE my_state[shut] = "init" /\ Goto(t, "c_ref") /\ UNCHANGED <<monitor, add>>
        BY <1>9, <2>1 DEF CloseWorker
    <2>2. CASE TellToQuit(t)
        BY <1>9, <2>2 DEF CloseWorker, TellToQuit
    <2> QED BY <1>9, <2>1, <2>2 DEF CloseWorker
<1>10. ASSUME NEW t \in Threads, CloseSignal(t) PROVE WakePhase'
    <2>1. CASE add[t] = 1 /\ Goto(t, "c_release") /\ UNCHANGED shut
        BY <1>10, <2>1 DEF CloseSignal
    <2>2. CASE add[t] = 0 /\ Goto(t, "close") /\ shut' = shut + 1
        BY <1>10, <2>2 DEF CloseSignal
    <2> QED BY <1>10, <2>1, <2>2 DEF CloseSignal
<1>11. ASSUME NEW t \in Threads, CloseRelease(t) PROVE WakePhase'
    BY <1>11 DEF CloseRelease, ReleaseHandle
<1>12. ASSUME NEW t \in Threads, CloseRef(t) PROVE WakePhase'
    BY <1>12 DEF CloseRef, RemoveRef
<1>13. ASSUME NEW t \in Threads, CloseEnd(t) PROVE WakePhase'
    <2>1. CASE t \in Masters /\ Goto(t, "gone")
        BY <1>13, <2>1 DEF CloseEnd, RemoveRef
    <2>2. CASE t \in Workers /\ Goto(t, "process")
        BY <1>13, <2>2 DEF CloseEnd, RemoveRef
    <2> QED BY <1>13, <2>1, <2>2 DEF CloseEnd
<1>14. ASSUME NEW t \in Threads, Close(t) PROVE WakePhase'
    BY <1>14 DEF Close, Outside, Adjusting
<1>15. ASSUME NEW t \in Threads, NEW d \in (-MaxDemand)..MaxDemand, Demand(t, d) PROVE WakePhase'
    BY <1>15 DEF Demand, Outside
<1>16. ASSUME NEW w \in Workers, Chain(w) PROVE WakePhase'
    <2>1. CASE root = Nobody /\ Goto(w, "loop") /\ UNCHANGED local
        BY <1>16, <2>1 DEF Chain
    <2>2. CASE root # Nobody /\ WakeSome(w, 0, "loop")
        BY <1>16, <2>2 DEF Chain, WakeSome
    <2> QED BY <1>16, <2>1, <2>2 DEF Chain
<1>17. ASSUME NEW w \in Workers, Loop(w) PROVE WakePhase'
    <2>1. CASE my_state[w] = "quit" /\ Goto(w, "exit")
        BY <1>17, <2>1 DEF Loop
    <2>2. CASE my_state[w] # "quit" /\ my_slack >= 0 /\ Goto(w, "process")
        BY <1>17, <2>2 DEF Loop
    <2>3. CASE my_state[w] # "quit" /\ ~ (my_slack >= 0) /\ Goto(w, "prepare")
        BY <1>17, <2>3 DEF Loop
    <2> HIDE DEF WakePhase, CallPhase, WorkerPhase, life, list, monitor, local, market,
        WakeLocs, CloseLocs, TypePc, TypeNumbers, TypeAdd, AddRange, TypeWakee
    <2> QED BY <1>17, <2>1, <2>2, <2>3 DEF Loop
<1>18. ASSUME NEW w \in Workers, ProcessReturns(w) PROVE WakePhase'
    BY <1>18 DEF ProcessReturns
<1>19. ASSUME NEW w \in Workers, Prepare(w) PROVE WakePhase'
    BY <1>19 DEF Prepare
<1>20. ASSUME NEW w \in Workers, InWait(w) PROVE WakePhase'
    BY <1>20 DEF InWait
<1>21. ASSUME NEW w \in Workers, Check(w) PROVE WakePhase'
    <2>1. CASE my_state[w] = "quit" /\ Goto(w, "cancel")
        BY <1>21, <2>1 DEF Check
    <2>2. CASE my_state[w] # "quit" /\ Goto(w, "insert")
        BY <1>21, <2>2 DEF Check
    <2> QED BY <1>21, <2>1, <2>2 DEF Check
<1>22. ASSUME NEW w \in Workers, Insert(w) PROVE WakePhase'
    <2>1. CASE InsertFails(w)
        BY <1>22, <2>1 DEF Insert, InsertFails
    <2>2. CASE PushAsleep(w)
        BY <1>22, <2>2 DEF Insert, PushAsleep
    <2>3. CASE InsertTooLate(w)
        BY <1>22, <2>3 DEF Insert, InsertTooLate
    <2> QED BY <1>22, <2>1, <2>2, <2>3 DEF Insert
<1>23. ASSUME NEW w \in Workers, Undo(w) PROVE WakePhase'
    BY <1>23 DEF Undo
<1>24. ASSUME NEW w \in Workers, Commit(w) PROVE WakePhase'
    <2>1. CASE Sleep(w)
        BY <1>24, <2>1 DEF Commit, Sleep
    <2>2. CASE w \notin fresh /\ CancelWait(w) /\ Goto(w, "chain")
        BY <1>24, <2>2 DEF Commit
    <2> QED BY <1>24, <2>1, <2>2 DEF Commit
<1>25. ASSUME NEW w \in Workers, Wake(w) PROVE WakePhase'
    BY <1>25 DEF Wake
<1>26. ASSUME NEW w \in Workers, Cancel(w) PROVE WakePhase'
    BY <1>26 DEF Cancel
<1>27. ASSUME NEW w \in Workers, Exit(w) PROVE WakePhase'
    BY <1>27 DEF Exit
<1>28. ASSUME NEW w \in Workers, Deref(w) PROVE WakePhase'
    BY <1>28 DEF Deref, RemoveRef
<1>29. CASE UNCHANGED vars
    BY <1>29 DEF vars
<1> HIDE DEF WakePhase, CallPhase, WorkerPhase, life, list, monitor, local, market, Goto,
    WakeLocs, CloseLocs, TypePc, TypeNumbers, TypeAdd, AddRange, TypeWakee
<1> QED
    BY <1>1, <1>2, <1>3, <1>4, <1>5, <1>6, <1>7, <1>8, <1>9, <1>10, <1>11, <1>12, <1>13,
        <1>14, <1>15, <1>16, <1>17, <1>18, <1>19, <1>20, <1>21, <1>22, <1>23, <1>24, <1>25,
        <1>26, <1>27, <1>28, <1>29
    DEF Next, ServerStep, WorkerStep, ClientStep

LEMMA ClosePhaseKept ==
    TypePc /\ TypeRest /\ TypeNumbers /\ TypeWakee /\ WorkerPhase /\ CallPhase /\
    WakePhase /\ ClosePhase /\ [Next]_vars =>
    ClosePhase'
<1> SUFFICES ASSUME TypePc, TypeRest, TypeNumbers, TypeWakee, WorkerPhase, CallPhase,
                    WakePhase, ClosePhase, [Next]_vars
             PROVE  ClosePhase'
    OBVIOUS
<1> USE Sets DEF ClosePhase, CallPhase, WorkerPhase, life, list, monitor, local, market,
    Goto, WakeLocs, CloseLocs, TypePc, TypeRest, TypeNumbers, TypeAdd, AddRange, TypeWakee
<1>1. ASSUME NEW t \in Threads, WsLock(t) PROVE ClosePhase'
    BY <1>1 DEF WsLock
<1>2. ASSUME NEW t \in Threads, WsTake(t) PROVE ClosePhase'
    <2>1. CASE UseDemand(t)
        <3> HIDE DEF CallPhase, WorkerPhase, TypeRest, TypeWakee, WakeLocs, AddRange
        <3> QED BY <1>2, <2>1 DEF WsTake, UseDemand
    <2>2. CASE UseSlack(t)
        <3> HIDE DEF CallPhase, WorkerPhase, TypeRest, TypeWakee, WakeLocs, AddRange
        <3> QED BY <1>2, <2>2 DEF WsTake, PopAsleep, UseSlack
    <2> QED BY <1>2, <2>1, <2>2 DEF WsTake
<1>3. ASSUME NEW t \in Threads, WsEnough(t) PROVE ClosePhase'
    <2> HIDE DEF WorkerPhase, TypeRest, TypeWakee, AddRange
    <2> QED BY <1>3 DEF WsEnough
<1>4. ASSUME NEW t \in Threads, WsReturn(t) PROVE ClosePhase'
    <2>1. /\ pc[t] = "ws_wake" /\ ret'[t] = "loop" /\ pc'[t] = ret[t]
          /\ pc'[t] \in {"loop", "process", "rest"}
          /\ \A u \in Threads : u # t => pc'[u] = pc[u] /\ ret'[u] = ret[u]
          /\ UNCHANGED <<my_state, shut, add>>
        BY <1>4 DEF WsReturn
    <2>2. \A u \in Threads : pc'[u] \in CloseLocs \cup {"gone"} => u # t /\ pc'[u] = pc[u]
        BY <2>1
    <2> HIDE DEF TypePc, TypeRest, TypeNumbers, TypeAdd, AddRange, TypeWakee, CallPhase,
        WorkerPhase, WakeLocs
    <2> QED BY <2>1, <2>2
<1>5. ASSUME NEW t \in Threads, WsWake(t) PROVE ClosePhase'
    <2>1. CASE Launch(t, LastTaken(t))
        <3>1. PICK w \in Workers : w = LastTaken(t)
            BY <1>5, <2>1, LastIsWorker DEF WsWake
        <3>2. /\ pc[t] = "ws_wake" /\ my_state[w] = "init" /\ pc[w] = "none"
              /\ pc'[t] = "ws_norm" /\ pc'[w] = "chain"
              /\ \A u \in Threads : u # t /\ u # w => pc'[u] = pc[u]
              /\ my_state'[w] = "starting" /\ \A v \in Workers : v # w => my_state'[v] = my_state[v]
              /\ UNCHANGED <<shut, add, ret, wakee, handle>>
            BY <1>5, <2>1, <3>1 DEF WsWake, Launch
        <3> HIDE DEF TypePc, TypeRest, TypeNumbers, TypeAdd, AddRange, TypeWakee,
            CallPhase, WorkerPhase, WakeLocs
        <3>3. ASSUME NEW u \in Threads, NEW v \in Threads, pc'[u] \in CloseLocs, pc'[v] \in CloseLocs
              PROVE  u = v
            BY <3>2, <3>3
        <3>4. ASSUME NEW u \in Threads
              PROVE  /\ pc'[u] \in CloseLocs \cup {"gone"} => shut' # 0
                     /\ shut' # 0 /\ ret'[u] # "loop" => pc'[u] \in CloseLocs
            BY <3>2 DEF CallPhase, WorkerPhase, WakeLocs
        <3>5. ASSUME NEW u \in Threads, pc'[u] \in CloseLocs \ {"close"}
              PROVE  u # t /\ u # w /\ shut \in Workers /\ my_state[shut] = "quit" /\ shut # w
            BY <3>2, <3>5
        <3>6. ASSUME NEW u \in Threads, pc'[u] \in CloseLocs \ {"close"}
              PROVE  /\ shut' \in Workers /\ my_state'[shut'] = "quit"
                     /\ pc'[u] = "c_ref" => pc'[shut'] = "none"
                     /\ pc'[u] \in {"c_signal", "c_release"} => pc'[shut'] # "none"
                     /\ pc'[u] = "c_signal" => add'[u] \in {0, 1}
            BY <3>2, <3>5, <3>6
        <3>8. ASSUME NEW u \in Threads, NEW v \in Workers, my_state'[v] = "quit"
              PROVE  (pc'[u] = "close" => v < shut') /\ (pc'[u] \in CloseLocs => v <= shut')
            BY <3>2, <3>8
        <3>7. \A v \in Workers : my_state'[v] = "quit" => shut' # 0
            BY <3>2
        <3> QED BY <3>3, <3>4, <3>6, <3>7, <3>8
    <2>2. CASE Notify(t, LastTaken(t))
        <3> HIDE DEF CallPhase, WorkerPhase, TypeRest, TypeWakee, AddRange
        <3> QED BY <1>5, <2>2 DEF WsWake, Notify
    <2> QED BY <1>5, <2>1, <2>2 DEF WsWake
<1>6. ASSUME NEW t \in Threads, WsSignal(t) PROVE ClosePhase'
    BY <1>6 DEF WsSignal, DoneWith
<1>7. ASSUME NEW t \in Threads, WsNorm(t) PROVE ClosePhase'
    <2>1. CASE StoreHandle(LastTaken(t))
        <3>1. PICK w \in Workers : w = LastTaken(t)
            BY <1>7, LastIsWorker DEF WsNorm, WakePhase
        <3>2. /\ pc[t] = "ws_norm" /\ pc'[t] = "ws_wake" /\ UNCHANGED <<shut, add, ret>>
              /\ \A u \in Threads : u # t => pc'[u] = pc[u]
              /\ my_state'[w] = "normal" /\ \A v \in Workers : v # w => my_state'[v] = my_state[v]
              /\ my_state[w] # "quit"
            BY <1>7, <2>1, <3>1 DEF WsNorm, DoneWith, StoreHandle
        <3> HIDE DEF TypePc, TypeRest, TypeNumbers, TypeAdd, AddRange, TypeWakee,
            CallPhase, WorkerPhase, WakeLocs
        <3> QED BY <3>2
    <2>2. CASE my_state[LastTaken(t)] # "starting" /\ ReleaseHandle(LastTaken(t)) /\ UNCHANGED my_state
        <3> HIDE DEF CallPhase, WorkerPhase, TypeRest, TypeWakee, AddRange, WakeLocs
        <3> QED BY <1>7, <2>2 DEF WsNorm, DoneWith, ReleaseHandle
    <2> QED BY <1>7, <2>1, <2>2 DEF WsNorm
<1>8. ASSUME NEW t \in Threads, Adjust(t) PROVE ClosePhase'
    <2>1. CASE TakeBack(t)
        <3>1. /\ pc[t] = "adjust" /\ ret'[t] = "loop" /\ add'[t] = 0
              /\ pc'[t] \in {"loop", "process", "rest"}
              /\ \A u \in Threads : u # t => pc'[u] = pc[u]
              /\ \A u \in Threads : u # t => ret'[u] = ret[u] /\ add'[u] = add[u]
              /\ UNCHANGED <<my_state, shut>>
            BY <1>8, <2>1 DEF Adjust, TakeBack
        <3> HIDE DEF TypePc, TypeRest, TypeNumbers, TypeAdd, AddRange, TypeWakee,
            CallPhase, WorkerPhase, WakeLocs
        <3> QED BY <3>1
    <2>2. CASE add[t] > 0 /\ WakeSome(t, add[t], ret[t]) /\ UNCHANGED my_slack
        BY <1>8, <2>2 DEF Adjust, WakeSome
    <2> QED BY <1>8, <2>1, <2>2 DEF Adjust
<1>9. ASSUME NEW t \in Threads, CloseWorker(t) PROVE ClosePhase'
    <2>1. CASE my_state[shut] = "init" /\ Goto(t, "c_ref") /\ UNCHANGED <<monitor, add>>
        <3> HIDE DEF TypeWakee, CallPhase, AddRange
        <3> QED BY <1>9, <2>1 DEF CloseWorker
    <2>2. CASE TellToQuit(t)
        <3>1. /\ pc[t] = "close" /\ shut \in Workers /\ my_state[shut] # "init"
              /\ pc'[t] = "c_signal" /\ \A u \in Threads : u # t => pc'[u] = pc[u]
              /\ my_state'[shut] = "quit" /\ \A v \in Workers : v # shut => my_state'[v] = my_state[v]
              /\ add'[t] = (IF my_state[shut] = "normal" THEN 1 ELSE 0)
              /\ \A u \in Threads : u # t => add'[u] = add[u]
              /\ UNCHANGED <<shut, ret, wakee, handle>>
            BY <1>9, <2>2 DEF CloseWorker, TellToQuit
        <3> HIDE DEF TypePc, TypeRest, TypeNumbers, TypeAdd, AddRange, TypeWakee,
            CallPhase, WorkerPhase, WakeLocs
        <3>2. ASSUME NEW u \in Threads, NEW v \in Threads, pc'[u] \in CloseLocs, pc'[v] \in CloseLocs
              PROVE  u = v
            BY <3>1, <3>2
        <3>3. ASSUME NEW u \in Threads
              PROVE  /\ pc'[u] \in CloseLocs \cup {"gone"} => shut' # 0
                     /\ shut' # 0 /\ ret'[u] # "loop" => pc'[u] \in CloseLocs
            BY <3>1
        <3>4. pc[shut] # "none" /\ pc'[shut] # "none"
            BY <3>1, WorkersAreNat DEF WorkerPhase
        <3>5. ASSUME NEW u \in Threads, pc'[u] \in CloseLocs \ {"close"}
              PROVE  /\ u = t /\ shut' \in Workers /\ my_state'[shut'] = "quit"
                     /\ pc'[u] = "c_signal" /\ pc'[shut'] # "none" /\ add'[u] \in {0, 1}
            BY <3>1, <3>2, <3>4, <3>5
        <3>6. ASSUME NEW v \in Workers, my_state'[v] = "quit" PROVE  v <= shut' /\ shut' # 0
            BY <3>1, <3>6, WorkersAreNat
        <3>7. ASSUME NEW u \in Threads, pc'[u] = "close" PROVE  FALSE
            BY <3>1, <3>2, <3>7
        <3> QED BY <3>2, <3>3, <3>5, <3>6, <3>7
    <2> QED BY <1>9, <2>1, <2>2 DEF CloseWorker
<1>10. ASSUME NEW t \in Threads, CloseSignal(t) PROVE ClosePhase'
    <2>1. CASE add[t] = 1 /\ Goto(t, "c_release") /\ UNCHANGED shut
        BY <1>10, <2>1, WorkersAreNat DEF CloseSignal
    <2>2. CASE add[t] = 0 /\ Goto(t, "close") /\ shut' = shut + 1
        BY <1>10, <2>2, WorkersAreNat DEF CloseSignal
    <2> QED BY <1>10, <2>1, <2>2 DEF CloseSignal
<1>11. ASSUME NEW t \in Threads, CloseRelease(t) PROVE ClosePhase'
    <2>1. /\ pc[t] = "c_release" /\ shut \in Workers /\ my_state[shut] = "quit"
          /\ pc'[t] = "close" /\ \A u \in Threads : u # t => pc'[u] = pc[u]
          /\ shut' = shut + 1 /\ UNCHANGED <<my_state, ret>>
        BY <1>11 DEF CloseRelease, ReleaseHandle
    <2> HIDE DEF TypePc, TypeRest, TypeNumbers, TypeAdd, AddRange, TypeWakee, CallPhase,
        WorkerPhase, WakeLocs
    <2>2. ASSUME NEW u \in Threads, pc'[u] \in CloseLocs PROVE  u = t
        BY <2>1, <2>2
    <2>3. ASSUME NEW v \in Workers, my_state'[v] = "quit" PROVE  v < shut'
        BY <2>1, <2>3, WorkersAreNat
    <2>4. shut' # 0
        BY <2>1, WorkersAreNat
    <2>5. ASSUME NEW u \in Threads PROVE  ret'[u] # "loop" => pc'[u] \in CloseLocs
        BY <2>1
    <2>6. ASSUME NEW v \in Workers, my_state'[v] = "quit" PROVE  v <= shut'
        BY <2>3, <2>6, <2>1, WorkersAreNat
    <2> QED BY <2>1, <2>2, <2>3, <2>4, <2>5, <2>6
<1>12. ASSUME NEW t \in Threads, CloseRef(t) PROVE ClosePhase'
    <2>1. /\ pc[t] = "c_ref" /\ shut \in Workers /\ my_state[shut] = "quit"
          /\ pc'[t] = "close" /\ \A u \in Threads : u # t => pc'[u] = pc[u]
          /\ shut' = shut + 1 /\ UNCHANGED <<my_state, ret>>
        BY <1>12 DEF CloseRef, RemoveRef
    <2> HIDE DEF TypePc, TypeRest, TypeNumbers, TypeAdd, AddRange, TypeWakee, CallPhase,
        WorkerPhase, WakeLocs
    <2>2. ASSUME NEW u \in Threads, pc'[u] \in CloseLocs PROVE  u = t
        BY <2>1, <2>2
    <2>3. ASSUME NEW v \in Workers, my_state'[v] = "quit" PROVE  v < shut'
        BY <2>1, <2>3, WorkersAreNat
    <2>4. shut' # 0
        BY <2>1, WorkersAreNat
    <2>5. ASSUME NEW u \in Threads PROVE  ret'[u] # "loop" => pc'[u] \in CloseLocs
        BY <2>1
    <2>6. ASSUME NEW v \in Workers, my_state'[v] = "quit" PROVE  v <= shut'
        BY <2>3, <2>6, <2>1, WorkersAreNat
    <2> QED BY <2>1, <2>2, <2>3, <2>4, <2>5, <2>6
<1>13. ASSUME NEW t \in Threads, CloseEnd(t) PROVE ClosePhase'
    <2>1. CASE t \in Masters /\ Goto(t, "gone")
        BY <1>13, <2>1 DEF CloseEnd, RemoveRef
    <2>2. CASE t \in Workers /\ Goto(t, "process")
        BY <1>13, <2>2 DEF CloseEnd, RemoveRef
    <2> QED BY <1>13, <2>1, <2>2 DEF CloseEnd
<1>14. ASSUME NEW t \in Threads, Close(t) PROVE ClosePhase'
    BY <1>14 DEF Close, Outside, Adjusting
<1>15. ASSUME NEW t \in Threads, NEW d \in (-MaxDemand)..MaxDemand, Demand(t, d) PROVE ClosePhase'
    BY <1>15 DEF Demand, Outside
<1>16. ASSUME NEW w \in Workers, Chain(w) PROVE ClosePhase'
    <2>1. CASE root = Nobody /\ Goto(w, "loop") /\ UNCHANGED local
        BY <1>16, <2>1 DEF Chain
    <2>2. CASE root # Nobody /\ WakeSome(w, 0, "loop")
        BY <1>16, <2>2 DEF Chain, WakeSome
    <2> QED BY <1>16, <2>1, <2>2 DEF Chain
<1>17. ASSUME NEW w \in Workers, Loop(w) PROVE ClosePhase'
    <2>1. CASE my_state[w] = "quit" /\ Goto(w, "exit")
        BY <1>17, <2>1 DEF Loop
    <2>2. CASE my_state[w] # "quit" /\ my_slack >= 0 /\ Goto(w, "process")
        BY <1>17, <2>2 DEF Loop
    <2>3. CASE my_state[w] # "quit" /\ ~ (my_slack >= 0) /\ Goto(w, "prepare")
        BY <1>17, <2>3 DEF Loop
    <2> HIDE DEF ClosePhase, CallPhase, WorkerPhase, life, list, monitor, local, market,
        WakeLocs, CloseLocs, TypePc, TypeRest, TypeNumbers, TypeAdd, AddRange, TypeWakee
    <2> QED BY <1>17, <2>1, <2>2, <2>3 DEF Loop
<1>18. ASSUME NEW w \in Workers, ProcessReturns(w) PROVE ClosePhase'
    <2> HIDE DEF CallPhase, WorkerPhase, TypeRest, TypeWakee, AddRange, WakeLocs
    <2> QED BY <1>18 DEF ProcessReturns
<1>19. ASSUME NEW w \in Workers, Prepare(w) PROVE ClosePhase'
    BY <1>19 DEF Prepare
<1>20. ASSUME NEW w \in Workers, InWait(w) PROVE ClosePhase'
    BY <1>20 DEF InWait
<1>21. ASSUME NEW w \in Workers, Check(w) PROVE ClosePhase'
    <2>1. CASE my_state[w] = "quit" /\ Goto(w, "cancel")
        BY <1>21, <2>1 DEF Check
    <2>2. CASE my_state[w] # "quit" /\ Goto(w, "insert")
        BY <1>21, <2>2 DEF Check
    <2> QED BY <1>21, <2>1, <2>2 DEF Check
<1>22. ASSUME NEW w \in Workers, Insert(w) PROVE ClosePhase'
    <2>1. CASE InsertFails(w)
        BY <1>22, <2>1 DEF Insert, InsertFails
    <2>2. CASE PushAsleep(w)
        BY <1>22, <2>2 DEF Insert, PushAsleep
    <2>3. CASE InsertTooLate(w)
        BY <1>22, <2>3 DEF Insert, InsertTooLate
    <2> QED BY <1>22, <2>1, <2>2, <2>3 DEF Insert
<1>23. ASSUME NEW w \in Workers, Undo(w) PROVE ClosePhase'
    BY <1>23 DEF Undo
<1>24. ASSUME NEW w \in Workers, Commit(w) PROVE ClosePhase'
    <2>1. CASE Sleep(w)
        BY <1>24, <2>1 DEF Commit, Sleep
    <2>2. CASE w \notin fresh /\ CancelWait(w) /\ Goto(w, "chain")
        BY <1>24, <2>2 DEF Commit
    <2> QED BY <1>24, <2>1, <2>2 DEF Commit
<1>25. ASSUME NEW w \in Workers, Wake(w) PROVE ClosePhase'
    BY <1>25 DEF Wake
<1>26. ASSUME NEW w \in Workers, Cancel(w) PROVE ClosePhase'
    BY <1>26 DEF Cancel
<1>27. ASSUME NEW w \in Workers, Exit(w) PROVE ClosePhase'
    <2> HIDE DEF CallPhase, WorkerPhase, TypeRest, TypeWakee, AddRange, WakeLocs
    <2> QED BY <1>27 DEF Exit
<1>28. ASSUME NEW w \in Workers, Deref(w) PROVE ClosePhase'
    BY <1>28 DEF Deref, RemoveRef
<1>29. CASE UNCHANGED vars
    BY <1>29 DEF vars
<1> HIDE DEF ClosePhase, CallPhase, WorkerPhase, life, list, monitor, local, market, Goto,
    WakeLocs, CloseLocs, TypePc, TypeRest, TypeNumbers, TypeAdd, AddRange, TypeWakee
<1> QED
    BY <1>1, <1>2, <1>3, <1>4, <1>5, <1>6, <1>7, <1>8, <1>9, <1>10, <1>11, <1>12, <1>13,
        <1>14, <1>15, <1>16, <1>17, <1>18, <1>19, <1>20, <1>21, <1>22, <1>23, <1>24, <1>25,
        <1>26, <1>27, <1>28, <1>29
    DEF Next, ServerStep, WorkerStep, ClientStep

LEMMA MonitorKept ==
    TypePc /\ TypeMonitor /\ TypeWakee /\ TypeRest /\ WorkerPhase /\ MonitorExact /\
    [Next]_vars =>
    MonitorExact'
<1> SUFFICES ASSUME TypePc, TypeMonitor, TypeWakee, TypeRest, WorkerPhase, MonitorExact,
                    [Next]_vars
             PROVE  MonitorExact'
    OBVIOUS
<1> USE Sets DEF MonitorExact, Waiting, WorkerPhase, life, list, monitor, local, market,
    Goto, WakeLocs, CloseLocs, TypePc, TypeMonitor, TypeWakee, TypeRest
<1>1. ASSUME NEW t \in Threads, WsLock(t) PROVE MonitorExact'
    BY <1>1 DEF WsLock
<1>2. ASSUME NEW t \in Threads, WsTake(t) PROVE MonitorExact'
    <2>1. CASE UseDemand(t)
        BY <1>2, <2>1 DEF WsTake, PopAsleep, UseDemand
    <2>2. CASE UseSlack(t)
        BY <1>2, <2>2 DEF WsTake, PopAsleep, UseSlack
    <2> QED BY <1>2, <2>1, <2>2 DEF WsTake
<1>3. ASSUME NEW t \in Threads, WsEnough(t) PROVE MonitorExact'
    BY <1>3 DEF WsEnough
<1>4. ASSUME NEW t \in Threads, WsReturn(t) PROVE MonitorExact'
    <2>1. PICK loc \in {"loop", "process", "rest"} : loc = ret[t]
        OBVIOUS
    <2> QED BY <1>4, <2>1 DEF WsReturn
<1>5. ASSUME NEW t \in Threads, WsWake(t) PROVE MonitorExact'
    <2>1. CASE Launch(t, LastTaken(t))
        <3>1. PICK w \in Workers : w = LastTaken(t)
            BY <1>5, LastIsWorker DEF WsWake
        <3> QED BY <1>5, <2>1, <3>1 DEF WsWake, Launch
    <2>2. CASE Notify(t, LastTaken(t))
        BY <1>5, <2>2 DEF WsWake, Notify, NotifyEpoch
    <2> QED BY <1>5, <2>1, <2>2 DEF WsWake
<1>6. ASSUME NEW t \in Threads, WsSignal(t) PROVE MonitorExact'
    BY <1>6 DEF WsSignal, NotifySignal, DoneWith
<1>7. ASSUME NEW t \in Threads, WsNorm(t) PROVE MonitorExact'
    <2>1. CASE StoreHandle(LastTaken(t))
        BY <1>7, <2>1 DEF WsNorm, DoneWith, StoreHandle
    <2>2. CASE my_state[LastTaken(t)] # "starting" /\ ReleaseHandle(LastTaken(t)) /\ UNCHANGED my_state
        BY <1>7, <2>2 DEF WsNorm, DoneWith, ReleaseHandle
    <2> QED BY <1>7, <2>1, <2>2 DEF WsNorm
<1>8. ASSUME NEW t \in Threads, Adjust(t) PROVE MonitorExact'
    <2>1. CASE TakeBack(t)
        <3>1. PICK loc \in {"loop", "process", "rest"} : loc = ret[t]
            OBVIOUS
        <3> QED BY <1>8, <2>1, <3>1 DEF Adjust, TakeBack
    <2>2. CASE add[t] > 0 /\ WakeSome(t, add[t], ret[t]) /\ UNCHANGED my_slack
        BY <1>8, <2>2 DEF Adjust, WakeSome
    <2> QED BY <1>8, <2>1, <2>2 DEF Adjust
<1>9. ASSUME NEW t \in Threads, CloseWorker(t) PROVE MonitorExact'
    <2>1. CASE my_state[shut] = "init" /\ Goto(t, "c_ref") /\ UNCHANGED <<monitor, add>>
        BY <1>9, <2>1 DEF CloseWorker
    <2>2. CASE TellToQuit(t)
        BY <1>9, <2>2 DEF CloseWorker, TellToQuit, NotifyEpoch
    <2> QED BY <1>9, <2>1, <2>2 DEF CloseWorker
<1>10. ASSUME NEW t \in Threads, CloseSignal(t) PROVE MonitorExact'
    <2>1. CASE add[t] = 1 /\ Goto(t, "c_release") /\ UNCHANGED shut
        BY <1>10, <2>1 DEF CloseSignal, NotifySignal
    <2>2. CASE add[t] = 0 /\ Goto(t, "close") /\ shut' = shut + 1
        BY <1>10, <2>2 DEF CloseSignal, NotifySignal
    <2> QED BY <1>10, <2>1, <2>2 DEF CloseSignal
<1>11. ASSUME NEW t \in Threads, CloseRelease(t) PROVE MonitorExact'
    BY <1>11 DEF CloseRelease, ReleaseHandle
<1>12. ASSUME NEW t \in Threads, CloseRef(t) PROVE MonitorExact'
    BY <1>12 DEF CloseRef, RemoveRef
<1>13. ASSUME NEW t \in Threads, CloseEnd(t) PROVE MonitorExact'
    <2>1. CASE t \in Masters /\ Goto(t, "gone")
        BY <1>13, <2>1 DEF CloseEnd, RemoveRef
    <2>2. CASE t \in Workers /\ Goto(t, "process")
        BY <1>13, <2>2 DEF CloseEnd, RemoveRef
    <2> QED BY <1>13, <2>1, <2>2 DEF CloseEnd
<1>14. ASSUME NEW t \in Threads, Close(t) PROVE MonitorExact'
    BY <1>14 DEF Close, Outside, Adjusting
<1>15. ASSUME NEW t \in Threads, NEW d \in (-MaxDemand)..MaxDemand, Demand(t, d) PROVE MonitorExact'
    BY <1>15 DEF Demand, Outside
<1>16. ASSUME NEW w \in Workers, Chain(w) PROVE MonitorExact'
    <2>1. CASE root = Nobody /\ Goto(w, "loop") /\ UNCHANGED local
        BY <1>16, <2>1 DEF Chain
    <2>2. CASE root # Nobody /\ WakeSome(w, 0, "loop")
        BY <1>16, <2>2 DEF Chain, WakeSome
    <2> QED BY <1>16, <2>1, <2>2 DEF Chain
<1>17. ASSUME NEW w \in Workers, Loop(w) PROVE MonitorExact'
    <2>1. CASE my_state[w] = "quit" /\ Goto(w, "exit")
        BY <1>17, <2>1 DEF Loop
    <2>2. CASE my_state[w] # "quit" /\ my_slack >= 0 /\ Goto(w, "process")
        BY <1>17, <2>2 DEF Loop
    <2>3. CASE my_state[w] # "quit" /\ ~ (my_slack >= 0) /\ Goto(w, "prepare")
        BY <1>17, <2>3 DEF Loop
    <2> QED BY <1>17, <2>1, <2>2, <2>3 DEF Loop
<1>18. ASSUME NEW w \in Workers, ProcessReturns(w) PROVE MonitorExact'
    BY <1>18 DEF ProcessReturns
<1>19. ASSUME NEW w \in Workers, Prepare(w) PROVE MonitorExact'
    BY <1>19 DEF Prepare
<1>20. ASSUME NEW w \in Workers, InWait(w) PROVE MonitorExact'
    BY <1>20 DEF InWait
<1>21. ASSUME NEW w \in Workers, Check(w) PROVE MonitorExact'
    <2>1. CASE my_state[w] = "quit" /\ Goto(w, "cancel")
        BY <1>21, <2>1 DEF Check
    <2>2. CASE my_state[w] # "quit" /\ Goto(w, "insert")
        BY <1>21, <2>2 DEF Check
    <2> QED BY <1>21, <2>1, <2>2 DEF Check
<1>22. ASSUME NEW w \in Workers, Insert(w) PROVE MonitorExact'
    <2>1. CASE InsertFails(w)
        BY <1>22, <2>1 DEF Insert, InsertFails
    <2>2. CASE PushAsleep(w)
        BY <1>22, <2>2 DEF Insert, PushAsleep
    <2>3. CASE InsertTooLate(w)
        BY <1>22, <2>3 DEF Insert, InsertTooLate
    <2> QED BY <1>22, <2>1, <2>2, <2>3 DEF Insert
<1>23. ASSUME NEW w \in Workers, Undo(w) PROVE MonitorExact'
    BY <1>23 DEF Undo
<1>24. ASSUME NEW w \in Workers, Commit(w) PROVE MonitorExact'
    <2>1. CASE Sleep(w)
        BY <1>24, <2>1 DEF Commit, Sleep
    <2>2. CASE w \notin fresh /\ CancelWait(w) /\ Goto(w, "chain")
        BY <1>24, <2>2 DEF Commit, CancelWait
    <2> QED BY <1>24, <2>1, <2>2 DEF Commit
<1>25. ASSUME NEW w \in Workers, Wake(w) PROVE MonitorExact'
    BY <1>25 DEF Wake
<1>26. ASSUME NEW w \in Workers, Cancel(w) PROVE MonitorExact'
    BY <1>26 DEF Cancel, CancelWait
<1>27. ASSUME NEW w \in Workers, Exit(w) PROVE MonitorExact'
    BY <1>27 DEF Exit
<1>28. ASSUME NEW w \in Workers, Deref(w) PROVE MonitorExact'
    BY <1>28 DEF Deref, RemoveRef
<1>29. CASE UNCHANGED vars
    BY <1>29 DEF vars
<1> HIDE DEF MonitorExact, Waiting, WorkerPhase, life, list, monitor, local, market, Goto,
    WakeLocs, CloseLocs, TypePc, TypeMonitor, TypeWakee, TypeRest
<1> QED
    BY <1>1, <1>2, <1>3, <1>4, <1>5, <1>6, <1>7, <1>8, <1>9, <1>10, <1>11, <1>12, <1>13,
        <1>14, <1>15, <1>16, <1>17, <1>18, <1>19, <1>20, <1>21, <1>22, <1>23, <1>24, <1>25,
        <1>26, <1>27, <1>28, <1>29
    DEF Next, ServerStep, WorkerStep, ClientStep

LEMMA HandleKept ==
    TypePc /\ TypeRest /\ TypeAdd /\ TypeWakee /\ WorkerPhase /\ WakePhase /\ ClosePhase /\
    HandleOnce /\ [Next]_vars =>
    HandleOnce'
<1> SUFFICES ASSUME TypePc, TypeRest, TypeAdd, TypeWakee, WorkerPhase, WakePhase, ClosePhase,
                    HandleOnce, [Next]_vars
             PROVE  HandleOnce'
    OBVIOUS
<1> USE Sets DEF HandleOnce, ClosePhase, WakePhase, WorkerPhase, LastTaken, life, list,
    monitor, local, market, Goto, WakeLocs, CloseLocs, TypePc, TypeRest, TypeAdd, TypeWakee
<1>1. ASSUME NEW t \in Threads, WsLock(t) PROVE HandleOnce'
    BY <1>1 DEF WsLock
<1>2. ASSUME NEW t \in Threads, WsTake(t) PROVE HandleOnce'
    <2>1. CASE UseDemand(t)
        BY <1>2, <2>1 DEF WsTake, PopAsleep, UseDemand
    <2>2. CASE UseSlack(t)
        BY <1>2, <2>2 DEF WsTake, PopAsleep, UseSlack
    <2> QED BY <1>2, <2>1, <2>2 DEF WsTake
<1>3. ASSUME NEW t \in Threads, WsEnough(t) PROVE HandleOnce'
    BY <1>3 DEF WsEnough
<1>4. ASSUME NEW t \in Threads, WsReturn(t) PROVE HandleOnce'
    <2>1. PICK loc \in {"loop", "process", "rest"} : loc = ret[t]
        OBVIOUS
    <2> QED BY <1>4, <2>1 DEF WsReturn
<1>5. ASSUME NEW t \in Threads, WsWake(t) PROVE HandleOnce'
    <2>1. CASE Launch(t, LastTaken(t))
        <3>1. PICK w \in Workers : w = LastTaken(t)
            BY <1>5, <2>1, LastIsWorker DEF WsWake
        <3>2. /\ pc[t] = "ws_wake" /\ my_state[w] = "init" /\ pc[w] = "none"
              /\ pc'[t] = "ws_norm" /\ pc'[w] = "chain"
              /\ \A u \in Threads : u # t /\ u # w => pc'[u] = pc[u]
              /\ my_state'[w] = "starting" /\ \A v \in Workers : v # w => my_state'[v] = my_state[v]
              /\ UNCHANGED <<shut, add, ret, wakee, handle>>
            BY <1>5, <2>1, <3>1 DEF WsWake, Launch
        <3> HIDE DEF TypePc, TypeRest, TypeAdd, TypeWakee, ClosePhase, WakePhase,
            WorkerPhase, WakeLocs, CloseLocs
        <3>7. ASSUME NEW v \in Workers
              PROVE  /\ handle'[v] = "set" => my_state'[v] \in {"normal", "quit"}
                     /\ my_state'[v] = "normal" => handle'[v] = "set"
                     /\ my_state'[v] \in {"init", "starting"} => handle'[v] = "none"
            BY <3>1, <3>2
        <3>8. ASSUME NEW u \in Threads, pc'[u] = "ws_norm"
              PROVE  /\ handle'[LastTaken(u)'] = "none" /\ my_state'[LastTaken(u)'] \in {"starting", "quit"}
                     /\ LastTaken(u)' = LastTaken(u)
            BY <3>1, <3>2, <3>8, LastIsWorker DEF WakePhase
        <3>9. ASSUME NEW u \in Threads
              PROVE  /\ pc'[u] = "c_signal" /\ add'[u] = 1 => handle'[shut'] = "set"
                     /\ pc'[u] = "c_release" => handle'[shut'] = "set"
            BY <3>1, <3>2 DEF ClosePhase, CloseLocs
        <3>10. ASSUME NEW u \in Threads, NEW v \in Threads,
                      pc'[u] = "ws_norm", pc'[v] = "ws_norm", LastTaken(u)' = LastTaken(v)'
               PROVE  u = v
            BY <3>1, <3>2, <3>8, <3>10
        <3> QED BY <3>7, <3>8, <3>9, <3>10
    <2>2. CASE Notify(t, LastTaken(t))
        BY <1>5, <2>2 DEF WsWake, Notify
    <2> QED BY <1>5, <2>1, <2>2 DEF WsWake
<1>6. ASSUME NEW t \in Threads, WsSignal(t) PROVE HandleOnce'
    BY <1>6 DEF WsSignal, DoneWith
<1>7. ASSUME NEW t \in Threads, WsNorm(t) PROVE HandleOnce'
    <2>1. CASE StoreHandle(LastTaken(t))
        <3>1. PICK w \in Workers : w = LastTaken(t)
            BY <1>7, <2>1, LastIsWorker DEF WsNorm
        <3>2. /\ pc[t] = "ws_norm" /\ my_state[w] = "starting"
              /\ my_state'[w] = "normal" /\ \A v \in Workers : v # w => my_state'[v] = my_state[v]
              /\ handle'[w] = "set" /\ \A v \in Workers : v # w => handle'[v] = handle[v]
              /\ pc'[t] = "ws_wake" /\ \A u \in Threads : u # t => pc'[u] = pc[u]
              /\ UNCHANGED <<shut, add>> /\ \A u \in Threads : u # t => wakee'[u] = wakee[u]
            BY <1>7, <2>1, <3>1 DEF WsNorm, DoneWith, StoreHandle
        <3> HIDE DEF TypePc, TypeRest, TypeAdd, TypeWakee, ClosePhase, WakePhase,
            WorkerPhase, WakeLocs, CloseLocs
        <3>7. ASSUME NEW v \in Workers
              PROVE  /\ handle'[v] = "set" => my_state'[v] \in {"normal", "quit"}
                     /\ my_state'[v] = "normal" => handle'[v] = "set"
                     /\ my_state'[v] \in {"init", "starting"} => handle'[v] = "none"
            BY <3>1, <3>2
        <3>8. ASSUME NEW u \in Threads, pc'[u] = "ws_norm"
              PROVE  /\ handle'[LastTaken(u)'] = "none" /\ my_state'[LastTaken(u)'] \in {"starting", "quit"}
                     /\ LastTaken(u)' = LastTaken(u)
            BY <3>1, <3>2, <3>8, LastIsWorker DEF WakePhase
        <3>9. ASSUME NEW u \in Threads
              PROVE  /\ pc'[u] = "c_signal" /\ add'[u] = 1 => handle'[shut'] = "set"
                     /\ pc'[u] = "c_release" => handle'[shut'] = "set"
            BY <3>1, <3>2 DEF ClosePhase, CloseLocs
        <3>10. ASSUME NEW u \in Threads, NEW v \in Threads,
                      pc'[u] = "ws_norm", pc'[v] = "ws_norm", LastTaken(u)' = LastTaken(v)'
               PROVE  u = v
            BY <3>1, <3>2, <3>8, <3>10
        <3> QED BY <3>7, <3>8, <3>9, <3>10
    <2>2. CASE my_state[LastTaken(t)] # "starting" /\ ReleaseHandle(LastTaken(t)) /\ UNCHANGED my_state
        <3>1. PICK w \in Workers : w = LastTaken(t)
            BY <1>7, <2>2, LastIsWorker DEF WsNorm
        <3>2. /\ pc[t] = "ws_norm" /\ my_state[w] # "starting"
              /\ handle'[w] = "released" /\ \A v \in Workers : v # w => handle'[v] = handle[v]
              /\ pc'[t] = "ws_wake" /\ \A u \in Threads : u # t => pc'[u] = pc[u]
              /\ UNCHANGED <<my_state, shut, add>> /\ \A u \in Threads : u # t => wakee'[u] = wakee[u]
            BY <1>7, <2>2, <3>1 DEF WsNorm, DoneWith, ReleaseHandle
        <3> HIDE DEF TypePc, TypeRest, TypeAdd, TypeWakee, ClosePhase, WakePhase,
            WorkerPhase, WakeLocs, CloseLocs
        <3>7. ASSUME NEW v \in Workers
              PROVE  /\ handle'[v] = "set" => my_state'[v] \in {"normal", "quit"}
                     /\ my_state'[v] = "normal" => handle'[v] = "set"
                     /\ my_state'[v] \in {"init", "starting"} => handle'[v] = "none"
            BY <3>1, <3>2
        <3>8. ASSUME NEW u \in Threads, pc'[u] = "ws_norm"
              PROVE  /\ handle'[LastTaken(u)'] = "none" /\ my_state'[LastTaken(u)'] \in {"starting", "quit"}
                     /\ LastTaken(u)' = LastTaken(u)
            BY <3>1, <3>2, <3>8, LastIsWorker DEF WakePhase
        <3>9. ASSUME NEW u \in Threads
              PROVE  /\ pc'[u] = "c_signal" /\ add'[u] = 1 => handle'[shut'] = "set"
                     /\ pc'[u] = "c_release" => handle'[shut'] = "set"
            BY <3>1, <3>2 DEF ClosePhase, CloseLocs
        <3>10. ASSUME NEW u \in Threads, NEW v \in Threads,
                      pc'[u] = "ws_norm", pc'[v] = "ws_norm", LastTaken(u)' = LastTaken(v)'
               PROVE  u = v
            BY <3>1, <3>2, <3>8, <3>10
        <3> QED BY <3>7, <3>8, <3>9, <3>10
    <2> QED BY <1>7, <2>1, <2>2 DEF WsNorm
<1>8. ASSUME NEW t \in Threads, Adjust(t) PROVE HandleOnce'
    <2>1. CASE TakeBack(t)
        <3>1. PICK loc \in {"loop", "process", "rest"} : loc = ret[t]
            OBVIOUS
        <3> QED BY <1>8, <2>1, <3>1 DEF Adjust, TakeBack
    <2>2. CASE add[t] > 0 /\ WakeSome(t, add[t], ret[t]) /\ UNCHANGED my_slack
        BY <1>8, <2>2 DEF Adjust, WakeSome
    <2> QED BY <1>8, <2>1, <2>2 DEF Adjust
<1>9. ASSUME NEW t \in Threads, CloseWorker(t) PROVE HandleOnce'
    <2>1. CASE my_state[shut] = "init" /\ Goto(t, "c_ref") /\ UNCHANGED <<monitor, add>>
        <3>1. /\ pc[t] = "close" /\ shut \in Workers /\ my_state[shut] = "init"
              /\ pc'[t] = "c_ref" /\ \A u \in Threads : u # t => pc'[u] = pc[u]
              /\ my_state'[shut] = "quit" /\ \A v \in Workers : v # shut => my_state'[v] = my_state[v]
              /\ UNCHANGED <<shut, add, ret, wakee, handle>>
            BY <1>9, <2>1 DEF CloseWorker
        <3> HIDE DEF TypePc, TypeRest, TypeAdd, TypeWakee, ClosePhase, WakePhase,
            WorkerPhase, WakeLocs, CloseLocs
        <3>7. ASSUME NEW v \in Workers
              PROVE  /\ handle'[v] = "set" => my_state'[v] \in {"normal", "quit"}
                     /\ my_state'[v] = "normal" => handle'[v] = "set"
                     /\ my_state'[v] \in {"init", "starting"} => handle'[v] = "none"
            BY <3>1
        <3>8. ASSUME NEW u \in Threads, pc'[u] = "ws_norm"
              PROVE  /\ handle'[LastTaken(u)'] = "none" /\ my_state'[LastTaken(u)'] \in {"starting", "quit"}
                     /\ LastTaken(u)' = LastTaken(u)
            BY <3>1, <3>8, LastIsWorker DEF WakePhase
        <3>9. ASSUME NEW u \in Threads
              PROVE  /\ pc'[u] = "c_signal" /\ add'[u] = 1 => handle'[shut'] = "set"
                     /\ pc'[u] = "c_release" => handle'[shut'] = "set"
            BY <3>1 DEF ClosePhase, CloseLocs
        <3>10. ASSUME NEW u \in Threads, NEW v \in Threads,
                      pc'[u] = "ws_norm", pc'[v] = "ws_norm", LastTaken(u)' = LastTaken(v)'
               PROVE  u = v
            BY <3>1, <3>8, <3>10
        <3> QED BY <3>7, <3>8, <3>9, <3>10
    <2>2. CASE TellToQuit(t)
        <3>1. /\ pc[t] = "close" /\ shut \in Workers /\ my_state[shut] # "init"
              /\ pc'[t] = "c_signal" /\ \A u \in Threads : u # t => pc'[u] = pc[u]
              /\ my_state'[shut] = "quit" /\ \A v \in Workers : v # shut => my_state'[v] = my_state[v]
              /\ add'[t] = (IF my_state[shut] = "normal" THEN 1 ELSE 0)
              /\ \A u \in Threads : u # t => add'[u] = add[u]
              /\ UNCHANGED <<shut, ret, wakee, handle>>
            BY <1>9, <2>2 DEF CloseWorker, TellToQuit
        <3> HIDE DEF TypePc, TypeRest, TypeAdd, TypeWakee, ClosePhase, WakePhase,
            WorkerPhase, WakeLocs, CloseLocs
        <3>7. ASSUME NEW v \in Workers
              PROVE  /\ handle'[v] = "set" => my_state'[v] \in {"normal", "quit"}
                     /\ my_state'[v] = "normal" => handle'[v] = "set"
                     /\ my_state'[v] \in {"init", "starting"} => handle'[v] = "none"
            BY <3>1
        <3>8. ASSUME NEW u \in Threads, pc'[u] = "ws_norm"
              PROVE  /\ handle'[LastTaken(u)'] = "none" /\ my_state'[LastTaken(u)'] \in {"starting", "quit"}
                     /\ LastTaken(u)' = LastTaken(u)
            BY <3>1, <3>8, LastIsWorker DEF WakePhase
        <3>9. ASSUME NEW u \in Threads
              PROVE  /\ pc'[u] = "c_signal" /\ add'[u] = 1 => handle'[shut'] = "set"
                     /\ pc'[u] = "c_release" => handle'[shut'] = "set"
            BY <3>1 DEF ClosePhase, CloseLocs
        <3>10. ASSUME NEW u \in Threads, NEW v \in Threads,
                      pc'[u] = "ws_norm", pc'[v] = "ws_norm", LastTaken(u)' = LastTaken(v)'
               PROVE  u = v
            BY <3>1, <3>8, <3>10
        <3> QED BY <3>7, <3>8, <3>9, <3>10
    <2> QED BY <1>9, <2>1, <2>2 DEF CloseWorker
<1>10. ASSUME NEW t \in Threads, CloseSignal(t) PROVE HandleOnce'
    <2>1. CASE add[t] = 1 /\ Goto(t, "c_release") /\ UNCHANGED shut
        BY <1>10, <2>1 DEF CloseSignal
    <2>2. CASE add[t] = 0 /\ Goto(t, "close") /\ shut' = shut + 1
        BY <1>10, <2>2 DEF CloseSignal
    <2> QED BY <1>10, <2>1, <2>2 DEF CloseSignal
<1>11. ASSUME NEW t \in Threads, CloseRelease(t) PROVE HandleOnce'
    BY <1>11 DEF CloseRelease, ReleaseHandle
<1>12. ASSUME NEW t \in Threads, CloseRef(t) PROVE HandleOnce'
    BY <1>12 DEF CloseRef, RemoveRef
<1>13. ASSUME NEW t \in Threads, CloseEnd(t) PROVE HandleOnce'
    <2>1. CASE t \in Masters /\ Goto(t, "gone")
        BY <1>13, <2>1 DEF CloseEnd, RemoveRef
    <2>2. CASE t \in Workers /\ Goto(t, "process")
        BY <1>13, <2>2 DEF CloseEnd, RemoveRef
    <2> QED BY <1>13, <2>1, <2>2 DEF CloseEnd
<1>14. ASSUME NEW t \in Threads, Close(t) PROVE HandleOnce'
    BY <1>14 DEF Close, Outside, Adjusting
<1>15. ASSUME NEW t \in Threads, NEW d \in (-MaxDemand)..MaxDemand, Demand(t, d) PROVE HandleOnce'
    BY <1>15 DEF Demand, Outside
<1>16. ASSUME NEW w \in Workers, Chain(w) PROVE HandleOnce'
    <2>1. CASE root = Nobody /\ Goto(w, "loop") /\ UNCHANGED local
        BY <1>16, <2>1 DEF Chain
    <2>2. CASE root # Nobody /\ WakeSome(w, 0, "loop")
        BY <1>16, <2>2 DEF Chain, WakeSome
    <2> QED BY <1>16, <2>1, <2>2 DEF Chain
<1>17. ASSUME NEW w \in Workers, Loop(w) PROVE HandleOnce'
    <2>1. CASE my_state[w] = "quit" /\ Goto(w, "exit")
        BY <1>17, <2>1 DEF Loop
    <2>2. CASE my_state[w] # "quit" /\ my_slack >= 0 /\ Goto(w, "process")
        BY <1>17, <2>2 DEF Loop
    <2>3. CASE my_state[w] # "quit" /\ ~ (my_slack >= 0) /\ Goto(w, "prepare")
        BY <1>17, <2>3 DEF Loop
    <2> HIDE DEF HandleOnce, ClosePhase, WakePhase, WorkerPhase, LastTaken, life, list,
        monitor, local, market, WakeLocs, CloseLocs, TypePc, TypeRest, TypeAdd, TypeWakee
    <2> QED BY <1>17, <2>1, <2>2, <2>3 DEF Loop
<1>18. ASSUME NEW w \in Workers, ProcessReturns(w) PROVE HandleOnce'
    BY <1>18 DEF ProcessReturns
<1>19. ASSUME NEW w \in Workers, Prepare(w) PROVE HandleOnce'
    BY <1>19 DEF Prepare
<1>20. ASSUME NEW w \in Workers, InWait(w) PROVE HandleOnce'
    BY <1>20 DEF InWait
<1>21. ASSUME NEW w \in Workers, Check(w) PROVE HandleOnce'
    <2>1. CASE my_state[w] = "quit" /\ Goto(w, "cancel")
        BY <1>21, <2>1 DEF Check
    <2>2. CASE my_state[w] # "quit" /\ Goto(w, "insert")
        BY <1>21, <2>2 DEF Check
    <2> QED BY <1>21, <2>1, <2>2 DEF Check
<1>22. ASSUME NEW w \in Workers, Insert(w) PROVE HandleOnce'
    <2>1. CASE InsertFails(w)
        BY <1>22, <2>1 DEF Insert, InsertFails
    <2>2. CASE PushAsleep(w)
        BY <1>22, <2>2 DEF Insert, PushAsleep
    <2>3. CASE InsertTooLate(w)
        BY <1>22, <2>3 DEF Insert, InsertTooLate
    <2> QED BY <1>22, <2>1, <2>2, <2>3 DEF Insert
<1>23. ASSUME NEW w \in Workers, Undo(w) PROVE HandleOnce'
    BY <1>23 DEF Undo
<1>24. ASSUME NEW w \in Workers, Commit(w) PROVE HandleOnce'
    <2>1. CASE Sleep(w)
        BY <1>24, <2>1 DEF Commit, Sleep
    <2>2. CASE w \notin fresh /\ CancelWait(w) /\ Goto(w, "chain")
        BY <1>24, <2>2 DEF Commit
    <2> QED BY <1>24, <2>1, <2>2 DEF Commit
<1>25. ASSUME NEW w \in Workers, Wake(w) PROVE HandleOnce'
    BY <1>25 DEF Wake
<1>26. ASSUME NEW w \in Workers, Cancel(w) PROVE HandleOnce'
    BY <1>26 DEF Cancel
<1>27. ASSUME NEW w \in Workers, Exit(w) PROVE HandleOnce'
    BY <1>27 DEF Exit
<1>28. ASSUME NEW w \in Workers, Deref(w) PROVE HandleOnce'
    BY <1>28 DEF Deref, RemoveRef
<1>29. CASE UNCHANGED vars
    BY <1>29 DEF vars
<1> HIDE DEF HandleOnce, ClosePhase, WakePhase, WorkerPhase, LastTaken, life, list,
    monitor, local, market, Goto, WakeLocs, CloseLocs, TypePc, TypeRest, TypeAdd, TypeWakee
<1> QED
    BY <1>1, <1>2, <1>3, <1>4, <1>5, <1>6, <1>7, <1>8, <1>9, <1>10, <1>11, <1>12, <1>13,
        <1>14, <1>15, <1>16, <1>17, <1>18, <1>19, <1>20, <1>21, <1>22, <1>23, <1>24, <1>25,
        <1>26, <1>27, <1>28, <1>29
    DEF Next, ServerStep, WorkerStep, ClientStep

SameRefs ==
    /\ \A w \in Workers : Referring(w)' <=> Referring(w)
    /\ ClientRefers' <=> ClientRefers
    /\ UNCHANGED <<my_ref_count, alive>>

WorkerDrops(w) ==
    /\ Referring(w) /\ ~ Referring(w)'
    /\ \A v \in Workers \ {w} : Referring(v)' <=> Referring(v)
    /\ ClientRefers' <=> ClientRefers
    /\ RemoveRef

ClientDrops ==
    /\ ClientRefers /\ ~ ClientRefers'
    /\ \A w \in Workers : Referring(w)' <=> Referring(w)
    /\ RemoveRef

RefsMove == SameRefs \/ (\E w \in Workers : WorkerDrops(w)) \/ ClientDrops

LEMMA RefsStep ==
    TypePc /\ TypeRest /\ TypeNumbers /\ TypeWakee /\ Phases /\ [Next]_vars =>
    RefsMove
<1> SUFFICES ASSUME TypePc, TypeRest, TypeNumbers, TypeWakee, Phases, [Next]_vars PROVE RefsMove
    OBVIOUS
<1> USE Sets DEF RefsMove, SameRefs, Referring, ClientRefers, Phases, WorkerPhase, life,
    list, monitor, local, market, Goto, WakeLocs, CloseLocs, TypePc, TypeRest, TypeNumbers,
    TypeAdd, AddRange, TypeWakee
<1>1. ASSUME NEW t \in Threads, WsLock(t) PROVE RefsMove
    BY <1>1 DEF WsLock
<1>2. ASSUME NEW t \in Threads, WsTake(t) PROVE RefsMove
    <2>1. CASE UseDemand(t)
        BY <1>2, <2>1 DEF WsTake, PopAsleep, UseDemand
    <2>2. CASE UseSlack(t)
        BY <1>2, <2>2 DEF WsTake, PopAsleep, UseSlack
    <2> QED BY <1>2, <2>1, <2>2 DEF WsTake
<1>3. ASSUME NEW t \in Threads, WsEnough(t) PROVE RefsMove
    BY <1>3 DEF WsEnough
<1>4. ASSUME NEW t \in Threads, WsReturn(t) PROVE RefsMove
    <2>1. PICK loc \in {"loop", "process", "rest"} : loc = ret[t]
        OBVIOUS
    <2> QED BY <1>4, <2>1 DEF WsReturn
<1>5. ASSUME NEW t \in Threads, WsWake(t) PROVE RefsMove
    <2>1. CASE Launch(t, LastTaken(t))
        <3>1. PICK w \in Workers : w = LastTaken(t)
            BY <1>5, LastIsWorker DEF WsWake
        <3>2. /\ pc[t] = "ws_wake" /\ my_state[w] = "init" /\ pc[w] = "none"
              /\ pc'[t] = "ws_norm" /\ pc'[w] = "chain" /\ my_state'[w] = "starting"
              /\ \A u \in Threads : u # t /\ u # w => pc'[u] = pc[u]
              /\ \A v \in Workers : v # w => my_state'[v] = my_state[v]
              /\ UNCHANGED <<shut, my_ref_count, alive>>
            BY <1>5, <2>1, <3>1 DEF WsWake, Launch
        <3> HIDE DEF TypePc, TypeRest, TypeNumbers, TypeAdd, AddRange, TypeWakee,
            WorkerPhase, Phases, WakeLocs
        <3> QED BY <3>2
    <2>2. CASE Notify(t, LastTaken(t))
        BY <1>5, <2>2 DEF WsWake, Notify
    <2> QED BY <1>5, <2>1, <2>2 DEF WsWake
<1>6. ASSUME NEW t \in Threads, WsSignal(t) PROVE RefsMove
    BY <1>6 DEF WsSignal, DoneWith
<1>7. ASSUME NEW t \in Threads, WsNorm(t) PROVE RefsMove
    <2>1. CASE StoreHandle(LastTaken(t))
        BY <1>7, <2>1 DEF WsNorm, DoneWith, StoreHandle
    <2>2. CASE my_state[LastTaken(t)] # "starting" /\ ReleaseHandle(LastTaken(t)) /\ UNCHANGED my_state
        BY <1>7, <2>2 DEF WsNorm, DoneWith, ReleaseHandle
    <2> QED BY <1>7, <2>1, <2>2 DEF WsNorm
<1>8. ASSUME NEW t \in Threads, Adjust(t) PROVE RefsMove
    <2>1. CASE TakeBack(t)
        <3>1. PICK loc \in {"loop", "process", "rest"} : loc = ret[t]
            OBVIOUS
        <3> QED BY <1>8, <2>1, <3>1 DEF Adjust, TakeBack
    <2>2. CASE add[t] > 0 /\ WakeSome(t, add[t], ret[t]) /\ UNCHANGED my_slack
        BY <1>8, <2>2 DEF Adjust, WakeSome
    <2> QED BY <1>8, <2>1, <2>2 DEF Adjust
<1>9. ASSUME NEW t \in Threads, CloseWorker(t) PROVE RefsMove
    <2>1. CASE my_state[shut] = "init" /\ Goto(t, "c_ref") /\ UNCHANGED <<monitor, add>>
        <3>1. /\ pc[t] = "close" /\ my_state[shut] = "init" /\ shut \in Workers /\ shut \in Int
              /\ pc'[t] = "c_ref" /\ \A u \in Threads : u # t => pc'[u] = pc[u]
              /\ my_state'[shut] = "quit" /\ \A v \in Workers : v # shut => my_state'[v] = my_state[v]
              /\ UNCHANGED <<shut, my_ref_count, alive>>
            BY <1>9, <2>1 DEF CloseWorker
        <3> HIDE DEF TypePc, TypeRest, TypeNumbers, TypeAdd, AddRange, TypeWakee, Phases,
            WakeLocs
        <3> QED BY <3>1
    <2>2. CASE TellToQuit(t)
        BY <1>9, <2>2 DEF CloseWorker, TellToQuit
    <2> QED BY <1>9, <2>1, <2>2 DEF CloseWorker
<1>10. ASSUME NEW t \in Threads, CloseSignal(t) PROVE RefsMove
    <2>1. CASE add[t] = 1 /\ Goto(t, "c_release") /\ UNCHANGED shut
        BY <1>10, <2>1 DEF CloseSignal
    <2>2. CASE add[t] = 0 /\ Goto(t, "close") /\ shut' = shut + 1
        <3>1. /\ pc[t] = "c_signal" /\ pc'[t] = "close" /\ \A u \in Threads : u # t => pc'[u] = pc[u]
              /\ shut \in Workers /\ shut' = shut + 1 /\ pc[shut] # "none"
              /\ UNCHANGED <<my_state, my_ref_count, alive>>
            BY <1>10, <2>2 DEF CloseSignal, Phases, ClosePhase
        <3> HIDE DEF TypePc, TypeRest, TypeNumbers, TypeAdd, AddRange, TypeWakee, Phases,
            WorkerPhase, WakeLocs, SameRefs
        <3>2. ASSUME NEW w \in Workers PROVE  Referring(w)' <=> Referring(w)
            BY <3>1, WorkersAreNat DEF Referring
        <3>3. ClientRefers /\ ClientRefers'
            BY <3>1 DEF ClientRefers, CloseLocs
        <3> QED BY <3>1, <3>2, <3>3 DEF SameRefs
    <2> QED BY <1>10, <2>1, <2>2 DEF CloseSignal
<1>11. ASSUME NEW t \in Threads, CloseRelease(t) PROVE RefsMove
    <2>1. /\ pc[t] = "c_release" /\ pc'[t] = "close" /\ \A u \in Threads : u # t => pc'[u] = pc[u]
          /\ shut \in Workers /\ shut' = shut + 1 /\ pc[shut] # "none"
          /\ UNCHANGED <<my_state, my_ref_count, alive>>
        BY <1>11 DEF CloseRelease, Phases, ClosePhase
    <2> HIDE DEF TypePc, TypeRest, TypeNumbers, TypeAdd, AddRange, TypeWakee, Phases,
        WorkerPhase, WakeLocs, SameRefs
    <2>2. ASSUME NEW w \in Workers PROVE  Referring(w)' <=> Referring(w)
        BY <2>1, WorkersAreNat DEF Referring
    <2>3. ClientRefers /\ ClientRefers'
        BY <2>1 DEF ClientRefers, CloseLocs
    <2> QED BY <2>1, <2>2, <2>3 DEF SameRefs
<1>12. ASSUME NEW t \in Threads, CloseRef(t) PROVE RefsMove
    <2>1. /\ pc[t] = "c_ref" /\ pc'[t] = "close" /\ \A u \in Threads : u # t => pc'[u] = pc[u]
          /\ shut \in Workers /\ shut' = shut + 1 /\ pc[shut] = "none" /\ my_state[shut] = "quit"
          /\ UNCHANGED my_state /\ RemoveRef
        BY <1>12 DEF CloseRef, Phases, ClosePhase
    <2> HIDE DEF TypePc, TypeRest, TypeNumbers, TypeAdd, AddRange, TypeWakee, Phases,
        WorkerPhase, WakeLocs, SameRefs
    <2>2. PICK v \in Workers : v = shut
        BY <2>1
    <2>3. Referring(v) /\ ~ Referring(v)'
        BY <2>1, <2>2, WorkersAreNat DEF Referring
    <2>4. ASSUME NEW w \in Workers \ {v} PROVE  Referring(w)' <=> Referring(w)
        BY <2>1, <2>2, WorkersAreNat DEF Referring
    <2>5. ClientRefers /\ ClientRefers'
        BY <2>1 DEF ClientRefers, CloseLocs
    <2> QED BY <2>1, <2>3, <2>4, <2>5 DEF WorkerDrops
<1>13. ASSUME NEW t \in Threads, CloseEnd(t) PROVE RefsMove
    <2>1. /\ pc[t] = "close" /\ pc'[t] = (IF t \in Masters THEN "gone" ELSE "process")
          /\ \A u \in Threads : u # t => pc'[u] = pc[u]
          /\ shut = NThread + 1 /\ UNCHANGED <<shut, my_state>> /\ RemoveRef
        BY <1>13 DEF CloseEnd
    <2>2. \A u \in Threads : pc[u] \in CloseLocs => u = t
        BY <2>1 DEF Phases, ClosePhase
    <2> HIDE DEF TypePc, TypeRest, TypeNumbers, TypeAdd, AddRange, TypeWakee, Phases,
        WorkerPhase, WakeLocs, SameRefs
    <2>3. ASSUME NEW w \in Workers PROVE  Referring(w)' <=> Referring(w)
        BY <2>1 DEF Referring
    <2>4. ClientRefers /\ ~ ClientRefers'
        BY <2>1, <2>2 DEF ClientRefers, CloseLocs
    <2> QED BY <2>1, <2>3, <2>4 DEF ClientDrops
<1>14. ASSUME NEW t \in Threads, Close(t) PROVE RefsMove
    <2>1. /\ pc[t] \in {"rest", "process"} /\ pc'[t] = "close"
          /\ \A u \in Threads : u # t => pc'[u] = pc[u]
          /\ shut = 0 /\ shut' = 1 /\ UNCHANGED <<my_state, my_ref_count, alive>>
        BY <1>14 DEF Close, Outside
    <2> HIDE DEF TypePc, TypeRest, TypeNumbers, TypeAdd, AddRange, TypeWakee, Phases,
        WorkerPhase, WakeLocs, SameRefs
    <2>2. \A w \in Workers : my_state[w] # "quit"
        BY <2>1 DEF Phases, ClosePhase
    <2>3. ASSUME NEW w \in Workers PROVE  Referring(w)' <=> Referring(w)
        BY <2>1, <2>2 DEF Referring
    <2>4. ClientRefers /\ ClientRefers'
        BY <2>1, Bounds DEF ClientRefers, CloseLocs
    <2> QED BY <2>1, <2>3, <2>4 DEF SameRefs
<1>15. ASSUME NEW t \in Threads, NEW d \in (-MaxDemand)..MaxDemand, Demand(t, d) PROVE RefsMove
    BY <1>15 DEF Demand, Outside
<1>16. ASSUME NEW w \in Workers, Chain(w) PROVE RefsMove
    <2>1. CASE root = Nobody /\ Goto(w, "loop") /\ UNCHANGED local
        BY <1>16, <2>1 DEF Chain
    <2>2. CASE root # Nobody /\ WakeSome(w, 0, "loop")
        BY <1>16, <2>2 DEF Chain, WakeSome
    <2> QED BY <1>16, <2>1, <2>2 DEF Chain
<1>17. ASSUME NEW w \in Workers, Loop(w) PROVE RefsMove
    <2>1. CASE my_state[w] = "quit" /\ Goto(w, "exit")
        BY <1>17, <2>1 DEF Loop
    <2>2. CASE my_state[w] # "quit" /\ my_slack >= 0 /\ Goto(w, "process")
        BY <1>17, <2>2 DEF Loop
    <2>3. CASE my_state[w] # "quit" /\ ~ (my_slack >= 0) /\ Goto(w, "prepare")
        BY <1>17, <2>3 DEF Loop
    <2> QED BY <1>17, <2>1, <2>2, <2>3 DEF Loop
<1>18. ASSUME NEW w \in Workers, ProcessReturns(w) PROVE RefsMove
    BY <1>18 DEF ProcessReturns
<1>19. ASSUME NEW w \in Workers, Prepare(w) PROVE RefsMove
    BY <1>19 DEF Prepare
<1>20. ASSUME NEW w \in Workers, InWait(w) PROVE RefsMove
    BY <1>20 DEF InWait
<1>21. ASSUME NEW w \in Workers, Check(w) PROVE RefsMove
    <2>1. CASE my_state[w] = "quit" /\ Goto(w, "cancel")
        BY <1>21, <2>1 DEF Check
    <2>2. CASE my_state[w] # "quit" /\ Goto(w, "insert")
        BY <1>21, <2>2 DEF Check
    <2> QED BY <1>21, <2>1, <2>2 DEF Check
<1>22. ASSUME NEW w \in Workers, Insert(w) PROVE RefsMove
    <2>1. CASE InsertFails(w)
        BY <1>22, <2>1 DEF Insert, InsertFails
    <2>2. CASE PushAsleep(w)
        BY <1>22, <2>2 DEF Insert, PushAsleep
    <2>3. CASE InsertTooLate(w)
        BY <1>22, <2>3 DEF Insert, InsertTooLate
    <2> QED BY <1>22, <2>1, <2>2, <2>3 DEF Insert
<1>23. ASSUME NEW w \in Workers, Undo(w) PROVE RefsMove
    BY <1>23 DEF Undo
<1>24. ASSUME NEW w \in Workers, Commit(w) PROVE RefsMove
    <2>1. CASE Sleep(w)
        BY <1>24, <2>1 DEF Commit, Sleep
    <2>2. CASE w \notin fresh /\ CancelWait(w) /\ Goto(w, "chain")
        BY <1>24, <2>2 DEF Commit
    <2> QED BY <1>24, <2>1, <2>2 DEF Commit
<1>25. ASSUME NEW w \in Workers, Wake(w) PROVE RefsMove
    BY <1>25 DEF Wake
<1>26. ASSUME NEW w \in Workers, Cancel(w) PROVE RefsMove
    BY <1>26 DEF Cancel
<1>27. ASSUME NEW w \in Workers, Exit(w) PROVE RefsMove
    BY <1>27 DEF Exit
<1>28. ASSUME NEW w \in Workers, Deref(w) PROVE RefsMove

    <2>1. WorkerDrops(w)
        BY <1>28 DEF Deref, WorkerDrops, ClosePhase
    <2> QED BY <2>1
<1>29. CASE UNCHANGED vars
    BY <1>29 DEF vars
<1> HIDE DEF SameRefs, Referring, ClientRefers, Phases, WorkerPhase, life, list, monitor,
    local, market, Goto, WakeLocs, CloseLocs, TypePc, TypeRest, TypeNumbers, TypeAdd,
    AddRange, TypeWakee
<1> QED
    BY <1>1, <1>2, <1>3, <1>4, <1>5, <1>6, <1>7, <1>8, <1>9, <1>10, <1>11, <1>12, <1>13,
        <1>14, <1>15, <1>16, <1>17, <1>18, <1>19, <1>20, <1>21, <1>22, <1>23, <1>24, <1>25,
        <1>26, <1>27, <1>28, <1>29
    DEF Next, ServerStep, WorkerStep, ClientStep

LEMMA RefsKept == TypeOK /\ Phases /\ RefsExact /\ [Next]_vars => RefsExact'
<1> SUFFICES ASSUME TypeOK, Phases, RefsExact, [Next]_vars PROVE RefsExact'
    OBVIOUS
<1> DEFINE R == {v \in Workers : Referring(v)}
<1> DEFINE S == {v \in Workers : Referring(v)'}
<1>1. R \subseteq Workers /\ IsFiniteSet(R) /\ Cardinality(R) \in Nat
    BY WorkerCount
<1>2. my_ref_count = Cardinality(R) + (IF ClientRefers THEN 1 ELSE 0) /\ (alive <=> my_ref_count # 0)
    BY DEF RefsExact
<1>3. SUFFICES /\ my_ref_count' = Cardinality(S) + (IF ClientRefers' THEN 1 ELSE 0)
               /\ alive' <=> my_ref_count' # 0
    BY DEF RefsExact
<1>4. CASE SameRefs
    <2>1. S = R
        BY <1>4 DEF SameRefs
    <2> HIDE DEF R, S
    <2> QED BY <1>2, <1>4, <2>1 DEF SameRefs
<1>5. ASSUME NEW w \in Workers, WorkerDrops(w)
      PROVE  /\ my_ref_count' = Cardinality(S) + (IF ClientRefers' THEN 1 ELSE 0)
             /\ alive' <=> my_ref_count' # 0
    <2>1. S = R \ {w} /\ w \in R
        BY <1>5 DEF WorkerDrops
    <2> HIDE DEF R, S
    <2>2. Cardinality(S) = Cardinality(R) - 1 /\ Cardinality(S) \in Nat
        BY <1>1, <2>1, FS_RemoveElement, FS_CardinalityType
    <2>3. my_ref_count \in Nat \ {0} /\ alive
        BY <1>1, <1>2, <2>2
    <2>4. (alive' <=> my_ref_count # 1) /\ my_ref_count' = my_ref_count - 1
        BY <1>5, <2>3 DEF WorkerDrops, RemoveRef
    <2>5. ClientRefers' <=> ClientRefers
        BY <1>5 DEF WorkerDrops
    <2> QED BY <1>1, <1>2, <2>2, <2>3, <2>4, <2>5
<1>6. CASE ClientDrops
    <2>1. S = R
        BY <1>6 DEF ClientDrops
    <2> HIDE DEF R, S
    <2>2. ClientRefers /\ ~ ClientRefers'
        BY <1>6 DEF ClientDrops
    <2>3. my_ref_count = Cardinality(R) + 1 /\ my_ref_count \in Nat \ {0} /\ alive
        BY <1>1, <1>2, <2>2
    <2>4. (alive' <=> my_ref_count # 1) /\ my_ref_count' = my_ref_count - 1
        BY <1>6, <2>3 DEF ClientDrops, RemoveRef
    <2> QED BY <1>1, <2>1, <2>2, <2>3, <2>4
<1>7. RefsMove
    BY RefsStep, TypeOKParts DEF TypeParts
<1> QED
    BY <1>4, <1>5, <1>6, <1>7 DEF RefsMove

-----------------------------------------------------------------------------
(* The list and the workers in somebody's hand *)

HandsSame ==
    /\ UNCHANGED <<stack, root, my_next, wakee>>
    /\ \A t \in Threads : /\ pc'[t] = "ws_norm" <=> pc[t] = "ws_norm"
                          /\ pc'[t] = "ws_signal" <=> pc[t] = "ws_signal"

HeldSame == \A w \in Workers : (Held(w)' <=> Held(w)) /\ (Told(w)' <=> Told(w))

Pushes(w) == Insert(w) /\ PushAsleep(w)

HandsMove ==
    \/ \E t \in Threads : WsTake(t) \/ WsWake(t) \/ WsSignal(t) \/ WsNorm(t)
    \/ \E w \in Workers : Pushes(w)

LEMMA HandsStep == TypePc /\ WorkerPhase /\ [Next]_vars => (HandsSame \/ HandsMove)
<1> SUFFICES ASSUME TypePc, WorkerPhase, [Next]_vars PROVE (HandsSame \/ HandsMove)
    OBVIOUS
<1> USE Sets DEF TypePc, WorkerPhase, HandsSame, life, list, monitor, local, market, Goto
<1>1. ASSUME NEW t \in Threads, WsLock(t) PROVE (HandsSame \/ HandsMove)
    BY <1>1 DEF WsLock
<1>2. ASSUME NEW t \in Threads, WsTake(t) PROVE (HandsSame \/ HandsMove)
    BY <1>2 DEF HandsMove
<1>3. ASSUME NEW t \in Threads, WsEnough(t) PROVE (HandsSame \/ HandsMove)
    BY <1>3 DEF WsEnough
<1>4. ASSUME NEW t \in Threads, WsReturn(t) PROVE (HandsSame \/ HandsMove)
    BY <1>4 DEF WsReturn
<1>5. ASSUME NEW t \in Threads, WsWake(t) PROVE (HandsSame \/ HandsMove)
    BY <1>5 DEF HandsMove
<1>6. ASSUME NEW t \in Threads, WsSignal(t) PROVE (HandsSame \/ HandsMove)
    BY <1>6 DEF HandsMove
<1>7. ASSUME NEW t \in Threads, WsNorm(t) PROVE (HandsSame \/ HandsMove)
    BY <1>7 DEF HandsMove
<1>8. ASSUME NEW t \in Threads, Adjust(t) PROVE (HandsSame \/ HandsMove)
    BY <1>8 DEF Adjust, TakeBack, WakeSome
<1>9. ASSUME NEW t \in Threads, CloseWorker(t) PROVE (HandsSame \/ HandsMove)
    BY <1>9 DEF CloseWorker, TellToQuit
<1>10. ASSUME NEW t \in Threads, CloseSignal(t) PROVE (HandsSame \/ HandsMove)
    BY <1>10 DEF CloseSignal
<1>11. ASSUME NEW t \in Threads, CloseRelease(t) PROVE (HandsSame \/ HandsMove)
    BY <1>11 DEF CloseRelease
<1>12. ASSUME NEW t \in Threads, CloseRef(t) PROVE (HandsSame \/ HandsMove)
    BY <1>12 DEF CloseRef
<1>13. ASSUME NEW t \in Threads, CloseEnd(t) PROVE (HandsSame \/ HandsMove)
    BY <1>13 DEF CloseEnd
<1>14. ASSUME NEW t \in Threads, Close(t) PROVE (HandsSame \/ HandsMove)
    BY <1>14 DEF Close, Outside, Adjusting
<1>15. ASSUME NEW t \in Threads, NEW d \in (-MaxDemand)..MaxDemand, Demand(t, d) PROVE (HandsSame \/ HandsMove)
    BY <1>15 DEF Demand, Outside
<1>16. ASSUME NEW w \in Workers, Chain(w) PROVE (HandsSame \/ HandsMove)
    BY <1>16 DEF Chain, WakeSome
<1>17. ASSUME NEW w \in Workers, Loop(w) PROVE (HandsSame \/ HandsMove)
    BY <1>17 DEF Loop
<1>18. ASSUME NEW w \in Workers, ProcessReturns(w) PROVE (HandsSame \/ HandsMove)
    BY <1>18 DEF ProcessReturns
<1>19. ASSUME NEW w \in Workers, Prepare(w) PROVE (HandsSame \/ HandsMove)
    BY <1>19 DEF Prepare
<1>20. ASSUME NEW w \in Workers, InWait(w) PROVE (HandsSame \/ HandsMove)
    BY <1>20 DEF InWait
<1>21. ASSUME NEW w \in Workers, Check(w) PROVE (HandsSame \/ HandsMove)
    BY <1>21 DEF Check
<1>22. ASSUME NEW w \in Workers, Insert(w) PROVE (HandsSame \/ HandsMove)
    <2>1. CASE InsertFails(w)
        BY <1>22, <2>1 DEF Insert, InsertFails
    <2>2. CASE PushAsleep(w)
        BY <1>22, <2>2 DEF HandsMove, Pushes
    <2>3. CASE InsertTooLate(w)
        BY <1>22, <2>3 DEF Insert, InsertTooLate
    <2> QED BY <1>22, <2>1, <2>2, <2>3 DEF Insert
<1>23. ASSUME NEW w \in Workers, Undo(w) PROVE (HandsSame \/ HandsMove)
    BY <1>23 DEF Undo
<1>24. ASSUME NEW w \in Workers, Commit(w) PROVE (HandsSame \/ HandsMove)
    BY <1>24 DEF Commit, Sleep
<1>25. ASSUME NEW w \in Workers, Wake(w) PROVE (HandsSame \/ HandsMove)
    BY <1>25 DEF Wake
<1>26. ASSUME NEW w \in Workers, Cancel(w) PROVE (HandsSame \/ HandsMove)
    BY <1>26 DEF Cancel
<1>27. ASSUME NEW w \in Workers, Exit(w) PROVE (HandsSame \/ HandsMove)
    BY <1>27 DEF Exit
<1>28. ASSUME NEW w \in Workers, Deref(w) PROVE (HandsSame \/ HandsMove)
    BY <1>28 DEF Deref
<1>29. CASE UNCHANGED vars
    BY <1>29 DEF vars
<1> QED
    BY <1>1, <1>2, <1>3, <1>4, <1>5, <1>6, <1>7, <1>8, <1>9, <1>10, <1>11, <1>12, <1>13,
        <1>14, <1>15, <1>16, <1>17, <1>18, <1>19, <1>20, <1>21, <1>22, <1>23, <1>24, <1>25,
        <1>26, <1>27, <1>28, <1>29
    DEF Next, ServerStep, WorkerStep, ClientStep

LEMMA HandsStay ==
    ASSUME HandsSame, ListIsStack, TakenOnce
    PROVE  ListIsStack' /\ TakenOnce' /\ HeldSame /\ Len(stack') = Len(stack)
<1>1. Listed' = Listed
    BY DEF HandsSame, Listed
<1>2. \A t \in Threads : Due(t)' = Due(t)
    BY DEF HandsSame, Due
<1>3. \A w \in Workers : Taken(w)' <=> Taken(w)
    BY <1>2 DEF HandsSame, Taken
<1>4. \A w \in Workers : Told(w)' <=> Told(w)
    BY DEF HandsSame, Told, LastTaken
<1>5. ListIsStack'
    BY DEF HandsSame, ListIsStack
<1>6. TakenOnce'
    BY <1>1, <1>2 DEF HandsSame, TakenOnce, Taken
<1> QED BY <1>1, <1>3, <1>4, <1>5, <1>6 DEF HeldSame, Held, HandsSame

\* The links after a worker has been taken off, and after one has been put on.
LEMMA ListAfterPop ==
    ASSUME ListIsStack, root # Nobody, root' = my_next[root], my_next' = my_next,
           stack' \in Seq(Workers), Len(stack') = Len(stack) - 1,
           \A i \in 1..(Len(stack) - 1) : stack'[i] = stack[i + 1]
    PROVE  /\ ListIsStack' /\ root \in Listed /\ Len(stack') = Len(stack) - 1
           /\ \A w \in Workers : w \in Listed' <=> w \in Listed /\ w # root
<1>1. stack \in Seq(Workers) /\ stack # <<>> /\ root = stack[1]
    BY DEF ListIsStack
<1>2. Len(stack) \in Nat \ {0}
    BY <1>1
<1>3. /\ stack' \in Seq(Workers) /\ Len(stack') = Len(stack) - 1
      /\ \A i \in 1..Len(stack') : stack'[i] = stack[i + 1] /\ i + 1 \in 1..Len(stack)
    BY <1>1, <1>2
<1>4. ASSUME NEW i \in 1..Len(stack'), NEW j \in 1..Len(stack'), stack'[i] = stack'[j]
      PROVE  i = j
    <2>1. stack[i + 1] = stack[j + 1] /\ i + 1 \in 1..Len(stack) /\ j + 1 \in 1..Len(stack)
        BY <1>3, <1>4
    <2>2. i + 1 = j + 1
        BY <2>1 DEF ListIsStack
    <2> QED BY <2>2
<1>5. root' = IF stack' = <<>> THEN Nobody ELSE stack'[1]
    <2>0. 1 \in 1..Len(stack)
        BY <1>2
    <2>1. root' = IF 1 = Len(stack) THEN Nobody ELSE stack[1 + 1]
        BY <1>1, <2>0 DEF ListIsStack
    <2>2. CASE Len(stack) = 1
        BY <1>3, <2>1, <2>2
    <2>3. CASE Len(stack) # 1
        <3>1. 1 \in 1..Len(stack')
            BY <1>2, <1>3, <2>3
        <3>2. stack' # <<>>
            BY <1>3, <3>1
        <3> QED BY <1>3, <2>1, <2>3, <3>1, <3>2
    <2> QED BY <2>2, <2>3
<1>6. ASSUME NEW i \in 1..Len(stack')
      PROVE  my_next'[stack'[i]] = IF i = Len(stack') THEN Nobody ELSE stack'[i + 1]
    <2>1. my_next[stack[i + 1]] = IF i + 1 = Len(stack) THEN Nobody ELSE stack[i + 1 + 1]
        BY <1>3 DEF ListIsStack
    <2>2. CASE i = Len(stack')
        BY <1>2, <1>3, <2>1, <2>2
    <2>3. CASE i # Len(stack')
        <3>1. Len(stack') \in Nat /\ Len(stack) = Len(stack') + 1
            BY <1>2, <1>3
        <3>2. i + 1 \in 1..Len(stack') /\ i + 1 # Len(stack)
            BY <2>3, <3>1
        <3> QED BY <1>3, <2>1, <2>3, <3>2
    <2> QED BY <2>2, <2>3
<1>7. root \in Listed
    BY <1>1, <1>2 DEF Listed
<1>8. ASSUME NEW w \in Workers, w \in Listed'
      PROVE  w \in Listed /\ w # root
    <2>1. PICK i \in 1..Len(stack') : stack'[i] = w
        BY <1>8 DEF Listed
    <2>2. i + 1 \in 1..Len(stack) /\ stack[i + 1] = w /\ i + 1 # 1 /\ 1 \in 1..Len(stack)
        BY <1>2, <1>3, <2>1
    <2> QED BY <1>1, <2>2 DEF Listed, ListIsStack
<1>9. ASSUME NEW w \in Workers, w \in Listed, w # root
      PROVE  w \in Listed'
    <2>1. PICK i \in 1..Len(stack) : stack[i] = w
        BY <1>9 DEF Listed
    <2>2. i - 1 \in 1..Len(stack') /\ stack'[i - 1] = w
        BY <1>1, <1>2, <1>3, <1>9, <2>1
    <2> QED BY <2>2 DEF Listed
<1> QED BY <1>3, <1>4, <1>5, <1>6, <1>7, <1>8, <1>9 DEF ListIsStack

LEMMA ListAfterPush ==
    ASSUME ListIsStack, TypeRest, NEW w \in Workers, w \notin Listed,
           stack' = <<w>> \o stack, root' = w, my_next' = [my_next EXCEPT ![w] = root]
    PROVE  /\ ListIsStack' /\ Len(stack') = Len(stack) + 1
           /\ \A v \in Workers : v \in Listed' <=> v \in Listed \/ v = w
<1>1. stack \in Seq(Workers) /\ Len(stack) \in Nat
    BY DEF ListIsStack
<1>2. /\ stack' \in Seq(Workers) /\ Len(stack') = Len(stack) + 1 /\ stack'[1] = w
      /\ \A i \in 2..Len(stack') : stack'[i] = stack[i - 1] /\ i - 1 \in 1..Len(stack)
    BY <1>1
<1>3. \A i \in 1..Len(stack') : i = 1 \/ i \in 2..Len(stack')
    BY <1>1, <1>2
<1>4. \A i \in 1..Len(stack) : stack[i] # w /\ i + 1 \in 2..Len(stack') /\ stack'[i + 1] = stack[i]
    BY <1>1, <1>2 DEF Listed
<1>5. \A i, j \in 1..Len(stack') : stack'[i] = stack'[j] => i = j
    BY <1>1, <1>2, <1>3, <1>4 DEF ListIsStack
<1>6. stack' # <<>> /\ root' = stack'[1]
    BY <1>1, <1>2
<1>7. ASSUME NEW i \in 1..Len(stack')
      PROVE  my_next'[stack'[i]] = IF i = Len(stack') THEN Nobody ELSE stack'[i + 1]
    <2>1. CASE i = 1
        <3>1. my_next'[stack'[1]] = root
            BY <1>2 DEF TypeRest
        <3>2. CASE stack = <<>>
            BY <1>1, <1>2, <2>1, <3>1, <3>2 DEF ListIsStack
        <3>3. CASE stack # <<>>
            BY <1>1, <1>2, <1>4, <2>1, <3>1, <3>3 DEF ListIsStack
        <3> QED BY <3>2, <3>3
    <2>2. CASE i \in 2..Len(stack')
        <3>1. my_next'[stack'[i]] = my_next[stack[i - 1]]
            BY <1>2, <1>4, <2>2 DEF TypeRest
        <3>2. my_next[stack[i - 1]] = IF i - 1 = Len(stack) THEN Nobody ELSE stack[i - 1 + 1]
            BY <1>2, <2>2 DEF ListIsStack
        <3>3. CASE i = Len(stack')
            BY <1>1, <1>2, <2>2, <3>1, <3>2, <3>3
        <3>4. CASE i # Len(stack')
            <4>1. i + 1 \in 2..Len(stack') /\ i - 1 # Len(stack) /\ i - 1 + 1 = i + 1 - 1
                BY <1>1, <1>2, <2>2, <3>4
            <4> QED BY <1>2, <3>1, <3>2, <3>4, <4>1
        <3> QED BY <3>3, <3>4
    <2> QED BY <1>3, <2>1, <2>2
<1>8. \A v \in Workers : v \in Listed' <=> v \in Listed \/ v = w
    <2>1. 1 \in 1..Len(stack')
        BY <1>1, <1>2
    <2> QED BY <1>2, <1>3, <1>4, <2>1 DEF Listed
<1> QED BY <1>2, <1>5, <1>6, <1>7, <1>8 DEF ListIsStack

\* Nothing of the list changes.
LEMMA ListStays ==
    ASSUME UNCHANGED <<stack, root, my_next>>
    PROVE  /\ Listed' = Listed /\ (ListIsStack => ListIsStack')
           /\ Len(stack') = Len(stack)
BY DEF Listed, ListIsStack

LEMMA InList ==
    (ListIsStack => Listed \subseteq Workers) /\ (ListIsStack' => Listed' \subseteq Workers)
BY DEF ListIsStack, Listed

LEMMA HandAtTake ==
    ASSUME TypePc, TypeRest, TypeWakee, ListIsStack, TakenOnce, NEW t \in Threads, WsTake(t)
    PROVE  ListIsStack' /\ TakenOnce' /\ HeldSame /\ Len(stack') = Len(stack) - 1
<1> DEFINE n == Len(wakee[t])
<1>1. /\ pc[t] = "ws_loop" /\ UNCHANGED <<pc, my_next>> /\ root # Nobody
      /\ root' = my_next[root] /\ stack' = SubSeq(stack, 2, Len(stack))
      /\ wakee' = [wakee EXCEPT ![t] = Append(@, root)]
    BY DEF WsTake, MayTakeMore, PopAsleep, list
<1>2. /\ root \in Workers
      /\ stack' \in Seq(Workers) /\ Len(stack') = Len(stack) - 1
      /\ \A i \in 1..(Len(stack) - 1) : stack'[i] = stack[i + 1]
    <2>1. root \in Workers /\ stack \in Seq(Workers) /\ stack # <<>>
        BY <1>1 DEF TypeRest, ListIsStack
    <2> QED BY <1>1, <2>1, WithoutFirst
<1>3. /\ ListIsStack' /\ root \in Listed /\ Len(stack') = Len(stack) - 1
      /\ \A w \in Workers : w \in Listed' <=> w \in Listed /\ w # root
    BY <1>1, <1>2, ListAfterPop
<1>4. n \in Nat /\ wakee[t] \in Seq(Workers)
    BY DEF TypeWakee
<1>5. /\ wakee'[t][n + 1] = root /\ Len(wakee'[t]) = n + 1
      /\ \A i \in 1..n : wakee'[t][i] = wakee[t][i]
    BY <1>1, <1>4 DEF TypeWakee
<1>6. \A u \in Threads : u # t => wakee'[u] = wakee[u] /\ Due(u)' = Due(u)
    BY <1>1 DEF TypeWakee, Due
<1>7. Due(t) = 1..n /\ Due(t)' = 1..(n + 1)
    BY <1>1, <1>5 DEF Due
<1>8. \A w \in Workers : Taken(w)' <=> Taken(w) \/ w = root
    <2>1. ASSUME NEW w \in Workers, Taken(w)' PROVE  Taken(w) \/ w = root
        <3>1. PICK u \in Threads : \E i \in Due(u)' : wakee'[u][i] = w
            BY <2>1 DEF Taken
        <3>2. PICK i \in Due(u)' : wakee'[u][i] = w
            BY <3>1
        <3>3. CASE u = t /\ i = n + 1
            BY <1>5, <3>2, <3>3
        <3>4. CASE u = t /\ i # n + 1
            <4>1. i \in Due(t)
                BY <1>4, <1>7, <3>2, <3>4
            <4> QED BY <1>5, <1>7, <3>2, <3>4, <4>1 DEF Taken
        <3>5. CASE u # t
            BY <1>6, <3>2, <3>5 DEF Taken
        <3> QED BY <3>3, <3>4, <3>5
    <2>2. ASSUME NEW w \in Workers, Taken(w) PROVE  Taken(w)'
        <3>1. PICK u \in Threads : \E i \in Due(u) : wakee[u][i] = w
            BY <2>2 DEF Taken
        <3>2. PICK i \in Due(u) : wakee[u][i] = w
            BY <3>1
        <3>3. i \in Due(u)' /\ wakee'[u][i] = w
            BY <1>4, <1>5, <1>6, <1>7, <3>2
        <3> QED BY <3>3 DEF Taken
    <2>3. ASSUME NEW w \in Workers, w = root PROVE  Taken(w)'
        <3>1. n + 1 \in Due(t)' /\ wakee'[t][n + 1] = w
            BY <1>4, <1>5, <1>7, <2>3
        <3> QED BY <3>1 DEF Taken
    <2> QED BY <2>1, <2>2, <2>3
<1>9. \A w \in Workers : Told(w)' <=> Told(w)
    <2>1. \A u \in Threads : u # t => LastTaken(u)' = LastTaken(u)
        BY <1>6 DEF LastTaken
    <2> QED BY <1>1, <2>1 DEF Told
<1>10. \A u \in Threads : \A i \in Due(u)' :
          \/ u = t /\ i = n + 1 /\ wakee'[u][i] = root
          \/ i \in Due(u) /\ wakee'[u][i] = wakee[u][i]
    <2>1. ASSUME NEW i \in Due(t)', i # n + 1
          PROVE  i \in Due(t) /\ wakee'[t][i] = wakee[t][i]
        BY <1>4, <1>5, <1>7, <2>1
    <2> QED BY <1>5, <1>6, <2>1
<1>11. \A u \in Threads : \A i \in Due(u) : wakee[u][i] # root
    BY <1>3 DEF TakenOnce, Taken
<1>12. TakenOnce'
    <2>1. ASSUME NEW u \in Threads, NEW v \in Threads, NEW i \in Due(u)', NEW j \in Due(v)',
                 wakee'[u][i] = wakee'[v][j]
          PROVE  u = v /\ i = j
        BY <1>10, <1>11, <2>1 DEF TakenOnce
    <2>2. \A w \in Listed' : ~ Taken(w)'
        BY <1>3, <1>8, InList DEF TakenOnce
    <2> QED BY <2>1, <2>2 DEF TakenOnce
<1>13. HeldSame
    BY <1>3, <1>8, <1>9 DEF HeldSame, Held
<1> QED BY <1>3, <1>12, <1>13

\* A hand loses its last worker: it has been launched or signalled.
LEMMA HandLoses ==
    ASSUME TypeWakee, TakenOnce, NEW t \in Threads, NEW w \in Workers,
           wakee[t] # <<>>, w = LastTaken(t), UNCHANGED stack,
           Due(t) = 1..Len(wakee[t]), Due(t)' = 1..(Len(wakee[t]) - 1),
           \A i \in Due(t)' : wakee'[t][i] = wakee[t][i],
           \A u \in Threads : u # t => wakee'[u] = wakee[u] /\ Due(u)' = Due(u)
    PROVE  /\ TakenOnce' /\ Held(w) /\ ~ Held(w)' /\ Listed' = Listed
           /\ \A v \in Workers : v # w => (Held(v)' <=> Held(v))
<1> DEFINE n == Len(wakee[t])
<1>1. n \in Nat \ {0} /\ n \in Due(t) /\ wakee[t][n] = w /\ Listed' = Listed
    BY DEF TypeWakee, LastTaken, Listed
<1>2. \A u \in Threads : \A i \in Due(u)' :
          i \in Due(u) /\ wakee'[u][i] = wakee[u][i] /\ (u = t => i # n)
    BY <1>1
<1>3. ASSUME NEW v \in Workers, Taken(v)' PROVE  Taken(v) /\ v # w
    <2>1. PICK u \in Threads : \E i \in Due(u)' : wakee'[u][i] = v
        BY <1>3 DEF Taken
    <2>2. PICK i \in Due(u)' : wakee'[u][i] = v
        BY <2>1
    <2>3. i \in Due(u) /\ wakee[u][i] = v /\ (u = t => i # n)
        BY <1>2, <2>2
    <2> QED BY <1>1, <2>3 DEF Taken, TakenOnce
<1>4. ASSUME NEW v \in Workers, Taken(v), v # w PROVE  Taken(v)'
    <2>1. PICK u \in Threads : \E i \in Due(u) : wakee[u][i] = v
        BY <1>4 DEF Taken
    <2>2. PICK i \in Due(u) : wakee[u][i] = v
        BY <2>1
    <2>3. i \in Due(u)' /\ wakee'[u][i] = v
        BY <1>1, <1>4, <2>2
    <2> QED BY <2>3 DEF Taken
<1>5. Taken(w) /\ w \notin Listed
    BY <1>1 DEF Taken, TakenOnce
<1>6. TakenOnce'
    <2>1. ASSUME NEW u \in Threads, NEW v \in Threads, NEW i \in Due(u)', NEW j \in Due(v)',
                 wakee'[u][i] = wakee'[v][j]
          PROVE  u = v /\ i = j
        BY <1>2, <2>1 DEF TakenOnce
    <2>2. \A v \in Listed' : ~ Taken(v)'
        BY <1>1, <1>3, <1>5 DEF TakenOnce, Taken
    <2> QED BY <2>1, <2>2 DEF TakenOnce
<1> QED BY <1>1, <1>3, <1>4, <1>5, <1>6 DEF Held

LEMMA ToldIsTaken ==
    ASSUME TypeWakee, WakePhase, NEW w \in Workers, Told(w) PROVE  Taken(w)
<1>1. PICK t \in Threads : pc[t] = "ws_signal" /\ LastTaken(t) = w
    BY DEF Told
<1>2. wakee[t] \in Seq(Workers) /\ Len(wakee[t]) \in 1..Len(wakee[t])
    BY <1>1 DEF TypeWakee, WakePhase
<1> QED BY <1>1, <1>2 DEF Taken, Due, LastTaken

LEMMA HandAtLaunch ==
    ASSUME TypeOK, WorkerPhase, ListIsStack, TakenOnce, NEW t \in Threads, NEW w \in Workers,
           WsWake(t), w = LastTaken(t), Launch(t, w)
    PROVE  /\ ListIsStack' /\ TakenOnce' /\ Held(w) /\ ~ Held(w)' /\ Len(stack') = Len(stack)
           /\ \A v \in Workers : (v # w => (Held(v)' <=> Held(v))) /\ (Told(v)' <=> Told(v))
<1>1. /\ pc[t] = "ws_wake" /\ wakee[t] # <<>> /\ UNCHANGED <<stack, root, my_next, wakee>>
      /\ pc[w] = "none" /\ pc' = [pc EXCEPT ![t] = "ws_norm", ![w] = "chain"]
    BY DEF WsWake, Launch, WorkerPhase, list, local
<1>2. /\ pc'[t] = "ws_norm" /\ pc'[w] = "chain"
      /\ \A u \in Threads : u # t /\ u # w => pc'[u] = pc[u]
    BY <1>1, Sets DEF TypeOK
<1>3. Due(t) = 1..Len(wakee[t]) /\ Due(t)' = 1..(Len(wakee[t]) - 1)
    BY <1>1, <1>2 DEF Due
<1>4. \A u \in Threads : u # t => wakee'[u] = wakee[u] /\ Due(u)' = Due(u)
    BY <1>1, <1>2 DEF Due
<1>5. TypeWakee
    BY DEF TypeOK, TypeWakee
<1>6. /\ TakenOnce' /\ Held(w) /\ ~ Held(w)' /\ Listed' = Listed
      /\ \A v \in Workers : v # w => (Held(v)' <=> Held(v))
    BY <1>1, <1>3, <1>4, <1>5, HandLoses
<1>7. \A v \in Workers : Told(v)' <=> Told(v)
    BY <1>1, <1>2 DEF Told, LastTaken
<1> QED BY <1>1, <1>6, <1>7, ListStays

LEMMA HandAtNotify ==
    ASSUME TypeOK, WakePhase, ListIsStack, TakenOnce, NEW t \in Threads, NEW w \in Workers,
           WsWake(t), w = LastTaken(t), Notify(t, w)
    PROVE  /\ ListIsStack' /\ TakenOnce' /\ Held(w) /\ ~ Told(w) /\ Told(w)' /\ Len(stack') = Len(stack)
           /\ \A v \in Workers : (Held(v)' <=> Held(v)) /\ (v # w => (Told(v)' <=> Told(v)))
<1>1. /\ pc[t] = "ws_wake" /\ wakee[t] # <<>> /\ UNCHANGED <<stack, root, my_next, wakee>>
      /\ pc'[t] = "ws_signal" /\ \A u \in Threads : u # t => pc'[u] = pc[u]
    BY DEF WsWake, Notify, Goto, list, local, TypeOK
<1>2. Listed' = Listed /\ \A u \in Threads : Due(u)' = Due(u)
    BY <1>1 DEF Due, Listed
<1>3. TakenOnce' /\ \A v \in Workers : Taken(v)' <=> Taken(v)
    BY <1>1, <1>2 DEF Taken, TakenOnce
<1>4. wakee[t] \in Seq(Workers) /\ Len(wakee[t]) \in 1..Len(wakee[t])
    BY <1>1 DEF TypeOK
<1>5. Taken(w)
    BY <1>1, <1>4 DEF Taken, Due, LastTaken
<1>6. \A u \in Threads : LastTaken(u)' = LastTaken(u)
    BY <1>1 DEF LastTaken
<1>7. Told(w)' /\ \A v \in Workers : v # w => (Told(v)' <=> Told(v))
    BY <1>1, <1>6 DEF Told
<1>8. ASSUME NEW u \in Threads, pc[u] = "ws_signal" PROVE  LastTaken(u) # w
    <2>1. wakee[u] \in Seq(Workers) /\ Len(wakee[u]) \in 1..Len(wakee[u])
        BY <1>8 DEF TypeOK, WakePhase
    <2>2. /\ Len(wakee[u]) \in Due(u) /\ LastTaken(u) = wakee[u][Len(wakee[u])]
          /\ Len(wakee[t]) \in Due(t) /\ w = wakee[t][Len(wakee[t])] /\ u # t
        BY <1>1, <1>4, <1>8, <2>1 DEF Due, LastTaken
    <2> QED BY <2>2 DEF TakenOnce
<1> QED BY <1>1, <1>2, <1>3, <1>5, <1>7, <1>8, ListStays DEF Held, Told

LEMMA HandAtSignal ==
    ASSUME TypeOK, WakePhase, ListIsStack, TakenOnce, NEW t \in Threads, NEW w \in Workers,
           WsSignal(t), w = LastTaken(t)
    PROVE  /\ ListIsStack' /\ TakenOnce' /\ Held(w) /\ ~ Held(w)' /\ Told(w) /\ ~ Told(w)'
           /\ Len(stack') = Len(stack)
           /\ \A v \in Workers : v # w => (Held(v)' <=> Held(v)) /\ (Told(v)' <=> Told(v))
<1> DEFINE n == Len(wakee[t])
<1>1. /\ pc[t] = "ws_signal" /\ wakee[t] # <<>> /\ UNCHANGED <<stack, root, my_next>>
      /\ pc'[t] = "ws_wake" /\ \A u \in Threads : u # t => pc'[u] = pc[u]
      /\ wakee'[t] = SubSeq(wakee[t], 1, n - 1)
      /\ \A u \in Threads : u # t => wakee'[u] = wakee[u]
    BY DEF WsSignal, DoneWith, Goto, list, TypeOK, WakePhase
<1>2. /\ wakee[t] \in Seq(Workers) /\ n \in Nat \ {0}
      /\ Len(wakee'[t]) = n - 1 /\ \A i \in 1..(n - 1) : wakee'[t][i] = wakee[t][i]
    BY <1>1, ShorterSeq DEF TypeOK
<1>3. /\ Due(t) = 1..n /\ Due(t)' = 1..(n - 1) /\ n \in Due(t) /\ wakee[t][n] = w
      /\ \A u \in Threads : u # t => Due(u)' = Due(u)
    BY <1>1, <1>2 DEF Due, LastTaken
<1>4. TypeWakee
    BY DEF TypeOK, TypeWakee
<1>5. /\ TakenOnce' /\ Held(w) /\ ~ Held(w)' /\ Listed' = Listed
      /\ \A v \in Workers : v # w => (Held(v)' <=> Held(v))
    BY <1>1, <1>2, <1>3, <1>4, HandLoses
<1>6. \A u \in Threads : u # t => LastTaken(u)' = LastTaken(u)
    BY <1>1 DEF LastTaken
<1>7. ASSUME NEW u \in Threads, u # t, pc[u] = "ws_signal" PROVE  LastTaken(u) # w
    <2>1. wakee[u] \in Seq(Workers) /\ Len(wakee[u]) \in 1..Len(wakee[u])
        BY <1>7 DEF TypeOK, WakePhase
    <2>2. Len(wakee[u]) \in Due(u) /\ LastTaken(u) = wakee[u][Len(wakee[u])]
        BY <1>7, <2>1 DEF Due, LastTaken
    <2> QED BY <1>3, <1>7, <2>2 DEF TakenOnce
<1>8. Told(w) /\ ~ Told(w)' /\ \A v \in Workers : v # w => (Told(v)' <=> Told(v))
    BY <1>1, <1>6, <1>7 DEF Told
<1> QED BY <1>1, <1>5, <1>8, ListStays

LEMMA HandAtNorm ==
    ASSUME TypeOK, WakePhase, ListIsStack, TakenOnce, NEW t \in Threads, WsNorm(t)
    PROVE  ListIsStack' /\ TakenOnce' /\ HeldSame /\ Len(stack') = Len(stack)
<1> DEFINE n == Len(wakee[t])
<1>1. /\ pc[t] = "ws_norm" /\ wakee[t] # <<>> /\ UNCHANGED <<stack, root, my_next>>
      /\ pc'[t] = "ws_wake" /\ \A u \in Threads : u # t => pc'[u] = pc[u]
      /\ wakee'[t] = SubSeq(wakee[t], 1, n - 1)
      /\ \A u \in Threads : u # t => wakee'[u] = wakee[u]
    BY DEF WsNorm, DoneWith, Goto, list, TypeOK, WakePhase
<1>2. /\ wakee[t] \in Seq(Workers) /\ n \in Nat \ {0}
      /\ Len(wakee'[t]) = n - 1 /\ \A i \in 1..(n - 1) : wakee'[t][i] = wakee[t][i]
    BY <1>1, ShorterSeq DEF TypeOK
<1>3. Due(t) = 1..(n - 1) /\ Due(t)' = 1..(n - 1) /\ \A u \in Threads : Due(u)' = Due(u)
    BY <1>1, <1>2 DEF Due
<1>4. \A u \in Threads : \A i \in Due(u) : wakee'[u][i] = wakee[u][i]
    BY <1>1, <1>2, <1>3
<1>5. Listed' = Listed /\ \A v : Taken(v)' <=> Taken(v)
    BY <1>1, <1>3, <1>4 DEF Listed, Taken
<1>6. TakenOnce'
    BY <1>3, <1>4, <1>5 DEF TakenOnce
<1>7. \A v \in Workers : Told(v)' <=> Told(v)
    BY <1>1 DEF Told, LastTaken
<1> QED BY <1>1, <1>5, <1>6, <1>7, ListStays DEF HeldSame, Held

LEMMA HandAtPush ==
    ASSUME TypeOK, ListIsStack, TakenOnce, NEW w \in Workers, ~ Held(w), Pushes(w)
    PROVE  /\ ListIsStack' /\ TakenOnce' /\ Held(w)' /\ Len(stack') = Len(stack) + 1
           /\ \A v \in Workers : (v # w => (Held(v)' <=> Held(v))) /\ (Told(v)' <=> Told(v))
<1>1. /\ pc[w] = "insert" /\ UNCHANGED wakee /\ w \notin Listed /\ ~ Taken(w)
      /\ pc'[w] = "commit" /\ \A u \in Threads : u # w => pc'[u] = pc[u]
      /\ my_next' = [my_next EXCEPT ![w] = root] /\ root' = w /\ stack' = <<w>> \o stack
    BY Sets DEF Pushes, Insert, PushAsleep, Goto, local, TypeOK, Held
<1>2. /\ ListIsStack' /\ Len(stack') = Len(stack) + 1
      /\ \A v \in Workers : v \in Listed' <=> v \in Listed \/ v = w
    BY <1>1, ListAfterPush DEF TypeOK, TypeRest
<1>3. \A u \in Threads : Due(u)' = Due(u) /\ LastTaken(u)' = LastTaken(u)
    BY <1>1 DEF Due, LastTaken
<1>4. \A v \in Workers : (Taken(v)' <=> Taken(v)) /\ (Told(v)' <=> Told(v))
    BY <1>1, <1>3 DEF Taken, Told
<1>5. TakenOnce'
    <2>1. \A v \in Listed' : v \in Workers /\ (v \in Listed \/ v = w)
        BY <1>2, InList
    <2> QED BY <1>1, <1>3, <1>4, <2>1 DEF TakenOnce
<1> QED BY <1>1, <1>2, <1>4, <1>5 DEF Held

HandsChange ==
    \/ \E t \in Threads : WsWake(t) \/ WsSignal(t)
    \/ \E w \in Workers : Pushes(w)

SleepOK == HeldSleep /\ SleeperHeld

LEMMA SleepersStay ==
    TypePc /\ TypeRest /\ Phases /\ MonitorExact /\ HeldSleep /\ SleeperHeld /\
    HeldSame /\ ~ HandsChange /\ [Next]_vars =>
    SleepOK'
<1> SUFFICES ASSUME TypePc, TypeRest, Phases, MonitorExact, HeldSleep, SleeperHeld,
                    HeldSame, ~ HandsChange, [Next]_vars
             PROVE  SleepOK'
    OBVIOUS
<1> USE Sets DEF SleepOK, HeldSleep, SleeperHeld, HeldSame, Leaving, Phases, WorkerPhase,
    CallPhase, TypePc, TypeRest, life, list, monitor, local, market, Goto, WakeLocs,
    CloseLocs
<1>1. ASSUME NEW t \in Threads, WsLock(t) PROVE SleepOK'
    BY <1>1 DEF WsLock
<1>2. ASSUME NEW t \in Threads, WsTake(t) PROVE SleepOK'
    <2>1. CASE UseDemand(t)
        BY <1>2, <2>1 DEF WsTake, UseDemand
    <2>2. CASE UseSlack(t)
        BY <1>2, <2>2 DEF WsTake, UseSlack
    <2> QED BY <1>2, <2>1, <2>2 DEF WsTake
<1>3. ASSUME NEW t \in Threads, WsEnough(t) PROVE SleepOK'
    BY <1>3 DEF WsEnough
<1>4. ASSUME NEW t \in Threads, WsReturn(t) PROVE SleepOK'
    <2>1. PICK loc \in {"loop", "process", "rest"} : loc = ret[t]
        OBVIOUS
    <2> QED BY <1>4, <2>1 DEF WsReturn
<1>5. ASSUME NEW t \in Threads, WsWake(t) PROVE SleepOK'
    BY <1>5 DEF HandsChange
<1>6. ASSUME NEW t \in Threads, WsSignal(t) PROVE SleepOK'
    BY <1>6 DEF HandsChange
<1>7. ASSUME NEW t \in Threads, WsNorm(t) PROVE SleepOK'
    <2>1. CASE StoreHandle(LastTaken(t))
        BY <1>7, <2>1 DEF WsNorm, DoneWith, StoreHandle
    <2>2. CASE my_state[LastTaken(t)] # "starting" /\ ReleaseHandle(LastTaken(t)) /\ UNCHANGED my_state
        BY <1>7, <2>2 DEF WsNorm, DoneWith
    <2> QED BY <1>7, <2>1, <2>2 DEF WsNorm
<1>8. ASSUME NEW t \in Threads, Adjust(t) PROVE SleepOK'
    <2>1. CASE TakeBack(t)
        <3>1. PICK loc \in {"loop", "process", "rest"} : loc = ret[t]
            OBVIOUS
        <3> QED BY <1>8, <2>1, <3>1 DEF Adjust, TakeBack
    <2>2. CASE add[t] > 0 /\ WakeSome(t, add[t], ret[t]) /\ UNCHANGED my_slack
        BY <1>8, <2>2 DEF Adjust, WakeSome
    <2> QED BY <1>8, <2>1, <2>2 DEF Adjust
<1>9. ASSUME NEW t \in Threads, CloseWorker(t) PROVE SleepOK'
    <2>1. CASE my_state[shut] = "init" /\ Goto(t, "c_ref") /\ UNCHANGED <<monitor, add>>
        BY <1>9, <2>1 DEF CloseWorker
    <2>2. CASE TellToQuit(t)
        BY <1>9, <2>2 DEF CloseWorker, TellToQuit, NotifyEpoch
    <2> QED BY <1>9, <2>1, <2>2 DEF CloseWorker
<1>10. ASSUME NEW t \in Threads, CloseSignal(t) PROVE SleepOK'
    <2>1. CASE add[t] = 1 /\ Goto(t, "c_release") /\ UNCHANGED shut
        BY <1>10, <2>1 DEF CloseSignal, NotifySignal, ClosePhase
    <2>2. CASE add[t] = 0 /\ Goto(t, "close") /\ shut' = shut + 1
        BY <1>10, <2>2 DEF CloseSignal, NotifySignal, ClosePhase
    <2> QED BY <1>10, <2>1, <2>2 DEF CloseSignal
<1>11. ASSUME NEW t \in Threads, CloseRelease(t) PROVE SleepOK'
    BY <1>11 DEF CloseRelease
<1>12. ASSUME NEW t \in Threads, CloseRef(t) PROVE SleepOK'
    BY <1>12 DEF CloseRef
<1>13. ASSUME NEW t \in Threads, CloseEnd(t) PROVE SleepOK'
    <2>1. CASE t \in Masters /\ Goto(t, "gone")
        BY <1>13, <2>1 DEF CloseEnd
    <2>2. CASE t \in Workers /\ Goto(t, "process")
        BY <1>13, <2>2 DEF CloseEnd
    <2> QED BY <1>13, <2>1, <2>2 DEF CloseEnd
<1>14. ASSUME NEW t \in Threads, Close(t) PROVE SleepOK'
    BY <1>14 DEF Close, Outside, Adjusting
<1>15. ASSUME NEW t \in Threads, NEW d \in (-MaxDemand)..MaxDemand, Demand(t, d) PROVE SleepOK'
    BY <1>15 DEF Demand, Outside
<1>16. ASSUME NEW w \in Workers, Chain(w) PROVE SleepOK'
    <2>1. CASE root = Nobody /\ Goto(w, "loop") /\ UNCHANGED local
        BY <1>16, <2>1 DEF Chain
    <2>2. CASE root # Nobody /\ WakeSome(w, 0, "loop")
        BY <1>16, <2>2 DEF Chain, WakeSome
    <2> QED BY <1>16, <2>1, <2>2 DEF Chain
<1>17. ASSUME NEW w \in Workers, Loop(w) PROVE SleepOK'
    <2>1. CASE my_state[w] = "quit" /\ Goto(w, "exit")
        BY <1>17, <2>1 DEF Loop
    <2>2. CASE my_state[w] # "quit" /\ my_slack >= 0 /\ Goto(w, "process")
        BY <1>17, <2>2 DEF Loop
    <2>3. CASE my_state[w] # "quit" /\ ~ (my_slack >= 0) /\ Goto(w, "prepare")
        BY <1>17, <2>3 DEF Loop
    <2> QED BY <1>17, <2>1, <2>2, <2>3 DEF Loop
<1>18. ASSUME NEW w \in Workers, ProcessReturns(w) PROVE SleepOK'
    BY <1>18 DEF ProcessReturns
<1>19. ASSUME NEW w \in Workers, Prepare(w) PROVE SleepOK'
    BY <1>19 DEF Prepare
<1>20. ASSUME NEW w \in Workers, InWait(w) PROVE SleepOK'
    BY <1>20 DEF InWait
<1>21. ASSUME NEW w \in Workers, Check(w) PROVE SleepOK'
    <2>1. CASE my_state[w] = "quit" /\ Goto(w, "cancel")
        BY <1>21, <2>1 DEF Check
    <2>2. CASE my_state[w] # "quit" /\ Goto(w, "insert")
        BY <1>21, <2>2 DEF Check
    <2> QED BY <1>21, <2>1, <2>2 DEF Check
<1>22. ASSUME NEW w \in Workers, Insert(w) PROVE SleepOK'
    <2>1. CASE InsertFails(w)
        BY <1>22, <2>1 DEF Insert, InsertFails
    <2>2. CASE PushAsleep(w)
        BY <1>22, <2>2 DEF HandsChange, Pushes
    <2>3. CASE InsertTooLate(w)
        BY <1>22, <2>3 DEF Insert, InsertTooLate
    <2> QED BY <1>22, <2>1, <2>2, <2>3 DEF Insert
<1>23. ASSUME NEW w \in Workers, Undo(w) PROVE SleepOK'
    BY <1>23 DEF Undo
<1>24. ASSUME NEW w \in Workers, Commit(w) PROVE SleepOK'
    <2>1. CASE Sleep(w)
        BY <1>24, <2>1 DEF Commit, Sleep
    <2>2. CASE w \notin fresh /\ CancelWait(w) /\ Goto(w, "chain")
        <3>1. /\ pc[w] = "commit" /\ w \notin fresh /\ ret[w] = "loop" /\ ret' = ret
              /\ pc'[w] = "chain" /\ \A u \in Threads : u # w => pc'[u] = pc[u]
              /\ UNCHANGED <<my_state, sema>>
              /\ \A v \in Workers : v # w => (v \in fresh' <=> v \in fresh) /\ (v \in in_wait' <=> v \in in_wait)
            BY <1>24, <2>2 DEF Commit, CancelWait
        <3> HIDE DEF TypePc, TypeRest, Phases, WorkerPhase, CallPhase, WakeLocs, CloseLocs
        <3>2. HeldSleep'
            BY <3>1, Sets
        <3>3. SleeperHeld'
            BY <3>1, Sets
        <3> QED BY <3>2, <3>3
    <2> QED BY <1>24, <2>1, <2>2 DEF Commit
<1>25. ASSUME NEW w \in Workers, Wake(w) PROVE SleepOK'

    <2>1. /\ pc[w] = "asleep" /\ w \in sema /\ w \notin in_wait /\ ret[w] = "loop" /\ ret' = ret
          /\ pc'[w] = "chain" /\ \A u \in Threads : u # w => pc'[u] = pc[u]
          /\ UNCHANGED <<my_state, in_wait, fresh>>
          /\ \A v \in Workers : v # w => (v \in sema' <=> v \in sema)
        BY <1>25 DEF Wake, MonitorExact, Waiting
    <2> HIDE DEF TypePc, TypeRest, Phases, WorkerPhase, CallPhase, WakeLocs, CloseLocs
    <2>2. my_state[w] # "quit" => ~ Held(w)
        BY <2>1
    <2>3. HeldSleep'
        BY <2>1, <2>2, Sets
    <2>4. SleeperHeld'
        BY <2>1, <2>2, Sets
    <2> QED BY <2>3, <2>4
<1>26. ASSUME NEW w \in Workers, Cancel(w) PROVE SleepOK'
    BY <1>26 DEF Cancel, CancelWait
<1>27. ASSUME NEW w \in Workers, Exit(w) PROVE SleepOK'
    BY <1>27 DEF Exit
<1>28. ASSUME NEW w \in Workers, Deref(w) PROVE SleepOK'
    BY <1>28 DEF Deref
<1>29. CASE UNCHANGED vars
    BY <1>29 DEF vars
<1> HIDE DEF HeldSleep, SleeperHeld, HeldSame, Leaving, Phases, WorkerPhase, CallPhase,
    TypePc, TypeRest, life, list, monitor, local, market, Goto, WakeLocs, CloseLocs
<1> QED
    BY <1>1, <1>2, <1>3, <1>4, <1>5, <1>6, <1>7, <1>8, <1>9, <1>10, <1>11, <1>12, <1>13,
        <1>14, <1>15, <1>16, <1>17, <1>18, <1>19, <1>20, <1>21, <1>22, <1>23, <1>24, <1>25,
        <1>26, <1>27, <1>28, <1>29
    DEF Next, ServerStep, WorkerStep, ClientStep

LEMMA SleepersKept ==
    ASSUME TypeOK, Phases, MonitorExact, HeldSleep, SleeperHeld, ListIsStack, TakenOnce, ~ late', [Next]_vars
    PROVE  ListIsStack' /\ TakenOnce' /\ HeldSleep' /\ SleeperHeld'
<1>1. TypePc /\ TypeRest /\ TypeWakee /\ WorkerPhase /\ WakePhase
    BY DEF TypeOK, TypePc, TypeRest, TypeWakee, Phases
<1>2. HandsSame \/ HandsMove
    BY <1>1, HandsStep
<1>3. CASE HandsChange
    <2>1. ASSUME NEW t \in Threads, WsWake(t)
          PROVE  ListIsStack' /\ TakenOnce' /\ HeldSleep' /\ SleeperHeld'
        <3>1. PICK w \in Workers : w = LastTaken(t)
            BY <2>1, LastIsWorker, TypeOKParts DEF WsWake, TypeParts
        <3>2. CASE Launch(t, w)
            <4>1. /\ ListIsStack' /\ TakenOnce' /\ ~ Held(w)'
                  /\ \A v \in Workers : (v # w => (Held(v)' <=> Held(v))) /\ (Told(v)' <=> Told(v))
                BY <1>1, <2>1, <3>1, <3>2, HandAtLaunch
            <4>2. /\ pc[t] = "ws_wake" /\ pc[w] = "none" /\ pc'[t] = "ws_norm" /\ pc'[w] = "chain"
                  /\ \A u \in Threads : u # t /\ u # w => pc'[u] = pc[u]
                  /\ my_state'[w] = "starting" /\ \A v \in Workers : v # w => my_state'[v] = my_state[v]
                  /\ UNCHANGED <<fresh, in_wait, sema, ret>>
                BY <1>1, <2>1, <3>2, Sets DEF WsWake, Launch, WorkerPhase, TypeOK, monitor,
                    local
            <4>3. HeldSleep'
                BY <4>1, <4>2, Sets DEF HeldSleep, Leaving, WakeLocs
            <4>4. SleeperHeld'
                BY <4>1, <4>2, Sets DEF SleeperHeld
            <4> QED BY <4>1, <4>3, <4>4
        <3>3. CASE Notify(t, w)
            <4>1. /\ ListIsStack' /\ TakenOnce' /\ Held(w) /\ ~ Told(w) /\ Told(w)'
                  /\ \A v \in Workers : (Held(v)' <=> Held(v)) /\ (v # w => (Told(v)' <=> Told(v)))
                BY <1>1, <2>1, <3>1, <3>3, HandAtNotify
            <4>2. /\ pc[t] = "ws_wake" /\ pc'[t] = "ws_signal" /\ \A u \in Threads : u # t => pc'[u] = pc[u]
                  /\ \A v \in Workers : v \in fresh' <=> v \in fresh /\ v # w
                  /\ UNCHANGED <<my_state, in_wait, sema, ret>>
                BY <2>1, <3>3 DEF WsWake, Notify, NotifyEpoch, Goto, TypeOK, local
            <4>3. HeldSleep'
                BY <4>1, <4>2, Sets DEF HeldSleep, Leaving, WakeLocs
            <4>4. SleeperHeld'
                BY <4>1, <4>2, Sets DEF SleeperHeld, HeldSleep, Leaving
            <4> QED BY <4>1, <4>3, <4>4
        <3> QED BY <2>1, <3>1, <3>2, <3>3 DEF WsWake
    <2>2. ASSUME NEW t \in Threads, WsSignal(t)
          PROVE  ListIsStack' /\ TakenOnce' /\ HeldSleep' /\ SleeperHeld'
        <3>1. PICK w \in Workers : w = LastTaken(t)
            BY <1>1, <2>2, LastIsWorker DEF WsSignal, WakePhase
        <3>2. /\ ListIsStack' /\ TakenOnce' /\ Held(w) /\ ~ Held(w)' /\ Told(w)
              /\ \A v \in Workers : v # w => (Held(v)' <=> Held(v)) /\ (Told(v)' <=> Told(v))
            BY <1>1, <2>2, <3>1, HandAtSignal
        <3>3. /\ pc[t] = "ws_signal" /\ pc'[t] = "ws_wake" /\ \A u \in Threads : u # t => pc'[u] = pc[u]
              /\ \A v \in Workers : v # w => (v \in in_wait' <=> v \in in_wait) /\ (v \in sema' <=> v \in sema)
              /\ w \in in_wait => w \in sema'
              /\ UNCHANGED <<my_state, fresh, ret>>
            BY <2>2, <3>1 DEF WsSignal, NotifySignal, DoneWith, Goto, TypeOK, life
        <3>4. HeldSleep'
            BY <3>2, <3>3, Sets DEF HeldSleep, Leaving, WakeLocs
        <3>5. SleeperHeld'
            BY <3>2, <3>3, Sets DEF SleeperHeld, HeldSleep
        <3> QED BY <3>2, <3>4, <3>5
    <2>3. ASSUME NEW w \in Workers, Pushes(w)
          PROVE  ListIsStack' /\ TakenOnce' /\ HeldSleep' /\ SleeperHeld'
        <3>1. /\ pc[w] = "insert" /\ ~ Told(w) /\ (w \in in_wait \/ my_state[w] = "quit")
              /\ pc'[w] = "commit" /\ \A u \in Threads : u # w => pc'[u] = pc[u]
              /\ UNCHANGED <<my_state, fresh, in_wait, sema, ret>>
            BY <2>3, Sets DEF Pushes, Insert, PushAsleep, Goto, TypeOK, life, monitor, local
        <3>2. ~ Held(w)
            BY <3>1 DEF HeldSleep, Leaving, WakeLocs
        <3>3. /\ ListIsStack' /\ TakenOnce' /\ Held(w)'
              /\ \A v \in Workers : (v # w => (Held(v)' <=> Held(v))) /\ (Told(v)' <=> Told(v))
            BY <2>3, <3>1, <3>2, HandAtPush
        <3>4. HeldSleep'
            BY <3>1, <3>3, Sets DEF HeldSleep, SleeperHeld, Leaving
        <3>5. SleeperHeld'
            BY <3>1, <3>3, Sets DEF SleeperHeld
        <3> QED BY <3>3, <3>4, <3>5
    <2> QED BY <1>3, <2>1, <2>2, <2>3 DEF HandsChange
<1>4. CASE ~ HandsChange
    <2>1. ListIsStack' /\ TakenOnce' /\ HeldSame
        BY <1>1, <1>2, <1>4, HandsStay, HandAtTake, HandAtNorm DEF HandsMove, HandsChange
    <2> QED BY <1>1, <1>4, <2>1, SleepersStay DEF SleepOK
<1> QED BY <1>3, <1>4

-----------------------------------------------------------------------------
(* The account of slack *)

\* How many units of demand one thread has in hand.
Positive(x) == IF x > 0 THEN x ELSE 0

LEMMA ThreadsFinite == IsFiniteSet(Threads)
<1>1. IsFiniteSet(Workers) /\ IsFiniteSet(Masters)
    BY FS_Interval, ServerAssumption DEF Workers
<1> QED BY <1>1, FS_Union DEF Threads

\* A change of what one thread has in hand changes the sum by the difference.
LEMMA UnitsChange ==
    ASSUME NEW f, NEW g, NEW t \in Threads,
           f[t] \in (-MaxDemand)..MaxDemand, g[t] \in (-MaxDemand)..MaxDemand,
           \A u \in Threads : u # t => g[u] = f[u]
    PROVE  /\ Units(f) \in Nat /\ Units(g) \in Nat
           /\ Units(g) - Positive(g[t]) = Units(f) - Positive(f[t])
<1> DEFINE Box == Threads \X (1..MaxDemand)
           All(h) == {u \in Box : u[2] <= h[u[1]]}
           Rest == {u \in Box : u[1] # t /\ u[2] <= f[u[1]]}
           Mine(h) == {t} \X (1..h[t])
<1>1. IsFiniteSet(Box)
    <2>1. IsFiniteSet(1..MaxDemand)
        BY Bounds, FS_Interval
    <2> QED BY <2>1, ThreadsFinite, FS_Product
<1>2. IsFiniteSet(Rest) /\ Cardinality(Rest) \in Nat
    <2>1. Rest \subseteq Box
        OBVIOUS
    <2> QED BY <1>1, <2>1, FS_Subset, FS_CardinalityType
<1>3. ASSUME NEW h, h[t] \in (-MaxDemand)..MaxDemand, \A u \in Threads : u # t => h[u] = f[u]
      PROVE  Units(h) \in Nat /\ Units(h) = Cardinality(Rest) + Positive(h[t])
    <2>1. All(h) = Rest \cup Mine(h)
        <3>1. ASSUME NEW u \in All(h) PROVE  u \in Rest \cup Mine(h)
            <4>1. u \in Box /\ u[1] \in Threads /\ u[2] \in 1..MaxDemand /\ u[2] <= h[u[1]] /\ u = <<u[1], u[2]>>
                BY <3>1
            <4>2. CASE u[1] = t
                BY <1>3, <4>1, <4>2, Bounds
            <4>3. CASE u[1] # t
                BY <1>3, <4>1, <4>3
            <4> QED BY <4>2, <4>3
        <3>2. ASSUME NEW u \in Rest PROVE  u \in All(h)
            BY <1>3, <3>2
        <3>3. ASSUME NEW u \in Mine(h) PROVE  u \in All(h)
            <4>1. u[1] = t /\ u[2] \in 1..h[t] /\ u = <<u[1], u[2]>>
                BY <3>3
            <4>2. u[2] \in 1..MaxDemand /\ u[2] <= h[t]
                BY <1>3, <4>1, Bounds
            <4>3. u \in Box
                BY <4>1, <4>2
            <4> QED BY <4>1, <4>2, <4>3
        <3> QED BY <3>1, <3>2, <3>3
    <2>2. Rest \cap Mine(h) = {}
        OBVIOUS
    <2>3. IsFiniteSet(Mine(h)) /\ Cardinality(Mine(h)) = Positive(h[t])
        <3>1. IsFiniteSet(1..h[t]) /\ Cardinality(1..h[t]) = Positive(h[t])
            <4>1. 1 \in Int /\ h[t] \in Int
                BY <1>3, Bounds
            <4>2. /\ IsFiniteSet(1..h[t])
                  /\ Cardinality(1..h[t]) = IF 1 > h[t] THEN 0 ELSE h[t] - 1 + 1
                BY <4>1, FS_Interval
            <4> QED BY <4>1, <4>2 DEF Positive
        <3>2. IsFiniteSet({t}) /\ Cardinality({t}) = 1
            BY FS_Singleton
        <3>3. Positive(h[t]) \in Nat
            BY <1>3, Bounds DEF Positive
        <3>4. IsFiniteSet(Mine(h)) /\ Cardinality(Mine(h)) = Cardinality({t}) * Cardinality(1..h[t])
            BY <3>1, <3>2, FS_Product
        <3> QED BY <3>1, <3>2, <3>3, <3>4
    <2>4. Cardinality(All(h)) = Cardinality(Rest) + Positive(h[t])
        <3> HIDE DEF All, Rest, Mine
        <3>1. Cardinality(Rest \cup Mine(h)) = Cardinality(Rest) + Cardinality(Mine(h)) - Cardinality(Rest \cap Mine(h))
            BY <1>2, <2>3, FS_Union
        <3>2. Cardinality(Rest \cap Mine(h)) = 0
            BY <2>2, FS_EmptySet
        <3>3. Positive(h[t]) \in Nat
            BY <1>3, Bounds DEF Positive
        <3> QED BY <1>2, <2>1, <2>3, <3>1, <3>2, <3>3
    <2>5. Positive(h[t]) \in Nat
        BY <1>3, Bounds DEF Positive
    <2> HIDE DEF Rest, Mine
    <2> QED BY <1>2, <2>4, <2>5 DEF Units
<1>4. Units(f) \in Nat /\ Units(f) = Cardinality(Rest) + Positive(f[t])
    BY <1>3
<1>5. Units(g) \in Nat /\ Units(g) = Cardinality(Rest) + Positive(g[t])
    BY <1>3
<1>6. Positive(f[t]) \in Nat /\ Positive(g[t]) \in Nat
    BY Bounds DEF Positive
<1> HIDE DEF Rest
<1> QED BY <1>2, <1>4, <1>5, <1>6

LEMMA AddChange ==
    ASSUME NEW t \in Threads, add \in [Threads -> (-MaxDemand)..MaxDemand],
           add'[t] \in (-MaxDemand)..MaxDemand, \A u \in Threads : u # t => add'[u] = add[u]
    PROVE  /\ InHand \in Nat /\ TakenBack \in Nat /\ InHand' \in Nat /\ TakenBack' \in Nat
           /\ InHand' - Positive(add'[t]) = InHand - Positive(add[t])
           /\ TakenBack' - Positive(-add'[t]) = TakenBack - Positive(-add[t])
<1> DEFINE back == [u \in Threads |-> -add[u]]
           back1 == [u \in Threads |-> -add'[u]]
<1>1. /\ Units(add) \in Nat /\ Units(add') \in Nat
      /\ Units(add') - Positive(add'[t]) = Units(add) - Positive(add[t])
    BY UnitsChange
<1>2. /\ back[t] = -add[t] /\ back1[t] = -add'[t]
      /\ back[t] \in (-MaxDemand)..MaxDemand /\ back1[t] \in (-MaxDemand)..MaxDemand
      /\ \A u \in Threads : u # t => back1[u] = back[u]
    BY Bounds
<1> HIDE DEF back, back1
<1>3. /\ Units(back) \in Nat /\ Units(back1) \in Nat
      /\ Units(back1) - Positive(back1[t]) = Units(back) - Positive(back[t])
    BY <1>2, UnitsChange
<1>4. InHand = Units(add) /\ InHand' = Units(add') /\ TakenBack = Units(back) /\ TakenBack' = Units(back1)
    BY DEF InHand, TakenBack, Units, back, back1
<1> QED BY <1>1, <1>2, <1>3, <1>4

LEMMA SumsAreNat ==
    ASSUME \A t \in Threads : add[t] \in (-MaxDemand)..MaxDemand
    PROVE  InHand \in Nat /\ TakenBack \in Nat
<1>1. IsFiniteSet(Threads \X (1..MaxDemand))
    <2>1. IsFiniteSet(1..MaxDemand)
        BY Bounds, FS_Interval
    <2> QED BY <2>1, ThreadsFinite, FS_Product
<1>2. ASSUME NEW f PROVE  Units(f) \in Nat
    BY <1>1, FS_Subset, FS_CardinalityType DEF Units
<1> QED BY <1>2 DEF InHand, TakenBack

Undoing == Cardinality({w \in Workers : pc[w] = "undo"})

LEMMA UndoingSame ==
    ASSUME \A w \in Workers : pc'[w] = "undo" <=> pc[w] = "undo"
    PROVE  Undoing' = Undoing /\ Undoing \in Nat
<1>1. {w \in Workers : pc'[w] = "undo"} = {w \in Workers : pc[w] = "undo"}
    OBVIOUS
<1> QED BY <1>1, WorkerCount DEF Undoing

LEMMA UndoingMore ==
    ASSUME NEW w \in Workers, pc[w] # "undo", pc'[w] = "undo",
           \A v \in Workers : v # w => pc'[v] = pc[v]
    PROVE  Undoing \in Nat /\ Undoing' = Undoing + 1
<1> DEFINE U == {v \in Workers : pc[v] = "undo"}
           V == {v \in Workers : pc'[v] = "undo"}
<1>1. V = U \cup {w} /\ w \notin U
    OBVIOUS
<1>2. IsFiniteSet(U) /\ Cardinality(U) \in Nat
    BY WorkerCount
<1>3. Undoing = Cardinality(U) /\ Undoing' = Cardinality(V)
    BY DEF Undoing
<1> HIDE DEF U, V
<1> QED BY <1>1, <1>2, <1>3, FS_AddElement

LEMMA UndoingLess ==
    ASSUME NEW w \in Workers, pc[w] = "undo", pc'[w] # "undo",
           \A v \in Workers : v # w => pc'[v] = pc[v]
    PROVE  Undoing \in Nat /\ Undoing' = Undoing - 1
<1> DEFINE U == {v \in Workers : pc[v] = "undo"}
           V == {v \in Workers : pc'[v] = "undo"}
<1>1. V = U \ {w} /\ w \in U
    OBVIOUS
<1>2. IsFiniteSet(U) /\ Cardinality(U) \in Nat
    BY WorkerCount
<1>3. Undoing = Cardinality(U) /\ Undoing' = Cardinality(V)
    BY DEF Undoing
<1> HIDE DEF U, V
<1> QED BY <1>1, <1>2, <1>3, FS_RemoveElement

SlackSame ==
    /\ UNCHANGED <<my_slack, add, demand, stack>> /\ (shut' = 0 => shut = 0)
    /\ \A w \in Workers : pc'[w] = "undo" <=> pc[w] = "undo"

SlackMove ==
    \/ \E t \in Threads : \/ WsTake(t) \/ WsEnough(t) \/ Adjust(t)
                          \/ \E d \in (-MaxDemand)..MaxDemand : Demand(t, d)
    \/ \E w \in Workers : Insert(w) \/ Undo(w)

SlackMoves == SlackSame \/ SlackMove \/ shut' # 0

LEMMA SlackStep == TypePc /\ TypeRest /\ TypeNumbers /\ Phases /\ [Next]_vars => SlackMoves
<1> SUFFICES ASSUME TypePc, TypeRest, TypeNumbers, Phases, [Next]_vars PROVE SlackMoves
    OBVIOUS
<1> USE Sets DEF SlackMoves, SlackSame, TypePc, TypeRest, TypeNumbers, TypeAdd, AddRange,
    life, list, monitor, local, market, Goto
<1>1. ASSUME NEW t \in Threads, WsLock(t) PROVE SlackMoves
    BY <1>1 DEF WsLock
<1>2. ASSUME NEW t \in Threads, WsTake(t) PROVE SlackMoves
    BY <1>2 DEF SlackMove
<1>3. ASSUME NEW t \in Threads, WsEnough(t) PROVE SlackMoves
    BY <1>3 DEF SlackMove
<1>4. ASSUME NEW t \in Threads, WsReturn(t) PROVE SlackMoves
    BY <1>4 DEF WsReturn
<1>5. ASSUME NEW t \in Threads, WsWake(t) PROVE SlackMoves
    <2>1. CASE Launch(t, LastTaken(t))
        BY <1>5, <2>1 DEF WsWake, Phases, WorkerPhase, Launch
    <2>2. CASE Notify(t, LastTaken(t))
        BY <1>5, <2>2 DEF WsWake, Notify
    <2> QED BY <1>5, <2>1, <2>2 DEF WsWake
<1>6. ASSUME NEW t \in Threads, WsSignal(t) PROVE SlackMoves
    BY <1>6 DEF WsSignal, DoneWith
<1>7. ASSUME NEW t \in Threads, WsNorm(t) PROVE SlackMoves
    BY <1>7 DEF WsNorm, DoneWith, StoreHandle
<1>8. ASSUME NEW t \in Threads, Adjust(t) PROVE SlackMoves
    BY <1>8 DEF SlackMove
<1>9. ASSUME NEW t \in Threads, CloseWorker(t) PROVE SlackMoves
    BY <1>9, WorkersAreNat DEF CloseWorker, Phases, ClosePhase, CloseLocs, TellToQuit
<1>10. ASSUME NEW t \in Threads, CloseSignal(t) PROVE SlackMoves
    BY <1>10, WorkersAreNat DEF CloseSignal, Phases, ClosePhase, CloseLocs
<1>11. ASSUME NEW t \in Threads, CloseRelease(t) PROVE SlackMoves
    BY <1>11, WorkersAreNat DEF CloseRelease, Phases, ClosePhase, CloseLocs
<1>12. ASSUME NEW t \in Threads, CloseRef(t) PROVE SlackMoves
    BY <1>12, WorkersAreNat DEF CloseRef, Phases, ClosePhase, CloseLocs
<1>13. ASSUME NEW t \in Threads, CloseEnd(t) PROVE SlackMoves
    BY <1>13 DEF CloseEnd
<1>14. ASSUME NEW t \in Threads, Close(t) PROVE SlackMoves
    BY <1>14 DEF Close, Outside, Adjusting
<1>15. ASSUME NEW t \in Threads, NEW d \in (-MaxDemand)..MaxDemand, Demand(t, d) PROVE SlackMoves
    BY <1>15 DEF SlackMove
<1>16. ASSUME NEW w \in Workers, Chain(w) PROVE SlackMoves
    <2>1. CASE root = Nobody /\ Goto(w, "loop") /\ UNCHANGED local
        BY <1>16, <2>1 DEF Chain, Phases, WakePhase
    <2>2. CASE root # Nobody /\ WakeSome(w, 0, "loop")
        BY <1>16, <2>2 DEF Chain, Phases, WakePhase, WakeSome
    <2> QED BY <1>16, <2>1, <2>2 DEF Chain
<1>17. ASSUME NEW w \in Workers, Loop(w) PROVE SlackMoves
    BY <1>17 DEF Loop
<1>18. ASSUME NEW w \in Workers, ProcessReturns(w) PROVE SlackMoves
    BY <1>18 DEF ProcessReturns
<1>19. ASSUME NEW w \in Workers, Prepare(w) PROVE SlackMoves
    BY <1>19 DEF Prepare
<1>20. ASSUME NEW w \in Workers, InWait(w) PROVE SlackMoves
    BY <1>20 DEF InWait
<1>21. ASSUME NEW w \in Workers, Check(w) PROVE SlackMoves
    BY <1>21 DEF Check
<1>22. ASSUME NEW w \in Workers, Insert(w) PROVE SlackMoves
    BY <1>22 DEF SlackMove
<1>23. ASSUME NEW w \in Workers, Undo(w) PROVE SlackMoves
    BY <1>23 DEF SlackMove
<1>24. ASSUME NEW w \in Workers, Commit(w) PROVE SlackMoves
    BY <1>24 DEF Commit, Sleep
<1>25. ASSUME NEW w \in Workers, Wake(w) PROVE SlackMoves
    BY <1>25 DEF Wake
<1>26. ASSUME NEW w \in Workers, Cancel(w) PROVE SlackMoves
    BY <1>26 DEF Cancel
<1>27. ASSUME NEW w \in Workers, Exit(w) PROVE SlackMoves
    BY <1>27 DEF Exit, Phases, ClosePhase, WorkerPhase
<1>28. ASSUME NEW w \in Workers, Deref(w) PROVE SlackMoves
    BY <1>28 DEF Deref
<1>29. CASE UNCHANGED vars
    BY <1>29 DEF vars
<1> QED
    BY <1>1, <1>2, <1>3, <1>4, <1>5, <1>6, <1>7, <1>8, <1>9, <1>10, <1>11, <1>12, <1>13,
        <1>14, <1>15, <1>16, <1>17, <1>18, <1>19, <1>20, <1>21, <1>22, <1>23, <1>24, <1>25,
        <1>26, <1>27, <1>28, <1>29
    DEF Next, ServerStep, WorkerStep, ClientStep

LEMMA SlackKept ==
    ASSUME TypeOK, TypeOK', Phases, SlackExact, ListIsStack, TakenOnce, HeldSleep, [Next]_vars
    PROVE  SlackExact'
<1>1. SUFFICES ASSUME shut' = 0
               PROVE  my_slack' + InHand' - TakenBack' = demand' - (NThread - Len(stack')) + Undoing'
    BY DEF SlackExact, Undoing
<1>2. /\ add \in [Threads -> (-MaxDemand)..MaxDemand] /\ add' \in [Threads -> (-MaxDemand)..MaxDemand]
      /\ my_slack \in Int /\ demand \in Int /\ Len(stack) \in Int /\ NThread \in Int
    BY Bounds DEF TypeOK, ListIsStack
<1>3. InHand \in Nat /\ TakenBack \in Nat
    <2>1. \A t \in Threads : add[t] \in (-MaxDemand)..MaxDemand
        BY <1>2
    <2> QED BY <2>1, SumsAreNat
<1>4. Undoing \in Nat
    BY WorkerCount DEF Undoing
<1>5. shut = 0 => my_slack + InHand - TakenBack = demand - (NThread - Len(stack)) + Undoing
    BY DEF SlackExact, Undoing
<1>6. CASE SlackSame
    <2>1. shut = 0
        BY <1>1, <1>6 DEF SlackSame
    <2>2. Undoing' = Undoing
        BY <1>6, UndoingSame DEF SlackSame
    <2>3. InHand' = InHand /\ TakenBack' = TakenBack
        BY <1>6 DEF SlackSame, InHand, TakenBack, Units
    <2> QED BY <1>5, <1>6, <2>1, <2>2, <2>3 DEF SlackSame
<1>7. ASSUME NEW t \in Threads, WsTake(t)
      PROVE  my_slack' + InHand' - TakenBack' = demand' - (NThread - Len(stack')) + Undoing'
    <2>1. Len(stack') = Len(stack) - 1
        BY <1>7, HandAtTake DEF TypeOK, TypePc, TypeRest, TypeWakee
    <2>2. Undoing' = Undoing /\ demand' = demand /\ shut = 0 /\ add[t] \in Int
        BY <1>1, <1>2, <1>7, UndoingSame DEF WsTake, market, life
    <2>3. CASE UseDemand(t)
        <3>1. /\ add[t] > 0 /\ add'[t] = add[t] - 1 /\ my_slack' = my_slack
              /\ \A u \in Threads : u # t => add'[u] = add[u]
            BY <1>2, <2>3 DEF UseDemand
        <3>2. /\ InHand' - Positive(add'[t]) = InHand - Positive(add[t]) /\ InHand' \in Nat
              /\ TakenBack' - Positive(-add'[t]) = TakenBack - Positive(-add[t]) /\ TakenBack' \in Nat
            BY <1>2, <3>1, AddChange
        <3>3. InHand' = InHand - 1 /\ TakenBack' = TakenBack
            BY <1>3, <2>2, <3>1, <3>2 DEF Positive
        <3> QED BY <1>2, <1>3, <1>4, <1>5, <2>1, <2>2, <3>1, <3>3
    <2>4. CASE UseSlack(t)
        <3>1. InHand' = InHand /\ TakenBack' = TakenBack /\ my_slack' = my_slack - 1
            BY <2>4 DEF UseSlack, InHand, TakenBack, Units
        <3> QED BY <1>2, <1>3, <1>4, <1>5, <2>1, <2>2, <3>1
    <2> QED BY <1>7, <2>3, <2>4 DEF WsTake
<1>8. ASSUME NEW t \in Threads, WsEnough(t)
      PROVE  my_slack' + InHand' - TakenBack' = demand' - (NThread - Len(stack')) + Undoing'
    <2>1. /\ add[t] \in Int /\ add[t] >= 0 /\ add'[t] = 0 /\ my_slack' = my_slack + add[t]
          /\ \A u \in Threads : u # t => add'[u] = add[u]
          /\ shut = 0 /\ UNCHANGED <<demand, stack>>
        BY <1>1, <1>2, <1>8 DEF WsEnough, Phases, WakePhase, market, life
    <2>2. Undoing' = Undoing
        BY <1>8, UndoingSame DEF WsEnough, Goto, TypeOK
    <2>3. /\ InHand' - Positive(add'[t]) = InHand - Positive(add[t]) /\ InHand' \in Nat
          /\ TakenBack' - Positive(-add'[t]) = TakenBack - Positive(-add[t]) /\ TakenBack' \in Nat
        BY <1>2, <2>1, AddChange
    <2>4. InHand' = InHand - add[t] /\ TakenBack' = TakenBack
        <3>1. PICK n \in Nat : n = add[t]
            BY <2>1
        <3>2. Positive(n) = n /\ Positive(-n) = 0 /\ Positive(0) = 0 /\ Positive(-0) = 0
            BY DEF Positive
        <3> QED BY <1>3, <2>1, <2>3, <3>1, <3>2
    <2>5. my_slack' + InHand' - TakenBack' = my_slack + InHand - TakenBack
        BY <1>2, <1>3, <2>1, <2>4
    <2>6. demand' = demand /\ Len(stack') = Len(stack)
        BY <2>1
    <2> QED BY <1>5, <2>1, <2>2, <2>5, <2>6
<1>9. ASSUME NEW t \in Threads, Adjust(t)
      PROVE  my_slack' + InHand' - TakenBack' = demand' - (NThread - Len(stack')) + Undoing'
    <2>1. shut = 0 /\ UNCHANGED <<demand, stack>> /\ add[t] \in Int /\ pc[t] = "adjust"
        BY <1>1, <1>2, <1>9 DEF Adjust, market, life, list
    <2>2. CASE TakeBack(t)
        <3>1. /\ add[t] < 0 /\ add'[t] = 0 /\ my_slack' = my_slack + add[t]
              /\ \A u \in Threads : u # t => add'[u] = add[u]
            BY <1>2, <2>2 DEF TakeBack
        <3>2. Undoing' = Undoing
            <4>1. ret[t] \in {"loop", "process", "rest"} /\ pc'[t] = ret[t]
                  /\ \A u \in Threads : u # t => pc'[u] = pc[u]
                BY <2>2 DEF TakeBack, Goto, TypeOK
            <4>2. \A w \in Workers : pc'[w] = "undo" <=> pc[w] = "undo"
                BY <2>1, <4>1, Sets
            <4> QED BY <4>2, UndoingSame
        <3>3. /\ InHand' - Positive(add'[t]) = InHand - Positive(add[t]) /\ InHand' \in Nat
              /\ TakenBack' - Positive(-add'[t]) = TakenBack - Positive(-add[t]) /\ TakenBack' \in Nat
            BY <1>2, <3>1, AddChange
        <3>4. InHand' = InHand /\ TakenBack' = TakenBack + add[t]
            BY <1>3, <2>1, <3>1, <3>3 DEF Positive
        <3>5. my_slack' + InHand' - TakenBack' = my_slack + InHand - TakenBack
            BY <1>2, <1>3, <2>1, <3>1, <3>4
        <3> QED BY <1>5, <2>1, <3>2, <3>5
    <2>3. CASE add[t] > 0 /\ WakeSome(t, add[t], ret[t]) /\ UNCHANGED my_slack
        <3>1. add' = add
            BY <1>2, <2>3 DEF WakeSome
        <3>2. Undoing' = Undoing
            BY <2>1, <2>3, UndoingSame DEF WakeSome, Goto, TypeOK
        <3>3. InHand' = InHand /\ TakenBack' = TakenBack
            BY <3>1 DEF InHand, TakenBack, Units
        <3> QED BY <1>5, <2>1, <2>3, <3>2, <3>3
    <2> QED BY <1>9, <2>2, <2>3 DEF Adjust
<1>10. ASSUME NEW t \in Threads, NEW d \in (-MaxDemand)..MaxDemand, Demand(t, d)
       PROVE  my_slack' + InHand' - TakenBack' = demand' - (NThread - Len(stack')) + Undoing'
    <2>1. /\ add[t] = 0 /\ add'[t] = d /\ d \in Int /\ demand' = demand + d
          /\ \A u \in Threads : u # t => add'[u] = add[u]
          /\ shut = 0 /\ UNCHANGED <<my_slack, stack>>
        BY <1>2, <1>10, Bounds DEF Demand, Outside, Phases, WakePhase, list
    <2>2. Undoing' = Undoing
        BY <1>10, UndoingSame DEF Demand, Outside, Goto, TypeOK
    <2>3. /\ InHand' - Positive(add'[t]) = InHand - Positive(add[t]) /\ InHand' \in Nat
          /\ TakenBack' - Positive(-add'[t]) = TakenBack - Positive(-add[t]) /\ TakenBack' \in Nat
        BY <1>2, <2>1, AddChange
    <2>4. CASE d > 0
        <3>0. /\ Positive(add[t]) = 0 /\ Positive(-add[t]) = 0
              /\ Positive(add'[t]) = d /\ Positive(-add'[t]) = 0
            BY <2>1, <2>4 DEF Positive
        <3>1. InHand' = InHand + d /\ TakenBack' = TakenBack
            BY <1>3, <2>1, <2>3, <3>0
        <3> QED BY <1>2, <1>3, <1>4, <1>5, <2>1, <2>2, <3>1
    <2>5. CASE d <= 0
        <3>0. /\ Positive(add[t]) = 0 /\ Positive(-add[t]) = 0
              /\ Positive(add'[t]) = 0 /\ Positive(-add'[t]) = -d
            BY <2>1, <2>5 DEF Positive
        <3>1. InHand' = InHand /\ TakenBack' = TakenBack - d
            BY <1>3, <2>1, <2>3, <3>0
        <3>2. my_slack' + InHand' - TakenBack' = my_slack + InHand - TakenBack + d
            BY <1>2, <1>3, <2>1, <3>1
        <3> QED BY <1>2, <1>3, <1>4, <1>5, <2>1, <2>2, <3>2
    <2> QED BY <2>1, <2>4, <2>5
<1>11. ASSUME NEW w \in Workers, Insert(w)
       PROVE  my_slack' + InHand' - TakenBack' = demand' - (NThread - Len(stack')) + Undoing'
    <2>1. /\ pc[w] = "insert" /\ shut = 0 /\ UNCHANGED <<demand, add>>
        BY <1>1, <1>11 DEF Insert, life, local, market
    <2>2. InHand' = InHand /\ TakenBack' = TakenBack
        BY <2>1 DEF InHand, TakenBack, Units
    <2>3. CASE InsertFails(w)
        <3>1. Undoing' = Undoing
            BY <2>1, <2>3, Sets, UndoingSame DEF InsertFails, Goto, TypeOK
        <3> QED BY <1>5, <2>1, <2>2, <2>3, <3>1 DEF InsertFails, list
    <2>4. CASE PushAsleep(w)
        <3>1. Undoing' = Undoing
            BY <2>1, <2>4, Sets, UndoingSame DEF PushAsleep, Goto, TypeOK
        <3>2. Len(stack') = Len(stack) + 1
            <4>1. stack' = <<w>> \o stack /\ stack \in Seq(Workers) /\ <<w>> \in Seq(Workers) /\ Len(<<w>>) = 1
                BY <2>4 DEF PushAsleep, ListIsStack
            <4> QED BY <4>1, ConcatProperties
        <3>3. my_slack' = my_slack + 1
            BY <2>4 DEF PushAsleep
        <3> QED BY <1>2, <1>3, <1>4, <1>5, <2>1, <2>2, <3>1, <3>2, <3>3
    <2>5. CASE InsertTooLate(w)
        <3>1. Undoing' = Undoing + 1
            BY <2>1, <2>5, Sets, UndoingMore DEF InsertTooLate, Goto, TypeOK
        <3>2. my_slack' = my_slack + 1 /\ stack' = stack
            BY <2>5 DEF InsertTooLate
        <3> QED BY <1>2, <1>3, <1>4, <1>5, <2>1, <2>2, <3>1, <3>2
    <2> QED BY <1>11, <2>3, <2>4, <2>5 DEF Insert
<1>12. ASSUME NEW w \in Workers, Undo(w)
       PROVE  my_slack' + InHand' - TakenBack' = demand' - (NThread - Len(stack')) + Undoing'
    <2>1. shut = 0 /\ UNCHANGED <<demand, add, stack>> /\ my_slack' = my_slack - 1
        BY <1>1, <1>12 DEF Undo, life, local, market
    <2>2. Undoing' = Undoing - 1
        BY <1>12, Sets, UndoingLess DEF Undo, Goto, TypeOK
    <2>3. InHand' = InHand /\ TakenBack' = TakenBack
        BY <2>1 DEF InHand, TakenBack, Units
    <2> QED BY <1>2, <1>3, <1>4, <1>5, <2>1, <2>2, <2>3
<1> QED
    BY <1>1, <1>6, <1>7, <1>8, <1>9, <1>10, <1>11, <1>12, SlackStep,
        TypeOKParts DEF TypeParts, SlackMoves, SlackMove

-----------------------------------------------------------------------------
(* The invariants *)

LEMMA LifeKept == LifeInv /\ [Next]_vars => LifeInv'
<1> SUFFICES ASSUME TypeOK, Phases, MonitorExact, HandleOnce, RefsExact, [Next]_vars
             PROVE  LifeInv'
    BY DEF LifeInv
<1>1. WorkerPhase /\ CallPhase /\ WakePhase /\ ClosePhase /\ TypeParts
    BY TypeOKParts DEF Phases
<1>2. Phases'
    BY <1>1, WorkerPhaseKept, CallPhaseKept, WakePhaseKept, ClosePhaseKept DEF Phases, TypeParts
<1>3. MonitorExact' /\ HandleOnce'
    BY <1>1, MonitorKept, HandleKept DEF TypeParts, TypeNumbers
<1>4. RefsExact'
    BY RefsKept
<1>5. TypeParts'
    BY <1>1, TypePcKept, TypeNumbersKept, TypeRestKept, TypeMonitorKept,
        TypeWakeeKept DEF TypeParts
<1>6. my_ref_count' \in 0..(NThread + 1)
    <2>1. Cardinality({w \in Workers : Referring(w)'}) \in 0..NThread
        BY WorkerCount
    <2>2. my_ref_count' = Cardinality({w \in Workers : Referring(w)'}) + (IF ClientRefers' THEN 1 ELSE 0)
        BY <1>4 DEF RefsExact
    <2> QED BY <2>1, <2>2, Bounds
<1> QED BY <1>2, <1>3, <1>4, <1>5, <1>6, TypeOKParts DEF LifeInv

LEMMA LifeAtFirst == Init => LifeInv
<1> SUFFICES ASSUME Init PROVE LifeInv
    OBVIOUS
<1> USE Sets, Bounds DEF Init
<1>1. TypeOK
    <2>1. NThread \in Workers /\ \A w \in Workers : w # 1 => w - 1 \in Workers
        BY DEF Workers
    <2>2. TypePc /\ TypeMonitor
        BY DEF TypePc, TypeMonitor, WorkerLocs
    <2>3. TypeNumbers /\ my_ref_count \in 0..(NThread + 1)
        BY DEF TypeNumbers, TypeAdd, AddRange
    <2>4. TypeRest
        BY <2>1 DEF TypeRest
    <2>5. TypeWakee
        BY DEF TypeWakee
    <2> QED BY <2>2, <2>3, <2>4, <2>5 DEF TypeOK, TypePc, TypeNumbers, TypeAdd, AddRange,
        TypeRest, TypeMonitor, TypeWakee
<1>2. Phases
    BY DEF Phases, WorkerPhase, CallPhase, WakePhase, ClosePhase, WakeLocs, CloseLocs
<1>3. MonitorExact /\ HandleOnce
    BY DEF MonitorExact, Waiting, HandleOnce
<1>4. RefsExact
    <2>1. {w \in Workers : Referring(w)} = Workers
        BY DEF Referring
    <2>2. Cardinality(Workers) = NThread
        BY FS_Interval DEF Workers
    <2>3. ClientRefers
        BY DEF ClientRefers
    <2>4. my_ref_count = NThread + 1 /\ my_ref_count # 0 /\ alive
        OBVIOUS
    <2> HIDE DEF Init
    <2> QED BY <2>1, <2>2, <2>3, <2>4 DEF RefsExact
<1> QED BY <1>1, <1>2, <1>3, <1>4 DEF LifeInv

LEMMA AccountsAtFirst == Init => Accounts
<1> SUFFICES ASSUME Init PROVE Accounts
    OBVIOUS
<1> USE Sets, Bounds DEF Init
<1>1. stack \in Seq(Workers) /\ Len(stack) = NThread /\ DOMAIN stack = 1..NThread
    BY DEF Workers
<1>2. \A i \in 1..NThread : stack[i] = NThread + 1 - i /\ stack[i] \in Workers
    BY DEF Workers
<1>3. ListIsStack
    <2>1. \A i, j \in 1..Len(stack) : stack[i] = stack[j] => i = j
        BY <1>1, <1>2
    <2>2. root = IF stack = <<>> THEN Nobody ELSE stack[1]
        <3>1. 1 \in 1..NThread /\ NThread + 1 - 1 = NThread
            OBVIOUS
        <3>2. stack[1] = NThread /\ Len(stack) # 0
            BY <1>1, <1>2, <3>1
        <3> QED BY <3>2
    <2>3. ASSUME NEW i \in 1..Len(stack)
          PROVE  my_next[stack[i]] = IF i = Len(stack) THEN Nobody ELSE stack[i + 1]
        BY <1>1, <1>2
    <2> QED BY <1>1, <2>1, <2>2, <2>3 DEF ListIsStack
<1>4. \A t \in Threads : Due(t) = {}
    BY DEF Due
<1>5. \A w : ~ Taken(w)
    BY <1>4 DEF Taken
<1>6. \A w \in Workers : w \in Listed
    <2>1. ASSUME NEW w \in Workers PROVE  w \in Listed
        <3>1. NThread + 1 - w \in 1..NThread /\ NThread + 1 - (NThread + 1 - w) = w
            BY WorkersAreNat
        <3> QED BY <1>1, <1>2, <3>1 DEF Listed
    <2> QED BY <2>1
<1>7. TakenOnce
    BY <1>4, <1>5 DEF TakenOnce
<1>8. HeldSleep /\ SleeperHeld
    BY <1>6 DEF HeldSleep, SleeperHeld, Held
<1>9. SlackExact
    <2>1. InHand = 0
        <3>1. {u \in Threads \X (1..MaxDemand) : u[2] <= add[u[1]]} = {}
            OBVIOUS
        <3> QED BY <3>1, FS_EmptySet DEF InHand, Units
    <2>2. TakenBack = 0
        <3>1. {u \in Threads \X (1..MaxDemand) : u[2] <= [t \in Threads |-> -add[t]][u[1]]} = {}
            OBVIOUS
        <3> QED BY <3>1, FS_EmptySet DEF TakenBack, Units
    <2>3. Cardinality({w \in Workers : pc[w] = "undo"}) = 0
        <3>1. {w \in Workers : pc[w] = "undo"} = {}
            OBVIOUS
        <3> QED BY <3>1, FS_EmptySet
    <2> QED BY <1>1, <2>1, <2>2, <2>3 DEF SlackExact
<1> QED BY <1>3, <1>7, <1>8, <1>9 DEF Accounts

LEMMA LateChanges ==
    TypeRest /\ [Next]_vars =>
        late' = late \/ \E w \in Workers : Pushes(w)
BY DEF Pushes, TypeRest, Next, ServerStep, WorkerStep, ClientStep, vars, list, WsLock, WsTake,
    WsEnough, WsReturn, WsWake, WsSignal, WsNorm, Adjust, CloseWorker, CloseSignal,
    CloseRelease, CloseRef, CloseEnd, Close, Demand, Chain, Loop, ProcessReturns, Prepare,
    InWait, Check, Insert, InsertFails, PushAsleep, InsertTooLate, Undo, Commit, Wake, Cancel,
    Exit, Deref

LEMMA LateStays == TypeRest /\ late /\ [Next]_vars => late'
BY LateChanges DEF Pushes, PushAsleep

\* A worker that is listed with a late notification is in two hands, or will not
\* sleep.
LEMMA LateBreaks ==
    ASSUME TypeOK, Phases, ~ late, late', [Next]_vars PROVE ~ Accounts'
<1>1. TypePc /\ TypeRest /\ TypeWakee /\ WakePhase
    BY TypeOKParts DEF TypeParts, Phases
<1>2. PICK w \in Workers : Pushes(w)
    BY <1>1, LateChanges
<1>3. /\ pc[w] = "insert" /\ pc'[w] = "commit" /\ \A u \in Threads : u # w => pc'[u] = pc[u]
      /\ UNCHANGED <<wakee, my_state, in_wait>> /\ stack' = <<w>> \o stack
      /\ Told(w) \/ (w \notin in_wait /\ my_state[w] # "quit")
    BY <1>1, <1>2, Sets DEF Pushes, Insert, PushAsleep, Goto, TypePc, local, life, monitor
<1>4. CASE ~ ListIsStack'
    BY <1>4 DEF Accounts
<1>5. CASE ListIsStack'
    <2>1. w \in Listed'
        <3>1. stack' \in Seq(Workers) /\ stack' = <<w>> \o stack
            BY <1>3, <1>5 DEF ListIsStack
        <3>2. 1 \in 1..Len(stack') /\ stack'[1] = w
            BY <3>1
        <3> QED BY <3>2 DEF Listed
    <2>2. CASE Told(w)
        <3>1. PICK t \in Threads : \E i \in Due(t) : wakee[t][i] = w
            BY <1>1, <2>2, ToldIsTaken DEF Taken
        <3>2. Due(t)' = Due(t) /\ wakee' = wakee
            BY <1>3 DEF Due
        <3>3. Taken(w)'
            BY <3>1, <3>2 DEF Taken
        <3> QED BY <2>1, <3>3 DEF Accounts, TakenOnce
    <2>3. CASE w \notin in_wait /\ my_state[w] # "quit"
        <3>1. Held(w)'
            BY <2>1 DEF Held
        <3> QED BY <1>3, <2>3, <3>1 DEF Accounts, HeldSleep
    <2> QED BY <1>3, <2>2, <2>3
<1> QED BY <1>4, <1>5

LEMMA AccountsKept == IInv /\ [Next]_vars => IInv'
<1> SUFFICES ASSUME IInv, [Next]_vars PROVE IInv'
    OBVIOUS
<1>1. LifeInv /\ LifeInv'
    BY LifeKept DEF IInv
<1>2. TypeOK /\ TypeOK' /\ Phases /\ MonitorExact
    BY <1>1 DEF LifeInv
<1>3. ASSUME ~ late' PROVE  Accounts'
    <2>1. Accounts
        BY <1>2, <1>3, TypeOKParts, LateStays DEF IInv, TypeParts
    <2>2. ListIsStack' /\ TakenOnce' /\ HeldSleep' /\ SleeperHeld'
        BY <1>2, <1>3, <2>1, SleepersKept DEF Accounts
    <2>3. SlackExact'
        BY <1>2, <2>1, SlackKept DEF Accounts
    <2> QED BY <2>2, <2>3 DEF Accounts
<1> QED BY <1>1, <1>3 DEF IInv

\* Whatever the order of late notifications, launches and the shutdown: the phases
\* of workers and callers fit together, the thread_monitors' flags are exact, the
\* handle of a thread is stored after its launch and released once, by the
\* launcher or by start_shutdown, and the count of references is the number of
\* workers that have not left and of a client that has not closed.
THEOREM LifeInvariant == Spec => []LifeInv
<1>1. Init => LifeInv
    BY LifeAtFirst
<1>2. LifeInv /\ [Next]_vars => LifeInv'
    BY LifeKept
<1> QED BY <1>1, <1>2, PTL DEF Spec

\* remove_server_ref deletes the server when no worker runs and nobody is inside
\* wake_some or request_close_connection.
THEOREM ServerAliveInvariant == Spec => []ServerAlive
<1>1. LifeInv => ServerAlive
    <2> SUFFICES ASSUME LifeInv, ~ alive, NEW t \in Threads
                 PROVE  pc[t] \in {"none", "gone", "rest"}
        BY DEF ServerAlive
    <2> DEFINE R == {w \in Workers : Referring(w)}
    <2>1. IsFiniteSet(R) /\ Cardinality(R) \in Nat
        BY WorkerCount
    <2>2. Cardinality(R) = 0 /\ ~ ClientRefers
        BY <2>1 DEF LifeInv, RefsExact
    <2>3. R = {}
        <3> HIDE DEF R
        <3> QED BY <2>1, <2>2, FS_EmptySet
    <2>4. \A w \in Workers : ~ Referring(w)
        BY <2>3
    <2>5. CASE t \in Workers
        BY <2>4, <2>5 DEF Referring
    <2>6. CASE t \in Masters
        <3>1. shut # 0 /\ pc[t] \notin CloseLocs
            BY <2>2, Bounds DEF ClientRefers
        <3>2. ret[t] = "loop"
            BY <3>1 DEF LifeInv, Phases, ClosePhase
        <3> QED BY <2>6, <3>1, <3>2 DEF LifeInv, Phases, CallPhase
    <2> QED BY <2>5, <2>6, Sets
<1> QED BY <1>1, LifeInvariant, PTL

\* In every behaviour, until a worker lists itself with a late notification: the
\* list is a list that no worker is twice on; a worker is in one hand, on the list
\* or taken by one call of wake_some; who sleeps will be told; and my_slack is the
\* demand that has been delivered, less the workers not on the list.  A late
\* notification of a worker that does not come onto the list does no harm.
THEOREM AccountsInvariant == Spec => []IInv
<1>1. Init => IInv
    BY LifeAtFirst, AccountsAtFirst DEF IInv
<1>2. IInv /\ [Next]_vars => IInv'
    BY AccountsKept
<1> QED BY <1>1, <1>2, PTL DEF Spec

\* The first step after which slack, list and sleepers do not agree is a
\* worker's that lists itself with a late notification, and every such step is one.
THEOREM AccountsFailFirst == Spec => FirstFailure
<1>1. IInv /\ IInv' /\ [Next]_vars => [~ late => (late' <=> ~ Accounts')]_vars
    <2> SUFFICES ASSUME IInv, IInv', [Next]_vars, ~ late PROVE late' <=> ~ Accounts'
        OBVIOUS
    <2>1. ~ late' => Accounts'
        BY DEF IInv
    <2>2. late' => ~ Accounts'
        BY LateBreaks DEF IInv, LifeInv
    <2> QED BY <2>1, <2>2
<1> QED BY <1>1, AccountsInvariant, PTL DEF Spec, FirstFailure

\* private_server.cpp:151: who is on the list is blocked, or about to be, or has no
\* thread yet, until the shutdown, in every behaviour up to the step that lists a worker
\* with a late notification.
THEOREM ListedSleepUntilLate == Spec => [](~ late => ListedSleep)
<1>1. IInv => (~ late => ListedSleep)
    <2> SUFFICES ASSUME IInv, ~ late, NEW w \in Listed
                 PROVE  pc[w] \in {"none", "commit", "asleep"} \/ my_state[w] = "quit"
        BY DEF ListedSleep
    <2>1. ListIsStack /\ TakenOnce /\ HeldSleep /\ TypeWakee /\ WakePhase
        BY TypeOKParts DEF IInv, Accounts, LifeInv, TypeParts, Phases
    <2>2. w \in Workers /\ ~ Taken(w)
        BY <2>1, InList DEF TakenOnce
    <2>3. ~ Told(w)
        BY <2>1, <2>2, ToldIsTaken
    <2> QED BY <2>1, <2>2, <2>3 DEF HeldSleep, Held, Leaving
<1> QED BY <1>1, AccountsInvariant, PTL

=============================================================================
