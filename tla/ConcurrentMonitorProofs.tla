----------------------- MODULE ConcurrentMonitorProofs -----------------------
(***************************************************************************)
(* For any sets of waiting and notifying threads: the invariant of         *)
(* concurrent_monitor, and that it implements the event count.             *)
(***************************************************************************)
EXTENDS ConcurrentMonitor, TLAPS

LEMMA InitInv == Init => IInv
BY DEF Init, IInv, TypeOK, Bookkeeping, OneSignal, ContextAlive, NoLostWakeup,
       Owed, Posting, Announced, WaiterLocs, NotifierLocs, Calls

LEMMA StepInv == IInv /\ [Next]_vars => IInv'
<1> SUFFICES ASSUME IInv, [Next]_vars PROVE IInv'
    OBVIOUS
<1> USE DEF IInv, TypeOK, Bookkeeping, OneSignal, ContextAlive, NoLostWakeup,
            Owed, Posting, Committed, Announced, WaiterLocs, NotifierLocs, Calls,
            monitor, waiters, notifiers, Goto, CallCancel, ReturnFromCancel
<1>1. ASSUME NEW t \in Waiters, Wait(t) PROVE IInv'
    BY <1>1 DEF Wait
<1>2. ASSUME NEW t \in Waiters, Pump(t) PROVE IInv'
    BY <1>2 DEF Pump
<1>3. ASSUME NEW t \in Waiters, Prepare(t) PROVE IInv'
    BY <1>3 DEF Prepare
<1>4. ASSUME NEW t \in Waiters, Test(t) \/ TestFails(t) \/ Commit(t) PROVE IInv'
    BY <1>4 DEF Test, TestFails, Commit
<1>5. ASSUME NEW t \in Waiters, Wake(t) PROVE IInv'
    BY <1>5 DEF Wake
<1>6. ASSUME NEW t \in Waiters, Cancel(t) PROVE IInv'
    BY <1>6 DEF Cancel
<1>7. ASSUME NEW t \in Waiters, CancelLocked(t) PROVE IInv'
    <2>1. /\ pc' = [pc EXCEPT ![t] = back[t]] /\ back' = [back EXCEPT ![t] = "leave"]
          /\ back[t] \in {"prepare", "leave"} /\ pc[t] = "c_lock" /\ t \in spurious
        BY <1>7 DEF CancelLocked
    <2>2. CASE t \in in_waitset
        <3>1. /\ waitset' = waitset \ {t} /\ in_waitset' = in_waitset \ {t}
              /\ spurious' = spurious \ {t} /\ t \notin Owed
              /\ UNCHANGED <<fresh, aborted, sema, ready, npc, call, target, temp>>
            BY <1>7, <2>2 DEF CancelLocked
        <3>2. TypeOK'
            BY <2>1, <3>1
        <3>3. Bookkeeping'
            BY <2>1, <2>2, <3>1
        <3>4. (OneSignal /\ ContextAlive)'
            BY <2>1, <3>1
        <3>5. NoLostWakeup'
            BY <2>1, <3>1
        <3> QED BY <3>2, <3>3, <3>4, <3>5
    <2>3. CASE t \notin in_waitset
        BY <1>7, <2>1, <2>3 DEF CancelLocked
    <2> QED BY <2>2, <2>3
<1>8. ASSUME NEW t \in Waiters, Leave(t) PROVE IInv'
    BY <1>8 DEF Leave
<1>9. ASSUME NEW n \in Notifiers, Post(n) PROVE IInv'
    BY <1>9 DEF Post, NotifyOne, NotifySome, NotifyAll, AbortAll, Call
<1>10. ASSUME NEW n \in Notifiers, CheckEmpty(n) PROVE IInv'
    BY <1>10 DEF CheckEmpty, Return
<1>11. ASSUME NEW n \in Notifiers, Pick(n) PROVE IInv'
    BY <1>11 DEF Pick, Choices, Take, Return
<1>12. ASSUME NEW n \in Notifiers, SignalOne(n) PROVE IInv'
    BY <1>12 DEF SignalOne, Signal, Return
<1>13. CASE UNCHANGED vars
    BY <1>13 DEF vars
<1> QED
    BY <1>1, <1>2, <1>3, <1>4, <1>5, <1>6, <1>7, <1>8, <1>9, <1>10, <1>11,
       <1>12, <1>13
    DEF Next, WaiterStep, NotifierStep

\* The inductive invariant holds in every reachable state, for any number of
\* threads that wait and notify.
THEOREM Invariant == Spec => []IInv
BY InitInv, StepInv, PTL DEF Spec

\* A thread that sleeps although what it waits for holds is about to be woken.
THEOREM NoWakeupIsLost == Spec => []NoLostWakeup
BY Invariant, PTL DEF IInv

\* The binary semaphore of a thread_context is posted once for each P().
THEOREM OnePostOnly == Spec => []OneSignal
BY Invariant, PTL DEF IInv

\* No notifier touches a thread_context that has been destroyed.
THEOREM ContextsStayAlive == Spec => []ContextAlive
BY Invariant, PTL DEF IInv

LEMMA StepRefines == IInv /\ [Next]_vars => [EC!Next]_(EC!vars)
<1> SUFFICES ASSUME IInv, [Next]_vars PROVE [EC!Next]_(EC!vars)
    OBVIOUS
<1> USE DEF IInv, TypeOK, Bookkeeping, OneSignal, ContextAlive,
            Owed, Posting, Announced, WaiterLocs, NotifierLocs, Calls,
            monitor, waiters, notifiers, Goto, CallCancel, ReturnFromCancel,
            EC!vars, EC!Next, EC!Step
<1>1. ASSUME NEW t \in Waiters, Wait(t) PROVE UNCHANGED EC!vars
    BY <1>1 DEF Wait
<1>2. ASSUME NEW t \in Waiters, Pump(t) PROVE EC!Pump(t)
    BY <1>2 DEF Pump, EC!Pump
<1>3. ASSUME NEW t \in Waiters, Prepare(t) PROVE EC!Announce(t)
    BY <1>3 DEF Prepare, EC!Announce
<1>4. ASSUME NEW t \in Waiters, Test(t) \/ TestFails(t) PROVE UNCHANGED EC!vars
    BY <1>4 DEF Test, TestFails
<1>5. ASSUME NEW t \in Waiters, Commit(t) PROVE EC!Sleep(t) \/ UNCHANGED EC!vars
    BY <1>5 DEF Commit, EC!Sleep
<1>6. ASSUME NEW t \in Waiters, Wake(t) PROVE EC!Return(t)
    BY <1>6 DEF Wake, EC!Return
<1>7. ASSUME NEW t \in Waiters, Cancel(t) PROVE UNCHANGED EC!vars
    BY <1>7 DEF Cancel
<1>8. ASSUME NEW t \in Waiters, CancelLocked(t)
      PROVE  EC!Cancel(t) \/ UNCHANGED EC!vars
    BY <1>8 DEF CancelLocked, EC!Cancel
<1>9. ASSUME NEW t \in Waiters, Leave(t) PROVE EC!Forget(t)
    BY <1>9 DEF Leave, EC!Forget
<1>10. ASSUME NEW n \in Notifiers, Post(n) PROVE UNCHANGED EC!vars
    BY <1>10 DEF Post, NotifyOne, NotifySome, NotifyAll, AbortAll, Call
<1>11. ASSUME NEW n \in Notifiers, CheckEmpty(n) PROVE UNCHANGED EC!vars
    BY <1>11 DEF CheckEmpty, Return
<1>12. ASSUME NEW n \in Notifiers, Pick(n)
       PROVE  EC!Abort \/ \E S \in SUBSET waitset : EC!Notify(S)
    <2>1. PICK S \in Choices(n) : Take(n, S)
        BY <1>12 DEF Pick
    <2>2. S \in SUBSET waitset /\ (call[n] = "abort" => S = waitset)
        <3>1. CASE call[n] = "one" /\ waitset # {}
            BY <2>1, <3>1 DEF Choices
        <3>2. CASE ~(call[n] = "one" /\ waitset # {})
            <4>1. S = waitset \cap target[n]
                BY <2>1, <3>2 DEF Choices
            <4> QED BY <4>1
        <3> QED BY <3>1, <3>2
    <2>3. temp[n] = {} /\ \A m \in Notifiers \ {n} : temp'[m] = temp[m] /\ call'[m] = call[m]
        BY <2>1 DEF Take, Return
    <2>4. temp'[n] = S /\ (S # {} => call'[n] = call[n])
        BY <2>1 DEF Take
    <2>5. Owed' = Owed \cup S
        BY <2>1, <2>2, <2>3, <2>4 DEF Take
    <2>6. CASE call[n] = "abort"
        <3>1. {t \in Waiters : t \in aborted \/ \E m \in Notifiers :
                   call[m] = "abort" /\ t \in temp[m]}'
              = {t \in Waiters : t \in aborted \/ \E m \in Notifiers :
                   call[m] = "abort" /\ t \in temp[m]} \cup S
            BY <2>1, <2>2, <2>3, <2>4, <2>6 DEF Take
        <3> QED BY <2>1, <2>2, <2>5, <2>6, <3>1 DEF Take, EC!Abort
    <2>7. CASE call[n] # "abort"
        <3>1. {t \in Waiters : t \in aborted \/ \E m \in Notifiers :
                   call[m] = "abort" /\ t \in temp[m]}'
              = {t \in Waiters : t \in aborted \/ \E m \in Notifiers :
                   call[m] = "abort" /\ t \in temp[m]}
            BY <2>1, <2>2, <2>3, <2>4, <2>7 DEF Take
        <3>2. EC!Notify(S)
            BY <2>1, <2>5, <3>1 DEF Take, EC!Notify
        <3> QED BY <2>2, <3>2
    <2> QED BY <2>6, <2>7
<1>13. ASSUME NEW n \in Notifiers, SignalOne(n) PROVE UNCHANGED EC!vars
    BY <1>13 DEF SignalOne, Signal, Return
<1>14. CASE UNCHANGED vars
    BY <1>14 DEF vars
<1> QED
    BY <1>1, <1>2, <1>3, <1>4, <1>5, <1>6, <1>7, <1>8, <1>9, <1>10, <1>11,
       <1>12, <1>13, <1>14
    DEF Next, WaiterStep, NotifierStep

\* concurrent_monitor implements the event count.
THEOREM Refinement == Spec => RefinesEventCount
<1>1. Init => EC!Init
    BY DEF Init, EC!Init, Owed, Posting
<1> QED
    BY <1>1, StepRefines, Invariant, PTL DEF Spec, RefinesEventCount, EC!Spec

=============================================================================
