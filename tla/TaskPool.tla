------------------------------- MODULE TaskPool -------------------------------
(***************************************************************************)
(* What the scheduler promises for the tasks a thread spawns: each is run  *)
(* by one thread, once, however it got there (from the spawning thread's   *)
(* own end of its deque, by stealing, or through a mailbox).               *)
(***************************************************************************)
EXTENDS Naturals

CONSTANT Tasks

VARIABLES
    pending,    \* spawned and not yet taken by a thread
    times       \* how often each task has been taken

poolVars == <<pending, times>>

PoolInit == pending = {} /\ times = [t \in Tasks |-> 0]

Spawn(S) ==
    /\ \A t \in S : t \notin pending /\ times[t] = 0
    /\ pending' = pending \cup S
    /\ UNCHANGED times

Take(t) ==
    /\ t \in pending
    /\ pending' = pending \ {t}
    /\ times' = [times EXCEPT ![t] = @ + 1]

PoolNext == (\E S \in SUBSET Tasks : Spawn(S)) \/ (\E t \in Tasks : Take(t))

PoolSpec == PoolInit /\ [][PoolNext]_poolVars

=============================================================================
