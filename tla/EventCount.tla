------------------------------ MODULE EventCount ------------------------------
(***************************************************************************)
(* What tbb::internal::concurrent_monitor promises to the code that waits  *)
(* on it: a wait in two phases.  A thread announces that it is about to    *)
(* wait, looks once more at what it waits for, and then either sleeps or   *)
(* cancels.  A notification reaches every announced thread it is meant     *)
(* for, however far that thread has got: one that sleeps returns, one that *)
(* does not is not allowed to fall asleep on the old announcement.         *)
(***************************************************************************)
CONSTANT Waiters

VARIABLES
    waiting,    \* announced and not yet chosen by a notification
    fresh,      \* no notification of anybody since the announcement
    asleep,     \* committed to sleep
    chosen,     \* chosen by a notification that has not been taken in yet
    aborted     \* chosen by abort_all

vars == <<waiting, fresh, asleep, chosen, aborted>>

Init ==
    /\ waiting = {} /\ fresh = {} /\ asleep = {} /\ chosen = {} /\ aborted = {}

\* A notification that came too late for the last wait is taken in first.
Pump(t) ==
    /\ t \in chosen \ asleep
    /\ chosen' = chosen \ {t}
    /\ UNCHANGED <<waiting, fresh, asleep, aborted>>

Announce(t) ==
    /\ t \notin waiting \cup asleep \cup chosen
    /\ waiting' = waiting \cup {t}
    /\ fresh' = fresh \cup {t}
    /\ UNCHANGED <<asleep, chosen, aborted>>

Sleep(t) ==
    /\ t \in fresh \ asleep
    /\ asleep' = asleep \cup {t}
    /\ UNCHANGED <<waiting, fresh, chosen, aborted>>

Return(t) ==
    /\ t \in asleep \cap chosen
    /\ asleep' = asleep \ {t}
    /\ chosen' = chosen \ {t}
    /\ UNCHANGED <<waiting, fresh, aborted>>

Cancel(t) ==
    /\ t \in waiting \ asleep
    /\ waiting' = waiting \ {t}
    /\ UNCHANGED <<fresh, asleep, chosen, aborted>>

\* The thread's descriptor is destroyed.
Forget(t) ==
    /\ t \notin waiting \cup asleep
    /\ chosen' = chosen \ {t}
    /\ aborted' = aborted \ {t}
    /\ fresh' = fresh \ {t}
    /\ UNCHANGED <<waiting, asleep>>

Notify(S) ==
    /\ waiting' = waiting \ S
    /\ chosen' = chosen \cup S
    /\ fresh' = {}
    /\ UNCHANGED <<asleep, aborted>>

Abort ==
    /\ chosen' = chosen \cup waiting
    /\ aborted' = aborted \cup waiting
    /\ waiting' = {}
    /\ fresh' = {}
    /\ UNCHANGED asleep

Step(t) ==
    Pump(t) \/ Announce(t) \/ Sleep(t) \/ Return(t) \/ Cancel(t) \/ Forget(t)

Next ==
    \/ \E t \in Waiters : Step(t)
    \/ \E S \in SUBSET waiting : Notify(S)
    \/ Abort

Spec == Init /\ [][Next]_vars

=============================================================================
