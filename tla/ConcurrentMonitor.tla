-------------------------- MODULE ConcurrentMonitor --------------------------
(***************************************************************************)
(* tbb::internal::concurrent_monitor, and the loop of its member wait() in *)
(* which every client uses it: prepare, test, commit or cancel.            *)
(*                                                                         *)
(* Each action is one access to a location that other threads use without  *)
(* the monitor's mutex, or a whole critical section: what others read      *)
(* without the mutex, the epoch and in_waitset, only ever sends them to a  *)
(* place where they wait for it.  The order of the list is left out: no    *)
(* client relies on it.  The epoch is seen only through the comparison of  *)
(* commit_wait, so the model keeps the set of threads for which the        *)
(* comparison would succeed (the wrap-around after 2^32 notifications      *)
(* within one wait is left out).                                           *)
(***************************************************************************)
CONSTANTS
    Waiters,
    Selectors,      \* the threads that call notify or notify_one
    Broadcasters    \* the threads that call notify_all or abort_all

Notifiers == Selectors \cup Broadcasters

VARIABLES
    waitset,    \* waitset_ec
    fresh,      \* {t : thr.epoch = epoch}
    in_waitset, spurious, aborted,  \* {t : the flag of that name is set}
    sema,       \* {t : the semaphore of t has been posted}
    ready,      \* the threads for which what they wait for holds
    pc, back,   \* of the waiters; where cancel_wait returns
    npc, call, target,  \* of the notifiers: the call and whom it is meant for
    temp        \* whom a notifier has taken from the list and not yet posted

monitor == <<waitset, fresh, in_waitset, spurious, aborted, sema>>
waiters == <<pc, back>>
notifiers == <<npc, call, target, temp>>
vars == <<monitor, ready, waiters, notifiers>>

WaiterLocs == {"out", "prepare", "test", "commit", "asleep", "retest",
               "cancel", "c_lock", "leave"}
Calls == {"some", "all", "one", "abort"}
NotifierLocs == {"idle", "check", "lock", "wake"}

TypeOK ==
    /\ waitset \subseteq Waiters /\ fresh \subseteq Waiters
    /\ in_waitset \subseteq Waiters /\ spurious \subseteq Waiters
    /\ aborted \subseteq Waiters /\ sema \subseteq Waiters
    /\ ready \subseteq Waiters
    /\ pc \in [Waiters -> WaiterLocs]
    /\ back \in [Waiters -> {"prepare", "leave"}]
    /\ npc \in [Notifiers -> NotifierLocs]
    /\ call \in [Notifiers -> Calls]
    /\ target \in [Notifiers -> SUBSET Waiters]
    /\ temp \in [Notifiers -> SUBSET Waiters]

Init ==
    /\ waitset = {} /\ fresh = {} /\ in_waitset = {} /\ spurious = {}
    /\ aborted = {} /\ sema = {}
    /\ ready = {}
    /\ pc = [t \in Waiters |-> "out"]
    /\ back = [t \in Waiters |-> "leave"]
    /\ npc = [n \in Notifiers |-> "idle"]
    /\ call = [n \in Notifiers |-> "all"]
    /\ target = [n \in Notifiers |-> {}]
    /\ temp = [n \in Notifiers |-> {}]

-----------------------------------------------------------------------------
(* The waiting thread. *)

Goto(t, loc) == pc' = [pc EXCEPT ![t] = loc] /\ UNCHANGED back

ReturnFromCancel(t) ==
    /\ pc' = [pc EXCEPT ![t] = back[t]]
    /\ back' = [back EXCEPT ![t] = "leave"]

CallCancel(t, ret) ==
    /\ pc' = [pc EXCEPT ![t] = "cancel"]
    /\ back' = [back EXCEPT ![t] = ret]

\* A thread_context is constructed and prepare_wait called.
Wait(t) ==
    /\ pc[t] = "out"
    /\ Goto(t, "prepare")
    /\ UNCHANGED <<monitor, ready, notifiers>>

Pump(t) ==
    /\ pc[t] = "prepare" /\ t \in spurious
    /\ t \in sema
    /\ spurious' = spurious \ {t}
    /\ sema' = sema \ {t}
    /\ UNCHANGED <<waitset, fresh, in_waitset, aborted, ready, waiters, notifiers>>

\* The thread tests first and announces itself afterwards.
Prepare_AfterTest(t) ==
    /\ pc[t] = "prepare" /\ t \notin spurious
    /\ in_waitset' = in_waitset \cup {t}
    /\ waitset' = waitset \cup {t}
    /\ fresh' = fresh \cup {t}
    /\ Goto(t, "commit")
    /\ UNCHANGED <<spurious, aborted, sema, ready, notifiers>>

Prepare(t) ==
    /\ pc[t] = "prepare" /\ t \notin spurious
    /\ in_waitset' = in_waitset \cup {t}
    /\ waitset' = waitset \cup {t}
    /\ fresh' = fresh \cup {t}
    /\ Goto(t, "test")
    /\ UNCHANGED <<spurious, aborted, sema, ready, notifiers>>

\* until(): the condition of the waiting thread, which takes what it finds.
Test(t) ==
    /\ pc[t] \in {"test", "retest"}
    /\ t \in ready
    /\ ready' = ready \ {t}
    /\ IF pc[t] = "test" THEN CallCancel(t, "leave") ELSE Goto(t, "leave")
    /\ UNCHANGED <<monitor, notifiers>>

TestFails(t) ==
    /\ pc[t] \in {"test", "retest"}
    /\ t \notin ready
    /\ Goto(t, IF pc[t] = "test" THEN "commit" ELSE "prepare")
    /\ UNCHANGED <<monitor, ready, notifiers>>

Commit(t) ==
    /\ pc[t] = "commit"
    /\ IF t \in fresh THEN Goto(t, "asleep") ELSE CallCancel(t, "prepare")
    /\ UNCHANGED <<monitor, ready, notifiers>>

Wake(t) ==
    /\ pc[t] = "asleep"
    /\ t \in sema
    /\ sema' = sema \ {t}
    /\ Goto(t, IF t \in aborted THEN "leave" ELSE "retest")
    /\ UNCHANGED <<waitset, fresh, in_waitset, spurious, aborted, ready, notifiers>>

\* cancel_wait that does not note that a post may be on its way.
Cancel_NoNote(t) ==
    /\ pc[t] = "cancel"
    /\ IF t \in in_waitset THEN Goto(t, "c_lock") ELSE ReturnFromCancel(t)
    /\ UNCHANGED <<monitor, ready, notifiers>>

Cancel(t) ==
    /\ pc[t] = "cancel"
    /\ spurious' = spurious \cup {t}
    /\ IF t \in in_waitset THEN Goto(t, "c_lock") ELSE ReturnFromCancel(t)
    /\ UNCHANGED <<waitset, fresh, in_waitset, aborted, sema, ready, notifiers>>

\* cancel_wait that trusts what it read before it had the mutex.
CancelLocked_NoRecheck(t) ==
    /\ pc[t] = "c_lock"
    /\ in_waitset' = in_waitset \ {t}
    /\ waitset' = waitset \ {t}
    /\ spurious' = spurious \ {t}
    /\ ReturnFromCancel(t)
    /\ UNCHANGED <<fresh, aborted, sema, ready, notifiers>>

CancelLocked(t) ==
    /\ pc[t] = "c_lock"
    /\ \/ /\ t \in in_waitset
          /\ in_waitset' = in_waitset \ {t}
          /\ waitset' = waitset \ {t}
          /\ spurious' = spurious \ {t}
       \/ /\ t \notin in_waitset
          /\ UNCHANGED <<in_waitset, waitset, spurious>>
    /\ ReturnFromCancel(t)
    /\ UNCHANGED <<fresh, aborted, sema, ready, notifiers>>

\* The thread_context is destroyed while a post is on its way.
Leave_NoPump(t) ==
    /\ pc[t] = "leave"
    /\ sema' = sema \ {t}
    /\ spurious' = spurious \ {t}
    /\ aborted' = aborted \ {t}
    /\ fresh' = fresh \ {t}
    /\ Goto(t, "out")
    /\ UNCHANGED <<waitset, in_waitset, ready, notifiers>>

\* The destructor of the thread_context.
Leave(t) ==
    /\ pc[t] = "leave"
    /\ t \in spurious => t \in sema
    /\ sema' = sema \ {t}
    /\ spurious' = spurious \ {t}
    /\ aborted' = aborted \ {t}
    /\ fresh' = fresh \ {t}
    /\ Goto(t, "out")
    /\ UNCHANGED <<waitset, in_waitset, ready, notifiers>>

-----------------------------------------------------------------------------
(* The notifying thread: it makes something true and calls the monitor. *)

Call(n, kind, E) ==
    /\ npc[n] = "idle"
    /\ npc' = [npc EXCEPT ![n] = "check"]
    /\ call' = [call EXCEPT ![n] = kind]
    /\ target' = [target EXCEPT ![n] = E]
    /\ UNCHANGED <<monitor, waiters, temp>>

\* notify(predicate): the predicate selects one context.
NotifySome(n, t) == Call(n, "some", {t}) /\ ready' = ready \cup {t}

NotifyAll(n) == Call(n, "all", Waiters) /\ ready' = Waiters

\* notify_one and abort_all say nothing about what the threads wait for.
NotifyOne(n) == Call(n, "one", Waiters) /\ UNCHANGED ready

AbortAll(n) == Call(n, "abort", Waiters) /\ UNCHANGED ready

Post(n) ==
    \/ n \in Selectors /\ (NotifyOne(n) \/ \E t \in Waiters : NotifySome(n, t))
    \/ n \in Broadcasters /\ (NotifyAll(n) \/ AbortAll(n))

Return(n) ==
    /\ npc' = [npc EXCEPT ![n] = "idle"]
    /\ call' = [call EXCEPT ![n] = "all"]
    /\ target' = [target EXCEPT ![n] = {}]

\* waitset_ec.empty(), without the mutex.
CheckEmpty(n) ==
    /\ npc[n] = "check"
    /\ \/ waitset = {} /\ Return(n)
       \/ waitset # {} /\ npc' = [npc EXCEPT ![n] = "lock"] /\ UNCHANGED <<call, target>>
    /\ UNCHANGED <<monitor, ready, waiters, temp>>

\* A notification that takes one thread, whatever the call.
Choices_One(n) ==
    IF waitset \cap target[n] = {} THEN {{}} ELSE {{t} : t \in waitset \cap target[n]}

\* Whom the call takes from the list.
Choices(n) ==
    IF call[n] = "one" /\ waitset # {} THEN {{t} : t \in waitset}
    ELSE {waitset \cap target[n]}

\* A notification that does not advance the epoch.
Take_NoEpoch(n, S) ==
    /\ npc[n] = "lock"
    /\ waitset' = waitset \ S
    /\ in_waitset' = in_waitset \ S
    /\ temp' = [temp EXCEPT ![n] = S]
    /\ \/ S = {} /\ Return(n)
       \/ S # {} /\ npc' = [npc EXCEPT ![n] = "wake"] /\ UNCHANGED <<call, target>>
    /\ UNCHANGED <<fresh, spurious, aborted, sema, ready, waiters>>

\* The critical section: it advances the epoch, whether or not it takes anybody.
Take(n, S) ==
    /\ npc[n] = "lock"
    /\ fresh' = {}
    /\ waitset' = waitset \ S
    /\ in_waitset' = in_waitset \ S
    /\ temp' = [temp EXCEPT ![n] = S]
    /\ \/ S = {} /\ Return(n)
       \/ S # {} /\ npc' = [npc EXCEPT ![n] = "wake"] /\ UNCHANGED <<call, target>>
    /\ UNCHANGED <<spurious, aborted, sema, ready, waiters>>

Pick(n) == \E S \in Choices(n) : Take(n, S)

Signal(n, t) ==
    /\ npc[n] = "wake" /\ t \in temp[n]
    /\ sema' = sema \cup {t}
    /\ aborted' = IF call[n] = "abort" THEN aborted \cup {t} ELSE aborted
    /\ temp' = [temp EXCEPT ![n] = @ \ {t}]
    /\ \/ temp[n] = {t} /\ Return(n)
       \/ temp[n] # {t} /\ UNCHANGED <<npc, call, target>>
    /\ UNCHANGED <<waitset, fresh, in_waitset, spurious, ready, waiters>>

SignalOne(n) == \E t \in temp[n] : Signal(n, t)

-----------------------------------------------------------------------------
WaiterStep(t) ==
    \/ Pump(t) \/ Prepare(t) \/ Test(t) \/ TestFails(t) \/ Commit(t)
    \/ Wake(t) \/ Cancel(t) \/ CancelLocked(t) \/ Leave(t)

NotifierStep(n) == CheckEmpty(n) \/ Pick(n) \/ SignalOne(n)

Next ==
    \/ \E t \in Waiters : Wait(t) \/ WaiterStep(t)
    \/ \E n \in Notifiers : Post(n) \/ NotifierStep(n)

Spec == Init /\ [][Next]_vars

\* Threads that are inside the monitor are scheduled, and its mutex is granted
\* in the end to a thread that spins for it; nobody has to wait or to post.
Fairness ==
    /\ \A t \in Waiters : WF_vars(WaiterStep(t))
    /\ \A n \in Notifiers : WF_vars(NotifierStep(n))

FairSpec == Spec /\ Fairness

-----------------------------------------------------------------------------
(* Safety. *)

Announced == {"test", "commit", "asleep", "cancel", "c_lock"}

\* A post is on its way to t: made, or about to be made by a notifier.
Posting(t) == \E n \in Notifiers : t \in temp[n]
Owed == {t \in Waiters : t \in sema \/ Posting(t)}

\* "multiple V()'s in a row?": a thread is owed one post at most, by one
\* notifier at most, and only when it is going to consume it.
OneSignal ==
    /\ \A n \in Notifiers, t \in Waiters : t \in temp[n] =>
          t \notin sema /\ \A m \in Notifiers \ {n} : t \notin temp[m]
    /\ \A t \in Owed :
          t \in spurious \/ (pc[t] \in Announced /\ t \notin in_waitset)

\* A notifier only touches descriptors that still exist, and nothing is left
\* for a descriptor that does not.
ContextAlive ==
    \A t \in Waiters : pc[t] = "out" =>
        t \notin waitset \cup in_waitset \cup spurious \cup Owed

Committed(t) == pc[t] = "asleep" \/ (pc[t] = "commit" /\ t \in fresh)

\* No lost wakeup: a thread that sleeps, or is bound to, although what it
\* waits for holds, will be reached by a notifier that is still on its way.
NoLostWakeup ==
    \A t \in waitset \cap ready : Committed(t) =>
        \E n \in Notifiers :
            /\ npc[n] \in {"check", "lock"}
            /\ call[n] \in {"some", "all"} /\ t \in target[n]

\* The list, the flags and the posts in every part of the loop.
Bookkeeping ==
    /\ waitset = in_waitset
    /\ \A t \in Waiters :
          /\ t \in waitset => t \notin Owed
          /\ pc[t] \in Announced => (t \in waitset \/ t \in Owed)
          /\ pc[t] \notin Announced => t \notin waitset
          /\ pc[t] \in {"test", "commit", "asleep", "retest", "cancel"} => t \notin spurious
          /\ pc[t] = "c_lock" => t \in spurious
          /\ pc[t] \in {"prepare", "leave"} => (t \in Owed <=> t \in spurious)
          /\ pc[t] = "retest" => t \notin Owed
    /\ \A n \in Notifiers :
          /\ temp[n] # {} <=> npc[n] = "wake"
          /\ call[n] = "abort" => target[n] = Waiters

\* The inductive invariant.
IInv == TypeOK /\ Bookkeeping /\ OneSignal /\ ContextAlive /\ NoLostWakeup

EC == INSTANCE EventCount WITH
        waiting <- waitset,
        asleep <- {t \in Waiters : pc[t] = "asleep"},
        chosen <- Owed,
        aborted <- {t \in Waiters : t \in aborted \/ \E n \in Notifiers :
                                        call[n] = "abort" /\ t \in temp[n]}

\* The monitor keeps its promise.
RefinesEventCount == EC!Spec

-----------------------------------------------------------------------------
(* Liveness. *)

\* A thread whose condition has been made true returns: again and again a
\* thread is outside, or it is inside with nothing to find and not on its way out.
ReadyReturns ==
    \A t \in Waiters :
        []<>(\/ pc[t] = "out"
             \/ t \notin ready /\ pc[t] \notin {"cancel", "c_lock", "leave"})

=============================================================================
