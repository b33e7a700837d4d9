----------------------------- MODULE QueuingMutex -----------------------------
(***************************************************************************)
(* tbb::queuing_mutex: the MCS queue lock.  Each waiting thread spins on a *)
(* field of its own scoped_lock; the scoped_locks of the waiting threads   *)
(* form a list whose links the arriving threads write and whose tail the   *)
(* mutex keeps.                                                            *)
(*                                                                         *)
(* A thread has one scoped_lock, which it uses again and again (it lives   *)
(* on the thread's stack), and is identified with it.  Each action is one  *)
(* access to a shared location; the fields a thread sets before the        *)
(* fetch_and_store publishes its node are set in the step before it.       *)
(***************************************************************************)
EXTENDS Integers, Sequences

CONSTANTS
    Threads,    \* the threads, each with its scoped_lock
    NULL

ASSUME NullAssumption == NULL \notin Threads

VARIABLES
    q_tail,     \* the mutex: the last competitor requesting the lock
    next,       \* field next of each scoped_lock
    going,      \* field going of each scoped_lock: FALSE while it must spin
    pc,         \* where each thread is in the lock's code
    pred,       \* acquire: the local variable pred
    order       \* ghost: the nodes in the queue, in the order of their
                \* fetch_and_store, until their owner hands the lock over

vars == <<q_tail, next, going, pc, pred, order>>

Locs == {"idle", "swap", "link", "spin", "held",
         "check", "cas", "await", "give", "try"}

TypeOK ==
    /\ q_tail \in Threads \cup {NULL}
    /\ next \in [Threads -> Threads \cup {NULL}]
    /\ going \in [Threads -> BOOLEAN]
    /\ pc \in [Threads -> Locs]
    /\ pred \in [Threads -> Threads \cup {NULL}]
    /\ order \in Seq(Threads)

Init ==
    /\ q_tail = NULL
    /\ next = [t \in Threads |-> NULL]
    /\ going = [t \in Threads |-> FALSE]
    /\ pc = [t \in Threads |-> "idle"]
    /\ pred = [t \in Threads |-> NULL]
    /\ order = << >>

Goto(t, loc) == pc' = [pc EXCEPT ![t] = loc]

-----------------------------------------------------------------------------
(* acquire *)

\* "Must set all fields before the fetch_and_store."
ResetNode(t) ==
    /\ next' = [next EXCEPT ![t] = NULL]
    /\ going' = [going EXCEPT ![t] = FALSE]

\* A node whose spin flag is not reset when it is used again.
Acquire_KeepGoing(t) ==
    /\ pc[t] = "idle"
    /\ next' = [next EXCEPT ![t] = NULL]
    /\ Goto(t, "swap")
    /\ UNCHANGED <<q_tail, going, pred, order>>

Acquire(t) ==
    /\ pc[t] = "idle"
    /\ ResetNode(t)
    /\ Goto(t, "swap")
    /\ UNCHANGED <<q_tail, pred, order>>

\* An acquire that waits for the tail to become free instead of queueing.
Swap_TestAndSet(t) ==
    /\ pc[t] = "swap"
    /\ q_tail = NULL
    /\ q_tail' = t
    /\ order' = Append(order, t)
    /\ Goto(t, "held")
    /\ UNCHANGED <<next, going, pred>>

Swap(t) ==
    /\ pc[t] = "swap"
    /\ q_tail' = t
    /\ pred' = [pred EXCEPT ![t] = q_tail]
    /\ order' = Append(order, t)
    /\ Goto(t, IF q_tail = NULL THEN "held" ELSE "link")
    /\ UNCHANGED <<next, going>>

Link(t) ==
    /\ pc[t] = "link"
    /\ next' = [next EXCEPT ![pred[t]] = t]
    /\ pred' = [pred EXCEPT ![t] = NULL]     \* its last use
    /\ Goto(t, "spin")
    /\ UNCHANGED <<q_tail, going, order>>

Spin(t) ==
    /\ pc[t] = "spin"
    /\ going[t]
    /\ Goto(t, "held")
    /\ UNCHANGED <<q_tail, next, going, pred, order>>

-----------------------------------------------------------------------------
(* try_acquire *)

TryAcquire(t) ==
    /\ pc[t] = "idle"
    /\ ResetNode(t)
    /\ Goto(t, "try")
    /\ UNCHANGED <<q_tail, pred, order>>

\* A try that stores itself as the tail whatever it found there.
TryCAS_Swap(t) ==
    /\ pc[t] = "try"
    /\ q_tail' = t
    /\ order' = Append(order, t)
    /\ Goto(t, IF q_tail = NULL THEN "held" ELSE "idle")
    /\ UNCHANGED <<next, going, pred>>

TryCAS(t) ==
    /\ pc[t] = "try"
    /\ \/ /\ q_tail = NULL
          /\ q_tail' = t
          /\ order' = Append(order, t)
          /\ Goto(t, "held")
       \/ /\ q_tail # NULL
          /\ Goto(t, "idle")
          /\ UNCHANGED <<q_tail, order>>
    /\ UNCHANGED <<next, going, pred>>

-----------------------------------------------------------------------------
(* release *)

Release(t) ==
    /\ pc[t] = "held"
    /\ Goto(t, "check")
    /\ UNCHANGED <<q_tail, next, going, pred, order>>

CheckNext(t) ==
    /\ pc[t] = "check"
    /\ Goto(t, IF next[t] = NULL THEN "cas" ELSE "give")
    /\ UNCHANGED <<q_tail, next, going, pred, order>>

\* A release that takes "no successor yet" for "nobody in the queue".
ReleaseCAS_Store(t) ==
    /\ pc[t] = "cas"
    /\ q_tail' = NULL
    /\ order' = Tail(order)
    /\ Goto(t, "idle")
    /\ UNCHANGED <<next, going, pred>>

ReleaseCAS(t) ==
    /\ pc[t] = "cas"
    /\ \/ /\ q_tail = t
          /\ q_tail' = NULL
          /\ order' = Tail(order)
          /\ Goto(t, "idle")
       \/ /\ q_tail # t
          /\ Goto(t, "await")
          /\ UNCHANGED <<q_tail, order>>
    /\ UNCHANGED <<next, going, pred>>

AwaitNext(t) ==
    /\ pc[t] = "await"
    /\ next[t] # NULL
    /\ Goto(t, "give")
    /\ UNCHANGED <<q_tail, next, going, pred, order>>

Give(t) ==
    /\ pc[t] = "give"
    /\ going' = [going EXCEPT ![next[t]] = TRUE]
    /\ order' = Tail(order)
    /\ Goto(t, "idle")
    /\ UNCHANGED <<q_tail, next, pred>>

-----------------------------------------------------------------------------
\* What the lock's own code does next for a thread that is inside it.
Step(t) ==
    \/ Swap(t) \/ Link(t) \/ Spin(t) \/ TryCAS(t)
    \/ CheckNext(t) \/ ReleaseCAS(t) \/ AwaitNext(t) \/ Give(t)

Next == \E t \in Threads : Step(t) \/ Acquire(t) \/ TryAcquire(t) \/ Release(t)

Spec == Init /\ [][Next]_vars

\* Threads inside the lock are scheduled, and critical sections end.  Nobody
\* is obliged to ask for the lock.
Fairness == \A t \in Threads : WF_vars(Step(t)) /\ WF_vars(Release(t))

FairSpec == Spec /\ Fairness

-----------------------------------------------------------------------------
(* Safety. *)

ReleaseLocs == {"check", "cas", "await", "give"}
OwnerLocs == {"held"} \cup ReleaseLocs
QueueLocs == {"link", "spin"} \cup OwnerLocs

\* One thread at a time is between acquiring the lock and handing it over.
MutualExclusion ==
    \A t, u \in Threads :
        (pc[t] \in OwnerLocs /\ pc[u] \in OwnerLocs) => t = u

\* The nodes in the queue are those of the threads that have joined it and not
\* left, each once.
OrderIsQueue ==
    /\ \A t \in Threads :
          pc[t] \in QueueLocs <=> \E i \in 1 .. Len(order) : order[i] = t
    /\ \A i, j \in 1 .. Len(order) : order[i] = order[j] => i = j

\* The tail is the last node; each node is linked to the next one, or that one
\* is just about to link itself.
Linked ==
    /\ q_tail = IF order = << >> THEN NULL ELSE order[Len(order)]
    /\ order # << >> => next[order[Len(order)]] = NULL
    /\ \A i \in 1 .. Len(order) - 1 :
          IF pc[order[i + 1]] = "link"
          THEN pred[order[i + 1]] = order[i] /\ next[order[i]] = NULL
          ELSE next[order[i]] = order[i + 1]

\* No thread writes to a scoped_lock that has left the queue, which its owner
\* may have destroyed or put into another queue: the predecessor of a linking
\* thread is still there and has no other successor (the assertion of acquire),
\* and the successor a release wakes is one that spins.
NodesAlive ==
    \A t \in Threads :
        /\ pc[t] = "link" => /\ pc[pred[t]] \in QueueLocs
                             /\ next[pred[t]] = NULL
        /\ pc[t] = "give" => /\ next[t] # NULL
                             /\ pc[next[t]] = "spin"
                             /\ ~going[next[t]]

-----------------------------------------------------------------------------
(* The inductive invariant. *)

\* The first in the queue owns the lock or has been told so; the others have
\* not been told.
HeadOwns ==
    \A i \in 1 .. Len(order) :
        IF i = 1
        THEN pc[order[i]] \in OwnerLocs \/ (pc[order[i]] = "spin" /\ going[order[i]])
        ELSE pc[order[i]] \in {"link", "spin"} /\ ~going[order[i]]

\* A node about to be published is reset.
Fresh ==
    \A t \in Threads :
        pc[t] \in {"swap", "try"} => next[t] = NULL /\ ~going[t]

\* What a release knows when it waits for a successor, and when it has one.
SuccessorKnown ==
    \A t \in Threads :
        /\ pc[t] = "await" => Len(order) > 1
        /\ pc[t] = "give" => next[t] # NULL

IInv == TypeOK /\ OrderIsQueue /\ Linked /\ HeadOwns /\ Fresh /\ SuccessorKnown

-----------------------------------------------------------------------------
(* The abstract mutex: a thread has left when it starts its release. *)

LineOf(nodes, at) ==
    IF nodes # << >> /\ at[Head(nodes)] \in ReleaseLocs THEN Tail(nodes) ELSE nodes
InsideOf(queue, at) == queue # << >> /\ at[Head(queue)] = "held"

line == LineOf(order, pc)
inside == InsideOf(line, pc)

Fair == INSTANCE FairMutex

\* The mutex is fair (is_fair_mutex): threads enter in the order of their
\* fetch_and_store, whatever the order in which they link themselves and spin.
RefinesFairMutex == Fair!FairLockSpec

-----------------------------------------------------------------------------
(* Liveness. *)

\* No starvation: a thread that has asked for the lock gets it.
NoStarvation == \A t \in Threads : pc[t] = "swap" ~> pc[t] = "held"

=============================================================================
