---------------------------- MODULE BoundedQueue ----------------------------
(***************************************************************************)
(* tbb::concurrent_bounded_queue (class concurrent_queue_base_v3): pushes  *)
(* and pops take tickets from two counters, wait for each other in two     *)
(* concurrent_monitors, and meet in the micro queue of their ticket.  The  *)
(* monitors are used through EventCount, which ConcurrentMonitor           *)
(* implements.                                                             *)
(*                                                                         *)
(* One action is one access to a shared counter, one call of a monitor, or *)
(* what a thread does while it is alone in its micro queue.  An item is    *)
(* its ticket, so that an item in a wrong place shows.  The model leaves   *)
(* out the wrap-around of tickets and a page that cannot be allocated; the *)
(* capacity is set before the queue is shared.                             *)
(***************************************************************************)
EXTENDS Integers, FiniteSets, SequencesExt

CONSTANTS
    Producers, Consumers, Aborters,
    Tryers,         \* the threads that use try_push and try_pop
    Throwing,       \* the producers whose items may throw when copied
    Populations,    \* the sets of threads that may use the queue together
    Capacity,       \* my_capacity
    NQueue,         \* n_queue
    PerPage,        \* items_per_page
    MaxTickets,     \* bound: how many pushes are started
    Absent

Threads == Producers \cup Consumers \cup Aborters

\* index() multiplies by phi = 3 so that the pushes are spread over the micro
\* queues, of which there are 8; it is one-to-one unless 3 divides their number.
ASSUME QueueAssumption ==
    /\ Capacity \in Nat /\ NQueue \in Nat \ {0} /\ PerPage \in Nat \ {0}
    /\ NQueue % 3 # 0
    /\ MaxTickets \in Nat
    /\ Absent \notin Nat
    /\ IsFiniteSet(Consumers)
    /\ Producers \cap Consumers = {} /\ Aborters \cap (Producers \cup Consumers) = {}
    /\ Populations \subseteq SUBSET Threads

\* abort() is called only where no two threads pop.
LoneAborts ==
    \A users \in Populations :
        users \cap Aborters # {} => \A c, d \in users \cap Consumers : c = d

VARIABLES
    head_counter, tail_counter, n_invalid_entries,  \* concurrent_queue_rep
    mhead, mtail, pages,    \* of each micro_queue: its counters, its list of pages
    s_waiting, s_fresh, s_asleep, s_chosen, s_aborted,  \* slots_avail
    i_waiting, i_fresh, i_asleep, i_chosen, i_aborted,  \* items_avail
    pc, k,                  \* where a thread is; its ticket
    void,                   \* the pushes whose item is NULL: abort_push
    got                     \* what a pop has found in the slot of its ticket

counters == <<head_counter, tail_counter>>
micro == <<mhead, mtail, pages, n_invalid_entries>>
slots_avail == <<s_waiting, s_fresh, s_asleep, s_chosen, s_aborted>>
items_avail == <<i_waiting, i_fresh, i_asleep, i_chosen, i_aborted>>
monitors == <<slots_avail, items_avail>>
vars == <<counters, micro, monitors, pc, k, void, got>>

Slots == INSTANCE EventCount WITH Waiters <- Producers,
            waiting <- s_waiting, fresh <- s_fresh, asleep <- s_asleep,
            chosen <- s_chosen, aborted <- s_aborted
Items == INSTANCE EventCount WITH Waiters <- Consumers,
            waiting <- i_waiting, fresh <- i_fresh, asleep <- i_asleep,
            chosen <- i_chosen, aborted <- i_aborted

Tickets == 0..(MaxTickets - 1)
Page == [0..(PerPage - 1) -> Tickets \cup {Absent}]
EmptyPage == [i \in 0..(PerPage - 1) |-> Absent]

Queue(t) == (t * 3) % NQueue            \* index()
Turn(t) == t - (t % NQueue)               \* the ticket as its micro queue counts
Slot(t) == (t \div NQueue) % PerPage
PageNo(turn) == turn \div (NQueue * PerPage)

Locs ==
    {"idle", "away", "full", "prepare", "test", "commit", "asleep", "cancel", "leave",
     "try", "cas", "turn", "store", "publish", "skip", "finish", "notify",
     "again", "giveback", "slots", "done"}

TypeOK ==
    /\ tail_counter \in 0..MaxTickets
    /\ head_counter \in 0..(MaxTickets + Cardinality(Consumers))
    /\ n_invalid_entries \in 0..MaxTickets
    /\ mhead \in [0..(NQueue - 1) -> Nat] /\ mtail \in [0..(NQueue - 1) -> Nat]
    /\ pages \in [0..(NQueue - 1) -> Seq(Page)]
    /\ s_waiting \cup s_fresh \cup s_asleep \cup s_chosen \cup s_aborted \subseteq Producers
    /\ i_waiting \cup i_fresh \cup i_asleep \cup i_chosen \cup i_aborted \subseteq Consumers
    /\ pc \in [Threads -> Locs]
    /\ k \in [Producers \cup Consumers -> Nat]
    /\ void \subseteq Producers
    /\ got \in [Consumers -> Tickets \cup {Absent}]

\* An empty queue, and threads that have no call in progress.
Init ==
    /\ head_counter = 0 /\ tail_counter = 0 /\ n_invalid_entries = 0
    /\ mhead = [q \in 0..(NQueue - 1) |-> 0]
    /\ mtail = [q \in 0..(NQueue - 1) |-> 0]
    /\ pages = [q \in 0..(NQueue - 1) |-> <<>>]
    /\ Slots!Init /\ Items!Init
    /\ \E users \in Populations :
          pc = [t \in Threads |-> IF t \in users THEN "idle" ELSE "away"]
    /\ k = [t \in Producers \cup Consumers |-> 0]
    /\ void = {}
    /\ got = [c \in Consumers |-> Absent]

Goto(t, loc) == pc' = [pc EXCEPT ![t] = loc]

\* The call of t is over: what it kept in local variables is gone.
Finish(t) == Goto(t, "idle") /\ k' = [k EXCEPT ![t] = 0]

-----------------------------------------------------------------------------
(* internal_push *)

Push(p) ==
    /\ pc[p] = "idle" /\ p \notin Tryers
    /\ tail_counter < MaxTickets
    /\ k' = [k EXCEPT ![p] = tail_counter]
    /\ tail_counter' = tail_counter + 1
    /\ Goto(p, "full")
    /\ UNCHANGED <<head_counter, micro, monitors, void, got>>

\* One more item than the capacity.
IsFull_OffByOne(t) == t - head_counter > Capacity

IsFull(t) == t - head_counter >= Capacity

PushFull(p) ==
    /\ pc[p] = "full"
    /\ Goto(p, IF IsFull(k[p]) THEN "prepare" ELSE "turn")
    /\ UNCHANGED <<counters, micro, monitors, k, void, got>>

\* slots_avail.prepare_wait(thr_ctx, k-e)
PushPrepare(p) ==
    /\ pc[p] = "prepare"
    /\ \/ Slots!Pump(p) /\ UNCHANGED pc
       \/ Slots!Announce(p) /\ Goto(p, "test")
    /\ UNCHANGED <<counters, micro, items_avail, k, void, got>>

PushTest(p) ==
    /\ pc[p] = "test"
    /\ Goto(p, IF IsFull(k[p]) THEN "commit" ELSE "cancel")
    /\ UNCHANGED <<counters, micro, monitors, k, void, got>>

\* slots_avail.commit_wait: the thread sleeps, or it cancels and prepares again.
PushCommit(p) ==
    /\ pc[p] = "commit"
    /\ \/ Slots!Sleep(p) /\ Goto(p, "asleep")
       \/ p \notin s_fresh /\ Slots!Cancel(p) /\ Goto(p, "prepare")
       \/ p \notin s_fresh \cup s_waiting /\ Goto(p, "prepare") /\ UNCHANGED slots_avail
    /\ UNCHANGED <<counters, micro, items_avail, k, void, got>>

\* An aborted push goes on with an invalid entry in place of its item.
PushWake(p) ==
    /\ pc[p] = "asleep"
    /\ Slots!Return(p)
    /\ void' = IF p \in s_aborted THEN void \cup {p} ELSE void
    /\ Goto(p, "leave")
    /\ UNCHANGED <<counters, micro, items_avail, k, got>>

PushCancel(p) ==
    /\ pc[p] = "cancel"
    /\ \/ Slots!Cancel(p)
       \/ p \notin s_waiting /\ UNCHANGED slots_avail
    /\ Goto(p, "leave")
    /\ UNCHANGED <<counters, micro, items_avail, k, void, got>>

\* The descriptor of the wait is destroyed.
PushLeave(p) ==
    /\ pc[p] = "leave"
    /\ Slots!Forget(p)
    /\ Goto(p, "turn")
    /\ UNCHANGED <<counters, micro, items_avail, k, void, got>>

(* internal_push_if_not_full *)

TryPush(p) ==
    /\ pc[p] = "idle" /\ p \in Tryers
    /\ tail_counter < MaxTickets
    /\ k' = [k EXCEPT ![p] = tail_counter]
    /\ Goto(p, "try")
    /\ UNCHANGED <<counters, micro, monitors, void, got>>

TryPushFull(p) ==
    /\ pc[p] = "try"
    /\ \/ IsFull(k[p]) /\ Finish(p)
       \/ ~ IsFull(k[p]) /\ Goto(p, "cas") /\ UNCHANGED k
    /\ UNCHANGED <<counters, micro, monitors, void, got>>

\* The compare_and_swap on tail_counter; the bound ends the retries.
TryPushClaim(p) ==
    /\ pc[p] = "cas"
    /\ \/ /\ k[p] = tail_counter
          /\ tail_counter' = tail_counter + 1
          /\ Goto(p, "turn") /\ UNCHANGED <<head_counter, k>>
       \/ /\ k[p] # tail_counter /\ tail_counter < MaxTickets
          /\ k' = [k EXCEPT ![p] = tail_counter]
          /\ Goto(p, "try") /\ UNCHANGED counters
       \/ k[p] # tail_counter /\ tail_counter = MaxTickets /\ Finish(p) /\ UNCHANGED counters
    /\ UNCHANGED <<micro, monitors, void, got>>

(* micro_queue::push, and abort_push for the threads in void *)

\* The turn of the ticket has come; the first of a page brings the page along.
PushTurn(p) ==
    LET q == Queue(k[p]) IN
    /\ pc[p] = "turn" /\ mtail[q] = Turn(k[p])
    /\ pages' = IF Slot(k[p]) = 0 THEN [pages EXCEPT ![q] = Append(@, EmptyPage)] ELSE pages
    /\ Goto(p, "store")
    /\ UNCHANGED <<counters, mhead, mtail, n_invalid_entries, monitors, k, void, got>>

PushStore(p) ==
    LET q == Queue(k[p]) IN
    /\ pc[p] = "store" /\ p \notin void
    /\ pages' = [pages EXCEPT ![q][Len(pages[q])][Slot(k[p])] = k[p]]
    /\ Goto(p, "publish")
    /\ UNCHANGED <<counters, mhead, mtail, n_invalid_entries, monitors, k, void, got>>

\* An invalid entry that is not counted.
PushSpoilt_NotCounted(p) ==
    /\ pc[p] = "store" /\ p \in void \cup Throwing
    /\ Goto(p, "skip")
    /\ UNCHANGED <<counters, micro, monitors, k, void, got>>

\* There is no item, or its copy throws.
PushSpoilt(p) ==
    /\ pc[p] = "store" /\ p \in void \cup Throwing
    /\ n_invalid_entries' = n_invalid_entries + 1
    /\ Goto(p, "skip")
    /\ UNCHANGED <<counters, mhead, mtail, pages, monitors, k, void, got>>

\* The ticket is passed on; an exception leaves here, without a notification.
PushPublish(p) ==
    /\ pc[p] \in {"publish", "skip"}
    /\ mtail' = [mtail EXCEPT ![Queue(k[p])] = @ + NQueue]
    /\ \/ pc[p] = "publish" /\ Goto(p, "notify") /\ UNCHANGED <<k, void>>
       \/ pc[p] = "skip" /\ Finish(p) /\ void' = void \ {p}
    /\ UNCHANGED <<counters, mhead, pages, n_invalid_entries, monitors, got>>

\* The pops of smaller tickets are woken, not the pop of this one.
PushNotify_Less(p) ==
    /\ pc[p] = "notify"
    /\ \/ i_waiting = {} /\ UNCHANGED items_avail
       \/ i_waiting # {} /\ Items!Notify({c \in i_waiting : k[c] < k[p]})
    /\ Finish(p)
    /\ UNCHANGED <<counters, micro, slots_avail, void, got>>

\* items_avail.notify(predicate_leq(k))
PushNotify(p) ==
    /\ pc[p] = "notify"
    /\ \/ i_waiting = {} /\ UNCHANGED items_avail
       \/ i_waiting # {} /\ Items!Notify({c \in i_waiting : k[c] <= k[p]})
    /\ Finish(p)
    /\ UNCHANGED <<counters, micro, slots_avail, void, got>>

-----------------------------------------------------------------------------
(* internal_pop *)

PopClaim(c) ==
    /\ pc[c] \in {"idle", "again"} /\ c \notin Tryers
    /\ k' = [k EXCEPT ![c] = head_counter]
    /\ head_counter' = head_counter + 1
    /\ Goto(c, "full")
    /\ UNCHANGED <<tail_counter, micro, monitors, void, got>>

\* A pop that goes on when its push has not begun.
IsEmpty_OffByOne(t) == tail_counter - t < 0

IsEmpty(t) == tail_counter - t <= 0

PopEmpty(c) ==
    /\ pc[c] = "full"
    /\ Goto(c, IF IsEmpty(k[c]) THEN "prepare" ELSE "turn")
    /\ UNCHANGED <<counters, micro, monitors, k, void, got>>

PopPrepare(c) ==
    /\ pc[c] = "prepare"
    /\ \/ Items!Pump(c) /\ UNCHANGED pc
       \/ Items!Announce(c) /\ Goto(c, "test")
    /\ UNCHANGED <<counters, micro, slots_avail, k, void, got>>

PopTest(c) ==
    /\ pc[c] = "test"
    /\ Goto(c, IF IsEmpty(k[c]) THEN "commit" ELSE "cancel")
    /\ UNCHANGED <<counters, micro, monitors, k, void, got>>

PopCommit(c) ==
    /\ pc[c] = "commit"
    /\ \/ Items!Sleep(c) /\ Goto(c, "asleep")
       \/ c \notin i_fresh /\ Items!Cancel(c) /\ Goto(c, "prepare")
       \/ c \notin i_fresh \cup i_waiting /\ Goto(c, "prepare") /\ UNCHANGED items_avail
    /\ UNCHANGED <<counters, micro, slots_avail, k, void, got>>

PopWake(c) ==
    /\ pc[c] = "asleep"
    /\ Items!Return(c)
    /\ Goto(c, IF c \in i_aborted THEN "giveback" ELSE "leave")
    /\ UNCHANGED <<counters, micro, slots_avail, k, void, got>>

PopCancel(c) ==
    /\ pc[c] = "cancel"
    /\ \/ Items!Cancel(c)
       \/ c \notin i_waiting /\ UNCHANGED items_avail
    /\ Goto(c, "leave")
    /\ UNCHANGED <<counters, micro, slots_avail, k, void, got>>

PopLeave(c) ==
    /\ pc[c] = "leave"
    /\ Items!Forget(c)
    /\ Goto(c, "turn")
    /\ UNCHANGED <<counters, micro, slots_avail, k, void, got>>

\* An aborted pop that keeps its ticket.
PopGiveBack_Keeps(c) ==
    /\ pc[c] = "giveback"
    /\ Items!Forget(c)
    /\ Finish(c)
    /\ UNCHANGED <<counters, micro, slots_avail, void, got>>

\* user_abort: the pop returns its ticket to the counter.
PopGiveBack(c) ==
    /\ pc[c] = "giveback"
    /\ head_counter' = head_counter - 1
    /\ Items!Forget(c)
    /\ Finish(c)
    /\ UNCHANGED <<tail_counter, micro, slots_avail, void, got>>

(* internal_pop_if_present *)

TryPop(c) ==
    /\ pc[c] \in {"idle", "again"} /\ c \in Tryers
    /\ k' = [k EXCEPT ![c] = head_counter]
    /\ Goto(c, "try")
    /\ UNCHANGED <<counters, micro, monitors, void, got>>

TryPopEmpty(c) ==
    /\ pc[c] = "try"
    /\ \/ IsEmpty(k[c]) /\ Finish(c)
       \/ ~ IsEmpty(k[c]) /\ Goto(c, "cas") /\ UNCHANGED k
    /\ UNCHANGED <<counters, micro, monitors, void, got>>

\* The ticket is taken without a comparison.
TryPopClaim_NoCompare(c) ==
    /\ pc[c] = "cas"
    /\ head_counter' = k[c] + 1
    /\ Goto(c, "turn")
    /\ UNCHANGED <<tail_counter, k, micro, monitors, void, got>>

TryPopClaim(c) ==
    /\ pc[c] = "cas"
    /\ \/ /\ k[c] = head_counter
          /\ head_counter' = head_counter + 1
          /\ Goto(c, "turn") /\ UNCHANGED <<tail_counter, k>>
       \/ /\ k[c] # head_counter
          /\ k' = [k EXCEPT ![c] = head_counter]
          /\ Goto(c, "try") /\ UNCHANGED counters
    /\ UNCHANGED <<micro, monitors, void, got>>

(* micro_queue::pop *)

MyTurn(c) == mhead[Queue(k[c])] = Turn(k[c]) /\ mtail[Queue(k[c])] # Turn(k[c])

\* The turn of the ticket has come and its push is over: the pop looks at its
\* slot of the first page.
PopTurn(c) ==
    LET q == Queue(k[c])
        found == pages[q][1][Slot(k[c])]
    IN
    /\ pc[c] = "turn" /\ MyTurn(c)
    /\ got' = [got EXCEPT ![c] = found]
    /\ n_invalid_entries' = IF found = Absent THEN n_invalid_entries - 1 ELSE n_invalid_entries
    /\ Goto(c, "finish")
    /\ UNCHANGED <<counters, mhead, mtail, pages, monitors, k, void>>

\* The micro_queue_pop_finalizer: the last of a page takes the page away.
PopFinish(c) ==
    LET q == Queue(k[c]) IN
    /\ pc[c] = "finish"
    /\ pages' = IF Slot(k[c]) = PerPage - 1 THEN [pages EXCEPT ![q] = Tail(@)] ELSE pages
    /\ mhead' = [mhead EXCEPT ![q] = Turn(k[c]) + NQueue]
    /\ Goto(c, IF got[c] = Absent THEN "again" ELSE "notify")
    /\ UNCHANGED <<counters, mtail, n_invalid_entries, monitors, k, void, got>>

\* slots_avail.notify(predicate_leq(k)): a push waits for the ticket k-e.
PopNotify(c) ==
    /\ pc[c] = "notify"
    /\ \/ s_waiting = {} /\ UNCHANGED slots_avail
       \/ s_waiting # {} /\ Slots!Notify({p \in s_waiting : k[p] - Capacity <= k[c]})
    /\ Finish(c)
    /\ got' = [got EXCEPT ![c] = Absent]
    /\ UNCHANGED <<counters, micro, items_avail, void>>

-----------------------------------------------------------------------------
(* internal_abort; each aborter calls it once. *)

AbortItems(a) ==
    /\ pc[a] = "idle"
    /\ Items!Abort
    /\ Goto(a, "slots")
    /\ UNCHANGED <<counters, micro, slots_avail, k, void, got>>

AbortSlots(a) ==
    /\ pc[a] = "slots"
    /\ Slots!Abort
    /\ Goto(a, "done")
    /\ UNCHANGED <<counters, micro, items_avail, k, void, got>>

-----------------------------------------------------------------------------
PushStep(p) ==
    \/ PushFull(p) \/ PushPrepare(p) \/ PushTest(p) \/ PushCommit(p) \/ PushWake(p)
    \/ PushCancel(p) \/ PushLeave(p) \/ TryPushFull(p) \/ TryPushClaim(p)
    \/ PushTurn(p) \/ PushStore(p) \/ PushSpoilt(p) \/ PushPublish(p) \/ PushNotify(p)

PopStep(c) ==
    \/ PopEmpty(c) \/ PopPrepare(c) \/ PopTest(c) \/ PopCommit(c) \/ PopWake(c)
    \/ PopCancel(c) \/ PopLeave(c) \/ PopGiveBack(c) \/ TryPopEmpty(c) \/ TryPopClaim(c)
    \/ PopTurn(c) \/ PopFinish(c) \/ PopNotify(c)

PopStart(c) == PopClaim(c) \/ TryPop(c)

Next ==
    \/ \E p \in Producers : Push(p) \/ TryPush(p) \/ PushStep(p)
    \/ \E c \in Consumers : PopStart(c) \/ PopStep(c)
    \/ \E a \in Aborters : AbortItems(a) \/ AbortSlots(a)

Spec == Init /\ [][Next]_vars

\* A thread inside a call is scheduled; nobody has to call anything.
Fairness ==
    /\ \A p \in Producers : WF_vars(PushStep(p))
    /\ \A c \in Consumers : WF_vars(PopStep(c) \/ (pc[c] = "again" /\ PopStart(c)))

FairSpec == Spec /\ Fairness

-----------------------------------------------------------------------------
(* Safety. *)

Claimed(p) ==
    pc[p] \in {"full", "prepare", "test", "commit", "asleep", "cancel", "leave",
               "turn", "store"}

Stored == {t \in Tickets : \E q \in DOMAIN pages : \E n \in DOMAIN pages[q] :
                               t \in ToSet(pages[q][n])}

\* The items of the queue: those that a push still holds or has left in a page.
Live == Stored \cup {k[p] : p \in {r \in Producers \ void : Claimed(r)}}

HasTicket(c) ==
    pc[c] \in {"full", "prepare", "test", "commit", "asleep", "cancel", "leave",
               "giveback", "turn"}

Unaborted == \A a \in Aborters : pc[a] \in {"idle", "away"}
Quiescent == \A t \in Threads : pc[t] \in {"idle", "away", "done"}

\* The pages of a micro queue are those between its two counters, and what is
\* in them is where its ticket belongs.
PagesInOrder ==
    \A q \in DOMAIN pages :
        /\ mhead[q] <= mtail[q]
        /\ \A n \in DOMAIN pages[q], i \in 0..(PerPage - 1) :
              LET t == pages[q][n][i] IN
              t # Absent => /\ Queue(t) = q /\ Slot(t) = i
                            /\ PageNo(Turn(t)) = PageNo(mhead[q]) + n - 1

\* No two pushes have one ticket, and no two pops.
TicketsDistinct ==
    /\ \A p, r \in Producers : p # r /\ Claimed(p) /\ Claimed(r) => k[p] # k[r]
    /\ \A c, d \in Consumers : c # d /\ HasTicket(c) /\ HasTicket(d) => k[c] # k[d]

(* The inductive invariant. *)

\* Alone in a micro queue, and not yet done with a ticket.
Inside(p) == pc[p] \in {"store", "publish", "skip"}
Pushing(p) == Claimed(p) \/ Inside(p)
Popping(c) == HasTicket(c) \/ pc[c] = "finish"

\* More pops than pushes may have been started.
AllTickets == 0..(MaxTickets + Cardinality(Consumers))

TicketsInRange ==
    /\ \A p \in Producers : /\ pc[p] \in {"try", "cas"} => k[p] < MaxTickets
                            /\ pc[p] = "notify" => k[p] < tail_counter
    /\ \A c \in Consumers : pc[c] = "notify" => k[c] < head_counter

\* A ticket of the push counter belongs to one push until its turn has passed.
PushesInLine ==
    /\ \A p \in Producers :
        /\ Pushing(p) => k[p] < tail_counter /\ mtail[Queue(k[p])] <= Turn(k[p])
        /\ Inside(p) => mtail[Queue(k[p])] = Turn(k[p])
        /\ \A r \in Producers : Pushing(p) /\ Pushing(r) /\ k[p] = k[r] => p = r
    /\ \A t \in AllTickets : t >= tail_counter => mtail[Queue(t)] <= Turn(t)
    /\ \A t \in AllTickets : t < tail_counter /\ mtail[Queue(t)] <= Turn(t) =>
          \E p \in Producers : Pushing(p) /\ k[p] = t
    /\ \A q \in 0..(NQueue - 1) :
          mtail[q] # 0 => \E t \in 0..(tail_counter - 1) :
                             Queue(t) = q /\ Turn(t) + NQueue = mtail[q]

PopsInLine ==
    /\ \A c \in Consumers :
        /\ Popping(c) => k[c] < head_counter /\ mhead[Queue(k[c])] <= Turn(k[c])
        /\ pc[c] = "finish" => /\ mhead[Queue(k[c])] = Turn(k[c])
                               /\ mtail[Queue(k[c])] > Turn(k[c])
        /\ \A d \in Consumers : Popping(c) /\ Popping(d) /\ k[c] = k[d] => c = d
    /\ \A t \in AllTickets : t >= head_counter => mhead[Queue(t)] <= Turn(t)
    /\ \A t \in AllTickets : t < head_counter /\ mhead[Queue(t)] <= Turn(t) =>
          \E c \in Consumers : Popping(c) /\ k[c] = t

\* The turn of the push that was the last to enter a micro queue.
LastIn(q) ==
    IF \E p \in Producers : Inside(p) /\ Queue(k[p]) = q THEN mtail[q] ELSE mtail[q] - NQueue

\* A micro queue has the pages from its next pop to its last push.
PagesReach ==
    \A q \in 0..(NQueue - 1) :
        /\ mhead[q] % NQueue = 0 /\ mtail[q] % NQueue = 0
        /\ Len(pages[q]) = PageNo(LastIn(q)) - PageNo(mhead[q]) + 1

\* An item in a page was put there by its push.
StoredPushed ==
    /\ \A t \in Stored : \/ mtail[Queue(t)] > Turn(t)
                         \/ \E p \in Producers : pc[p] = "publish" /\ k[p] = t
    /\ \A p \in Producers : pc[p] = "publish" => k[p] \in Stored

\* The entries without an item that no pop has come across yet.
Passed(t) == \/ mtail[Queue(t)] > Turn(t)
             \/ \E p \in Producers : pc[p] = "skip" /\ k[p] = t
Unpopped(t) == /\ mhead[Queue(t)] <= Turn(t)
               /\ \A c \in Consumers : pc[c] = "finish" => k[c] # t
Invalid == {t \in 0..(tail_counter - 1) : Passed(t) /\ Unpopped(t) /\ t \notin Stored}

InvalidCounted == n_invalid_entries = Cardinality(Invalid)

\* A push that has been told to go on, or has seen it, has room while tickets
\* of pops are not given back; a pop has an item coming.
RoomSeen ==
    Unaborted =>
        /\ \A p \in Producers :
              \/ pc[p] \in {"cas", "cancel", "leave", "turn", "store", "publish"}
              \/ p \in s_chosen
              => k[p] < head_counter + Capacity
        /\ \A t \in Stored : t < head_counter + Capacity

ItemSeen ==
    \A c \in Consumers :
        \/ pc[c] \in {"cas", "cancel", "leave", "turn", "finish"}
        \/ c \in i_chosen \ i_aborted
        => k[c] < tail_counter

\* The monitors know only of threads that wait, and choose each of them once.
WaitersOnly ==
    /\ s_waiting \cap s_chosen = {} /\ i_waiting \cap i_chosen = {}
    /\ \A p \in Producers :
        /\ p \in s_waiting => pc[p] \in {"test", "commit", "asleep", "cancel"}
        /\ p \in s_chosen => pc[p] \in {"prepare", "test", "commit", "asleep", "cancel", "leave"}
    /\ \A c \in Consumers :
        /\ c \in i_waiting => pc[c] \in {"test", "commit", "asleep", "cancel"}
        /\ c \in i_chosen =>
              pc[c] \in {"prepare", "test", "commit", "asleep", "cancel", "leave", "giveback"}

\* A ticket is given back only after an abort, and it is then the last one.
GivenBackLast ==
    /\ Unaborted => i_aborted = {} /\ \A c \in Consumers : pc[c] # "giveback"
    /\ (\E a \in Aborters : pc[a] # "away") =>
          \A c \in Consumers : pc[c] # "away" =>
              /\ \A d \in Consumers : pc[d] # "away" => c = d
              /\ Popping(c) => k[c] = head_counter - 1

\* Only an aborted push has no item, until it has passed its ticket on; what a pop
\* has found is the item of its ticket, and the push of that ticket is over.
HandsExact ==
    /\ \A p \in void : pc[p] \in {"leave", "turn", "store", "skip"}
    /\ \A c \in Consumers : got[c] # Absent =>
          /\ pc[c] \in {"finish", "notify"} /\ got[c] = k[c]
          /\ mtail[Queue(k[c])] > Turn(k[c])

QueueInv ==
    /\ TypeOK /\ PagesInOrder /\ TicketsDistinct /\ TicketsInRange
    /\ PushesInLine /\ PopsInLine /\ PagesReach
    /\ StoredPushed /\ InvalidCounted /\ RoomSeen /\ ItemSeen /\ WaitersOnly /\ GivenBackLast

IInv == QueueInv /\ HandsExact

\* What the source asserts: a pop that goes on has an item coming (line 438), a
\* push that goes on has room (400, unless a pop gives its ticket back), there
\* is a page where one is read (247) or written, and when the queue is drained
\* at most one page of each micro queue remains (516).
SourceAssertions ==
    /\ \A c \in Consumers : pc[c] = "turn" => tail_counter - k[c] > 0
    /\ Unaborted => \A p \in Producers : pc[p] = "turn" => k[p] - head_counter < Capacity
    /\ \A c \in Consumers : pc[c] = "turn" /\ MyTurn(c) => pages[Queue(k[c])] # <<>>
    /\ \A p \in Producers : pc[p] = "store" =>
          /\ pages[Queue(k[p])] # <<>>
          /\ Last(pages[Queue(k[p])])[Slot(k[p])] = Absent
    /\ Quiescent /\ head_counter = tail_counter => \A q \in DOMAIN pages : Len(pages[q]) <= 1

\* capacity(), "maximum number of allowed elements": the items nobody has asked
\* for are never more, unless a pop has been aborted.
CapacityKept == Unaborted => Cardinality({t \in Stored : t >= head_counter}) <= Capacity

\* size(), "number of pushes minus number of pops": when no call is in progress
\* it is the number of items that are left, whatever was aborted or has thrown.
SizeExact ==
    Quiescent => tail_counter - head_counter - n_invalid_entries
                    = Cardinality({t \in Stored : t >= head_counter})

\* The items no pop has asked for, the pops whose item has not been offered with those
\* ahead of each, and the item each pop is about to return.
Unasked == {t \in Live : t >= head_counter}
Early == {c \in Consumers : HasTicket(c) /\ k[c] >= tail_counter}
Ahead == [c \in Early |-> {d \in Early : k[d] < k[c]}]
InHand == [c \in Consumers |->
              IF ~ HasTicket(c) THEN got[c] ELSE IF k[c] \in Live THEN k[c] ELSE Absent]

Ex == INSTANCE Exchange WITH
        Takers <- Consumers, Nothing <- Absent,
        offers <- tail_counter, queue <- Unasked, waiting <- Ahead, hand <- InHand

\* The queue hands every item to one pop, in the order of the tickets.
RefinesExchange == Ex!Spec

-----------------------------------------------------------------------------
(* Liveness. *)

\* A call returns, unless it sleeps for a pop or a push that has not begun.
CallsReturn ==
    /\ \A p \in Producers :
          []<>(\/ pc[p] \in {"idle", "away"}
               \/ pc[p] = "asleep" /\ head_counter <= k[p] - Capacity)
    /\ \A c \in Consumers :
          []<>(\/ pc[c] \in {"idle", "away"}
               \/ pc[c] = "asleep" /\ tail_counter <= k[c])

\* Nobody can abort, and no item can throw when it is copied.
Calm == \A t \in Aborters \cup Throwing : pc[t] = "away"

CalmCallsReturn == Calm => CallsReturn

=============================================================================
