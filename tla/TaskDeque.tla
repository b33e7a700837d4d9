------------------------------ MODULE TaskDeque ------------------------------
(***************************************************************************)
(* The work-stealing deque of an arena slot: the thread that owns the slot *)
(* spawns tasks at the tail and takes them from there, thieves take them   *)
(* from the head.  A task with an affinity is a proxy that lies in the     *)
(* deque and in the mailbox of another thread.  Thieves that find nothing  *)
(* ask whether the arena is out of work; who makes work visible takes the  *)
(* answer back.                                                            *)
(*                                                                         *)
(* One deque with its owner, and the workers that steal from it; their own *)
(* deques are empty.  One priority level, no enqueued tasks.  Each action  *)
(* is one access to a location that other threads use at that moment;      *)
(* where the lock or an index keeps the others out, the accesses up to the *)
(* next shared one are one action.  Tasks are numbered in the order they   *)
(* are spawned; a proxy has the number of its task.                        *)
(***************************************************************************)
EXTENDS Integers, FiniteSets

CONSTANTS
    Owner, Workers,
    NumTasks,       \* the tasks spawned (a bound for TLC)
    Affinity,       \* the worker a task is mailed to, or NULL
    MinPoolSize,    \* min_task_pool_size
    NULL

Tasks == 1 .. NumTasks
Threads == Workers \cup {Owner}

ASSUME DequeAssumption ==
    /\ Owner \notin Workers /\ NULL \notin Workers /\ NULL \notin Tasks
    /\ {"EMPTY", "FULL"} \cap Workers = {}
    /\ IsFiniteSet(Workers)
    /\ NumTasks \in Nat /\ MinPoolSize \in Nat \ {0, 1}
    /\ Affinity \in [Tasks -> Workers \cup {NULL}]

VARIABLES
    task_pool,          \* the slot's lock: "empty", "locked" or "published"
    head, tail, my_task_pool_size,
    task_pool_ptr,      \* the array; NULL is a poisoned entry
    task_and_tag,       \* of each proxy: where it is; the task is in it iff "both"
    mailbox,            \* the proxies in the mailboxes
    my_pool_state,      \* "EMPTY", "FULL", or the worker that takes a snapshot
    demand,             \* the arena's demand for workers, in multiples of its size
    spawned, times,     \* how many tasks have been spawned; how often each was taken
    pc,
    result,             \* what a thread has got out of the deque
    batch, mirror,      \* the owner: tasks to be put into the deque; the variable T
    H0, H, skip_and_bump,   \* steal_task; H also in is_out_of_work
    snapshot            \* advertise_new_work

deque == <<task_pool, head, tail, my_task_pool_size, task_pool_ptr>>
mail == <<task_and_tag, mailbox>>
arena == <<my_pool_state, demand>>
thief == <<H0, H, skip_and_bump>>
own == <<batch, mirror>>
vars == <<deque, mail, arena, spawned, times, pc, result, own, thief, snapshot>>

-----------------------------------------------------------------------------
SpawnLocs == {"mail", "prepare", "relocate", "retail", "p_release", "store",
              "commit", "enter"}
GetLocs == {"g_head", "g_take", "g_lock", "g_arbitrate", "g_release", "g_reset",
            "g_got"}
AdvertiseLocs == {"adv_load", "adv_cas", "adv_cas2", "adv_demand"}
StealLocs == {"bump", "test", "restore", "look", "move", "m_test", "unlock"}
SnapshotLocs == {"s_pool", "s_head", "s_tail", "s_set", "s_demand", "s_undo"}
Locs == {"idle", "busy", "away", "stolen"} \cup SpawnLocs \cup GetLocs
            \cup AdvertiseLocs \cup StealLocs \cup SnapshotLocs

TypeOK ==
    /\ task_pool \in {"empty", "locked", "published"}
    /\ head \in Nat /\ tail \in Nat \cup {-1} /\ my_task_pool_size \in Nat
    /\ task_pool_ptr \in [0 .. my_task_pool_size - 1 -> Tasks \cup {NULL}]
    /\ task_and_tag \in [Tasks -> {"none", "both", "pool", "mailbox", "freed"}]
    /\ mailbox \subseteq Tasks
    /\ my_pool_state \in {"EMPTY", "FULL"} \cup Workers
    /\ demand \in Int
    /\ spawned \in 0 .. NumTasks /\ times \in [Tasks -> Nat]
    /\ pc \in [Threads -> Locs]
    /\ result \in [Threads -> Tasks \cup {NULL}]
    /\ batch \in Nat /\ mirror \in Nat
    /\ H0 \in [Workers -> Nat] /\ H \in [Workers -> Nat]
    /\ skip_and_bump \in [Workers -> 0 .. 2]
    /\ snapshot \in [Threads -> {"EMPTY", "FULL"} \cup Workers]

Init ==
    /\ task_pool = "empty" /\ head = 0 /\ tail = 0
    /\ my_task_pool_size = 0 /\ task_pool_ptr = [i \in 0 .. -1 |-> NULL]
    /\ task_and_tag = [t \in Tasks |-> "none"] /\ mailbox = {}
    /\ my_pool_state = "EMPTY" /\ demand = 0
    /\ spawned = 0 /\ times = [t \in Tasks |-> 0]
    /\ pc = [p \in Threads |-> IF p = Owner THEN "idle" ELSE "away"]
    /\ result = [p \in Threads |-> NULL]
    /\ batch = 0 /\ mirror = 0
    /\ H0 = [w \in Workers |-> 0] /\ H = [w \in Workers |-> 0]
    /\ skip_and_bump = [w \in Workers |-> 0]
    /\ snapshot = [p \in Threads |-> "FULL"]

Goto(p, loc) == pc' = [pc EXCEPT ![p] = loc]
IsProxy(t) == Affinity[t] # NULL
Larger(a, b) == IF a < b THEN b ELSE a

\* The two states of the lock on a published pool.
AcquirePool == task_pool = "published" /\ task_pool' = "locked"
ReleasePool == task_pool' = "published"

-----------------------------------------------------------------------------
(* local_spawn *)

\* The tasks being spawned; a list is put into the deque in reverse.
Batch == spawned - batch + 1 .. spawned
Mailed == {t \in Batch : IsProxy(t)}

\* prepare_for_spawning: the proxy is in both places before it is in the deque.
MailBatch ==
    /\ task_and_tag' = [t \in Tasks |-> IF t \in Mailed THEN "both" ELSE task_and_tag[t]]
    /\ mailbox' = mailbox \cup Mailed

\* A list is mailed before room is made for it, a single task after that.
Spawn(n) ==
    /\ pc[Owner] = "idle"
    /\ spawned + n <= NumTasks
    /\ spawned' = spawned + n
    /\ batch' = n
    /\ Goto(Owner, IF n = 1 THEN "prepare" ELSE "mail")
    /\ UNCHANGED <<deque, mail, arena, times, result, mirror, thief, snapshot>>

MailList ==
    /\ pc[Owner] = "mail"
    /\ MailBatch
    /\ Goto(Owner, "prepare")
    /\ UNCHANGED <<deque, arena, spawned, times, result, own, thief, snapshot>>

Prepare ==
    /\ pc[Owner] = "prepare"
    /\ \/ /\ tail + batch <= my_task_pool_size
          /\ Goto(Owner, "store")
          /\ UNCHANGED task_pool
       \/ /\ tail + batch > my_task_pool_size
          /\ AcquirePool \/ (task_pool = "empty" /\ UNCHANGED task_pool)
          /\ Goto(Owner, "relocate")
    /\ UNCHANGED <<head, tail, my_task_pool_size, task_pool_ptr, mail, arena,
                   spawned, times, result, own, thief, snapshot>>

\* A relocation that forgets that the tasks start at the head.
MoveTo_FromStart(n) ==
    /\ my_task_pool_size' = n
    /\ task_pool_ptr' = [i \in 0 .. n - 1 |->
            IF i < tail - head THEN task_pool_ptr[i] ELSE NULL]
    /\ head' = 0
    /\ mirror' = tail - head

\* The tasks in the deque move to the beginning of an array of n entries.
MoveTo(n) ==
    /\ my_task_pool_size' = n
    /\ task_pool_ptr' = [i \in 0 .. n - 1 |->
            IF i < tail - head THEN task_pool_ptr[head + i] ELSE NULL]
    /\ head' = 0
    /\ mirror' = tail - head

Relocate ==
    LET new_size == tail - head + batch IN
    /\ pc[Owner] = "relocate"
    /\ IF my_task_pool_size = 0 THEN MoveTo(Larger(new_size, MinPoolSize))
       ELSE IF new_size <= my_task_pool_size - MinPoolSize \div 4
       THEN MoveTo(my_task_pool_size)
       ELSE MoveTo(Larger(new_size, 2 * my_task_pool_size))
    /\ Goto(Owner, "retail")
    /\ UNCHANGED <<task_pool, tail, mail, arena, spawned, times, result, batch,
                   thief, snapshot>>

StoreTail ==
    /\ pc[Owner] = "retail"
    /\ tail' = mirror
    /\ mirror' = 0
    /\ Goto(Owner, IF task_pool = "locked" THEN "p_release" ELSE "store")
    /\ UNCHANGED <<task_pool, head, my_task_pool_size, task_pool_ptr, mail, arena,
                   spawned, times, result, batch, thief, snapshot>>

OwnerRelease(at, to) ==
    /\ pc[Owner] = at
    /\ ReleasePool
    /\ Goto(Owner, to)
    /\ UNCHANGED <<head, tail, my_task_pool_size, task_pool_ptr, mail, arena,
                   spawned, times, result, own, thief, snapshot>>

Store ==
    /\ pc[Owner] = "store"
    /\ IF batch = 1 THEN MailBatch ELSE UNCHANGED mail
    /\ task_pool_ptr' = [i \in 0 .. my_task_pool_size - 1 |->
            IF i \in tail .. tail + batch - 1 THEN spawned - (i - tail)
            ELSE task_pool_ptr[i]]
    /\ Goto(Owner, "commit")
    /\ UNCHANGED <<task_pool, head, tail, my_task_pool_size, arena, spawned, times,
                   result, own, thief, snapshot>>

Commit ==
    /\ pc[Owner] = "commit"
    /\ tail' = tail + batch
    /\ batch' = 0
    /\ Goto(Owner, IF task_pool = "empty" THEN "enter" ELSE "adv_load")
    /\ UNCHANGED <<task_pool, head, my_task_pool_size, task_pool_ptr, mail, arena,
                   spawned, times, result, mirror, thief, snapshot>>

EnterArena ==
    /\ pc[Owner] = "enter"
    /\ ReleasePool
    /\ Goto(Owner, "adv_load")
    /\ UNCHANGED <<head, tail, my_task_pool_size, task_pool_ptr, mail, arena,
                   spawned, times, result, own, thief, snapshot>>

-----------------------------------------------------------------------------
(* advertise_new_work<true>, by the owner after a spawn and by a thief that *)
(* has hidden tasks for a while.                                            *)

AfterAdvertise(p) == IF p = Owner THEN "idle" ELSE "stolen"

AdvertiseLoad(p) ==
    /\ pc[p] = "adv_load"
    /\ \/ /\ my_pool_state = "FULL"
          /\ Goto(p, AfterAdvertise(p))
          /\ UNCHANGED snapshot
       \/ /\ my_pool_state # "FULL"
          /\ snapshot' = [snapshot EXCEPT ![p] = my_pool_state]
          /\ Goto(p, "adv_cas")
    /\ UNCHANGED <<deque, mail, arena, spawned, times, result, own, thief>>

\* The compare-and-swap, and what its result is compared to.
AdvertiseCAS(p) ==
    /\ pc[p] = "adv_cas"
    /\ \/ /\ my_pool_state = snapshot[p]
          /\ my_pool_state' = "FULL"
          /\ Goto(p, IF snapshot[p] = "EMPTY" THEN "adv_demand" ELSE AfterAdvertise(p))
       \/ /\ my_pool_state # snapshot[p]
          /\ Goto(p, IF my_pool_state = "EMPTY" THEN "adv_cas2" ELSE AfterAdvertise(p))
          /\ UNCHANGED my_pool_state
    /\ snapshot' = [snapshot EXCEPT ![p] = "FULL"]
    /\ UNCHANGED <<deque, mail, demand, spawned, times, result, own, thief>>

\* "Attempt to transition my_pool_state from "empty" to "full"."
AdvertiseCAS2(p) ==
    /\ pc[p] = "adv_cas2"
    /\ \/ /\ my_pool_state = "EMPTY"
          /\ my_pool_state' = "FULL"
          /\ Goto(p, "adv_demand")
       \/ /\ my_pool_state # "EMPTY"
          /\ Goto(p, AfterAdvertise(p))
          /\ UNCHANGED my_pool_state
    /\ UNCHANGED <<deque, mail, demand, spawned, times, result, own, thief, snapshot>>

AdvertiseDemand(p) ==
    /\ pc[p] = "adv_demand"
    /\ demand' = demand + 1
    /\ Goto(p, AfterAdvertise(p))
    /\ UNCHANGED <<deque, mail, my_pool_state, spawned, times, result, own, thief,
                   snapshot>>

Advertise(p) ==
    AdvertiseLoad(p) \/ AdvertiseCAS(p) \/ AdvertiseCAS2(p) \/ AdvertiseDemand(p)

-----------------------------------------------------------------------------
(* get_task *)

LowerTail ==
    /\ tail' = tail - 1
    /\ Goto(Owner, "g_head")
    /\ UNCHANGED <<task_pool, head, my_task_pool_size, task_pool_ptr>>

GetTask ==
    /\ pc[Owner] = "idle"
    /\ task_pool # "empty"
    /\ LowerTail
    /\ UNCHANGED <<mail, arena, spawned, times, result, own, thief, snapshot>>

\* An owner that trusts the deque when only one task is left.
TestHead_Late ==
    /\ pc[Owner] = "g_head"
    /\ Goto(Owner, IF head > tail + 1 THEN "g_lock" ELSE "g_take")
    /\ UNCHANGED <<deque, mail, arena, spawned, times, result, own, thief, snapshot>>

TestHead ==
    /\ pc[Owner] = "g_head"
    /\ Goto(Owner, IF head > tail THEN "g_lock" ELSE "g_take")
    /\ UNCHANGED <<deque, mail, arena, spawned, times, result, own, thief, snapshot>>

\* The entry at i is taken out of the deque.
TakeEntry(p, i) ==
    /\ result' = [result EXCEPT ![p] = task_pool_ptr[i]]
    /\ task_pool_ptr' = [task_pool_ptr EXCEPT ![i] = NULL]

TakeTail ==
    /\ pc[Owner] = "g_take"
    /\ TakeEntry(Owner, tail)
    /\ Goto(Owner, "g_got")
    /\ UNCHANGED <<task_pool, head, tail, my_task_pool_size, mail, arena, spawned,
                   times, own, thief, snapshot>>

LockOwnPool ==
    /\ pc[Owner] = "g_lock"
    /\ AcquirePool
    /\ Goto(Owner, "g_arbitrate")
    /\ UNCHANGED <<head, tail, my_task_pool_size, task_pool_ptr, mail, arena,
                   spawned, times, result, own, thief, snapshot>>

Arbitrate ==
    /\ pc[Owner] = "g_arbitrate"
    /\ IF head <= tail THEN TakeEntry(Owner, tail)
       ELSE UNCHANGED <<result, task_pool_ptr>>
    /\ Goto(Owner, IF head < tail THEN "g_release" ELSE "g_reset")
    /\ UNCHANGED <<task_pool, head, tail, my_task_pool_size, mail, arena, spawned,
                   times, own, thief, snapshot>>

\* reset_deque_and_leave_arena
LeaveArena ==
    /\ pc[Owner] = "g_reset"
    /\ tail' = 0 /\ head' = 0
    /\ task_pool' = "empty"
    /\ Goto(Owner, "g_got")
    /\ UNCHANGED <<my_task_pool_size, task_pool_ptr, mail, arena, spawned, times,
                   result, own, thief, snapshot>>

\* Taking the task without asking whether the other place has had it.
Extract_NoTest(t, other) ==
    /\ times' = [times EXCEPT ![t] = @ + 1]
    /\ task_and_tag' = IF IsProxy(t) THEN [task_and_tag EXCEPT ![t] = other]
                       ELSE task_and_tag

\* What a thread does with what it took out of the deque or out of a mailbox:
\* it takes the task and leaves the proxy to the other place, or frees a proxy
\* whose task has been taken there.
Extract(t, other) ==
    IF ~IsProxy(t) THEN times' = [times EXCEPT ![t] = @ + 1] /\ UNCHANGED task_and_tag
    ELSE IF task_and_tag[t] = "both"
    THEN /\ times' = [times EXCEPT ![t] = @ + 1]
         /\ task_and_tag' = [task_and_tag EXCEPT ![t] = other]
    ELSE /\ task_and_tag' = [task_and_tag EXCEPT ![t] = "freed"]
         /\ UNCHANGED times

HasTask(t) == t # NULL /\ (IsProxy(t) => task_and_tag[t] = "both")

\* The owner has a task, an empty proxy after which it tries again if it is
\* still in the arena, or nothing.
Got ==
    /\ pc[Owner] = "g_got"
    /\ IF result[Owner] = NULL THEN UNCHANGED <<task_and_tag, times>>
       ELSE Extract(result[Owner], "mailbox")
    /\ IF result[Owner] # NULL /\ ~HasTask(result[Owner]) /\ task_pool # "empty"
       THEN LowerTail
       ELSE Goto(Owner, "idle") /\ UNCHANGED deque
    /\ result' = [result EXCEPT ![Owner] = NULL]
    /\ UNCHANGED <<mailbox, arena, spawned, own, thief, snapshot>>

-----------------------------------------------------------------------------
(* steal_task *)

\* my_is_idle: set in the whole of receive_or_steal_task, and left so by a
\* worker that goes away.
IsIdle(w) == pc[w] # "busy"

LockVictim(w) ==
    /\ pc[w] = "idle"
    /\ AcquirePool
    /\ H0' = [H0 EXCEPT ![w] = head]
    /\ H' = [H EXCEPT ![w] = head]
    /\ Goto(w, "bump")
    /\ UNCHANGED <<head, tail, my_task_pool_size, task_pool_ptr, mail, arena,
                   spawned, times, result, own, skip_and_bump, snapshot>>

BumpHead(w) ==
    /\ pc[w] = "bump"
    /\ H' = [H EXCEPT ![w] = @ + 1]
    /\ head' = H[w] + 1
    /\ Goto(w, "test")
    /\ UNCHANGED <<task_pool, tail, my_task_pool_size, task_pool_ptr, mail, arena,
                   spawned, times, result, own, H0, skip_and_bump, snapshot>>

TestTail(w) ==
    /\ pc[w] = "test"
    /\ Goto(w, IF H[w] > tail THEN "restore" ELSE "look")
    /\ UNCHANGED <<deque, mail, arena, spawned, times, result, own, thief, snapshot>>

RestoreHead(w) ==
    /\ pc[w] = "restore"
    /\ head' = H0[w]
    /\ skip_and_bump' = [skip_and_bump EXCEPT ![w] = @ + 1]
    /\ Goto(w, "unlock")
    /\ UNCHANGED <<task_pool, tail, my_task_pool_size, task_pool_ptr, mail, arena,
                   spawned, times, result, own, H0, H, snapshot>>

\* "If mailed task is likely to be grabbed by its destination thread, skip it."
Skipped(t) == IsProxy(t) /\ task_and_tag[t] = "both" /\ IsIdle(Affinity[t])

LookAtHead(w) ==
    /\ pc[w] = "look"
    /\ LET t == task_pool_ptr[H[w] - 1] IN
       \/ /\ Skipped(t)
          /\ skip_and_bump' = [skip_and_bump EXCEPT ![w] = 1]
          /\ Goto(w, "bump")
          /\ UNCHANGED <<result, task_pool_ptr>>
       \/ /\ ~Skipped(t)
          /\ IF H0[w] + 1 < H[w]
             THEN /\ result' = [result EXCEPT ![w] = t]
                  /\ Goto(w, "move")
                  /\ UNCHANGED task_pool_ptr
             ELSE TakeEntry(w, H0[w]) /\ Goto(w, "unlock")
          /\ UNCHANGED skip_and_bump
    /\ UNCHANGED <<task_pool, head, tail, my_task_pool_size, mail, arena, spawned,
                   times, own, H0, H, snapshot>>

\* A hole that is closed one entry short.
CloseHole_Short(w) ==
    /\ pc[w] = "move"
    /\ task_pool_ptr' = [i \in 0 .. my_task_pool_size - 1 |->
            IF i = H0[w] THEN NULL
            ELSE IF i \in H0[w] + 1 .. H[w] - 2 THEN task_pool_ptr[i - 1]
            ELSE task_pool_ptr[i]]
    /\ head' = H0[w] + 1
    /\ Goto(w, "m_test")
    /\ UNCHANGED <<task_pool, tail, my_task_pool_size, mail, arena, spawned, times,
                   result, own, thief, snapshot>>

\* The skipped proxies close the hole the stolen task leaves.
CloseHole(w) ==
    /\ pc[w] = "move"
    /\ task_pool_ptr' = [i \in 0 .. my_task_pool_size - 1 |->
            IF i = H0[w] THEN NULL
            ELSE IF i \in H0[w] + 1 .. H[w] - 1 THEN task_pool_ptr[i - 1]
            ELSE task_pool_ptr[i]]
    /\ head' = H0[w] + 1
    /\ Goto(w, "m_test")
    /\ UNCHANGED <<task_pool, tail, my_task_pool_size, mail, arena, spawned, times,
                   result, own, thief, snapshot>>

TestBumped(w) ==
    /\ pc[w] = "m_test"
    /\ IF H[w] >= tail
       THEN skip_and_bump' = [skip_and_bump EXCEPT ![w] = @ + 1]
       ELSE UNCHANGED skip_and_bump
    /\ Goto(w, "unlock")
    /\ UNCHANGED <<deque, mail, arena, spawned, times, result, own, H0, H, snapshot>>

\* A failed steal that returns with the lock.
UnlockVictim_OnlyStolen(w) ==
    /\ pc[w] = "unlock"
    /\ IF result[w] = NULL THEN UNCHANGED task_pool ELSE ReleasePool
    /\ Goto(w, IF skip_and_bump[w] > 1 THEN "adv_load" ELSE "stolen")
    /\ H0' = [H0 EXCEPT ![w] = 0]
    /\ H' = [H EXCEPT ![w] = 0]
    /\ skip_and_bump' = [skip_and_bump EXCEPT ![w] = 0]
    /\ UNCHANGED <<head, tail, my_task_pool_size, task_pool_ptr, mail, arena,
                   spawned, times, result, own, snapshot>>

\* "if both: task skipped and head&tail bumped", the snapshots must be undone.
UnlockVictim(w) ==
    /\ pc[w] = "unlock"
    /\ ReleasePool
    /\ Goto(w, IF skip_and_bump[w] > 1 THEN "adv_load" ELSE "stolen")
    /\ H0' = [H0 EXCEPT ![w] = 0]
    /\ H' = [H EXCEPT ![w] = 0]
    /\ skip_and_bump' = [skip_and_bump EXCEPT ![w] = 0]
    /\ UNCHANGED <<head, tail, my_task_pool_size, task_pool_ptr, mail, arena,
                   spawned, times, result, own, snapshot>>

\* receive_or_steal_task, after steal_task has returned.
Stolen(w) ==
    /\ pc[w] = "stolen"
    /\ IF result[w] = NULL THEN UNCHANGED <<task_and_tag, times>>
       ELSE Extract(result[w], "mailbox")
    /\ Goto(w, IF HasTask(result[w]) THEN "busy" ELSE "idle")
    /\ result' = [result EXCEPT ![w] = NULL]
    /\ UNCHANGED <<deque, mailbox, arena, spawned, own, thief, snapshot>>

-----------------------------------------------------------------------------
(* The rest of receive_or_steal_task: mail, and the end of the task. *)

ReceiveMail(w, t) ==
    /\ pc[w] = "idle"
    /\ t \in mailbox /\ Affinity[t] = w
    /\ mailbox' = mailbox \ {t}
    /\ Extract(t, "pool")
    /\ Goto(w, IF HasTask(t) THEN "busy" ELSE "idle")
    /\ UNCHANGED <<deque, arena, spawned, result, own, thief, snapshot>>

Finish(w) ==
    /\ pc[w] = "busy"
    /\ Goto(w, "idle")
    /\ UNCHANGED <<deque, mail, arena, spawned, times, result, own, thief, snapshot>>

-----------------------------------------------------------------------------
(* is_out_of_work: a worker that has found nothing leaves when it returns   *)
(* TRUE, and comes back when the arena wants workers again.                 *)

OutOfWork(w) ==
    /\ pc[w] = "idle"
    /\ \/ /\ my_pool_state = "EMPTY"
          /\ Goto(w, "away")
          /\ UNCHANGED my_pool_state
       \/ /\ my_pool_state = "FULL"
          /\ my_pool_state' = w
          /\ Goto(w, "s_pool")
    /\ UNCHANGED <<deque, mail, demand, spawned, times, result, own, thief, snapshot>>

ReadPool(w) ==
    /\ pc[w] = "s_pool"
    /\ Goto(w, IF task_pool = "empty" THEN "s_set" ELSE "s_head")
    /\ UNCHANGED <<deque, mail, arena, spawned, times, result, own, thief, snapshot>>

ReadHead(w) ==
    /\ pc[w] = "s_head"
    /\ H' = [H EXCEPT ![w] = head]
    /\ Goto(w, "s_tail")
    /\ UNCHANGED <<deque, mail, arena, spawned, times, result, own, H0,
                   skip_and_bump, snapshot>>

\* The comparison is unsigned here: a tail of -1 is the largest number.
ReadTail(w) ==
    /\ pc[w] = "s_tail"
    /\ Goto(w, IF H[w] < tail \/ tail < 0 THEN "s_undo" ELSE "s_set")
    /\ H' = [H EXCEPT ![w] = 0]
    /\ UNCHANGED <<deque, mail, arena, spawned, times, result, own, H0,
                   skip_and_bump, snapshot>>

SetEmpty(w) ==
    /\ pc[w] = "s_set"
    /\ \/ /\ my_pool_state = w
          /\ my_pool_state' = "EMPTY"
          /\ Goto(w, "s_demand")
       \/ /\ my_pool_state # w
          /\ Goto(w, "idle")
          /\ UNCHANGED my_pool_state
    /\ UNCHANGED <<deque, mail, demand, spawned, times, result, own, thief, snapshot>>

DropDemand(w) ==
    /\ pc[w] = "s_demand"
    /\ demand' = demand - 1
    /\ Goto(w, "away")
    /\ UNCHANGED <<deque, mail, my_pool_state, spawned, times, result, own, thief,
                   snapshot>>

UndoSnapshot(w) ==
    /\ pc[w] = "s_undo"
    /\ my_pool_state' = IF my_pool_state = w THEN "FULL" ELSE my_pool_state
    /\ Goto(w, "idle")
    /\ UNCHANGED <<deque, mail, demand, spawned, times, result, own, thief, snapshot>>

Return(w) ==
    /\ pc[w] = "away"
    /\ demand > 0
    /\ Goto(w, "idle")
    /\ UNCHANGED <<deque, mail, arena, spawned, times, result, own, thief, snapshot>>

-----------------------------------------------------------------------------
\* What a thread does next inside the scheduler's functions.
SpawnStep ==
    \/ MailList \/ Prepare \/ Relocate \/ StoreTail \/ Store \/ Commit \/ EnterArena
    \/ OwnerRelease("p_release", "store")

GetStep ==
    \/ TestHead \/ TakeTail \/ LockOwnPool \/ Arbitrate \/ LeaveArena \/ Got
    \/ OwnerRelease("g_release", "g_got")

OwnerStep == SpawnStep \/ GetStep \/ Advertise(Owner)

StealStep(w) ==
    \/ BumpHead(w) \/ TestTail(w) \/ RestoreHead(w) \/ LookAtHead(w)
    \/ CloseHole(w) \/ TestBumped(w) \/ UnlockVictim(w) \/ Advertise(w)
    \/ Stolen(w) \/ Finish(w)

SnapshotStep(w) ==
    \/ ReadPool(w) \/ ReadHead(w) \/ ReadTail(w) \/ SetEmpty(w)
    \/ DropDemand(w) \/ UndoSnapshot(w) \/ Return(w)

WorkerStep(w) == StealStep(w) \/ SnapshotStep(w)

Receive(w) == \E t \in mailbox : ReceiveMail(w, t)

Next ==
    \/ OwnerStep \/ GetTask \/ \E n \in 1 .. 2 : Spawn(n)
    \/ \E w \in Workers :
          WorkerStep(w) \/ LockVictim(w) \/ Receive(w) \/ OutOfWork(w)

Spec == Init /\ [][Next]_vars

\* Threads are scheduled and tasks end; the owner, when it wants the lock of its
\* pool, gets it in the end.  The owner waits for its tasks, in a loop that takes
\* them from its deque.  Nobody has to spawn, to steal, to read mail or to leave.
Fairness ==
    /\ SF_vars(OwnerStep) /\ WF_vars(GetTask)
    /\ \A w \in Workers : WF_vars(WorkerStep(w))

FairSpec == Spec /\ Fairness

-----------------------------------------------------------------------------
(* Safety. *)

\* The tasks that have been taken.
taken == {t \in Tasks : times[t] > 0}

\* The tasks in the deque: from the entry the thief that has the lock started
\* at, to the one the owner is about to take.
Stealing(w) == pc[w] \in {"bump", "test", "restore", "look", "move"}
First == IF \E w \in Workers : Stealing(w) THEN H0[CHOOSE w \in Workers : Stealing(w)]
         ELSE head
Last == IF pc[Owner] = "retail" THEN mirror - 1
        ELSE IF pc[Owner] \in {"g_head", "g_take", "g_lock", "g_arbitrate"} THEN tail
        ELSE tail - 1

\* Where the deque's side of a task is: still with the spawning thread, in the
\* deque, or with a thread that has taken it out.
InBatch(t) == pc[Owner] \in SpawnLocs /\ t \in Batch
Entries(t) == {i \in First .. Last : task_pool_ptr[i] = t}
\* A thief that closes the hole still has its task in the deque.
Holds(p) == result[p] # NULL /\ pc[p] # "move"
Holders(t) == {p \in Threads : Holds(p) /\ result[p] = t}
Places(t) == (IF InBatch(t) THEN 1 ELSE 0)
                + Cardinality(Entries(t)) + Cardinality(Holders(t))

\* Every task and every proxy is in exactly one place on the deque's side until
\* it has been taken or freed, however the head and the tail were moved: nothing
\* is lost, doubled, or overwritten when the array is relocated or a hole closed.
OnePlace ==
    \A t \in Tasks :
        Places(t) =
            IF t > spawned THEN 0
            ELSE IF ~IsProxy(t) THEN IF t \in taken THEN 0 ELSE 1
            ELSE IF task_and_tag[t] \in {"none", "both", "pool"} THEN 1 ELSE 0

\* The mailbox's side of a proxy, and its task.
ProxyState ==
    \A t \in Tasks :
        IF ~IsProxy(t) THEN task_and_tag[t] = "none" /\ t \notin mailbox
        ELSE /\ t \in mailbox <=> task_and_tag[t] \in {"both", "mailbox"}
             /\ t \in taken <=> task_and_tag[t] \in {"pool", "mailbox", "freed"}

\* The entries of the deque are tasks.
NoPoison == \A i \in First .. Last : i < my_task_pool_size => task_pool_ptr[i] # NULL

\* The assertions of the source: the arbitration of the last task, the bounds
\* of the array, entries that are read are not poisoned, the ends of the pool
\* when it is published and withdrawn, and skip_and_bump.
SourceAssertions ==
    /\ pc[Owner] = "g_arbitrate" => head <= tail \/ head = tail + 1
    /\ (pc[Owner] = "g_take" \/ (pc[Owner] = "g_arbitrate" /\ head <= tail)) =>
          tail \in DOMAIN task_pool_ptr /\ task_pool_ptr[tail] # NULL
    /\ pc[Owner] = "store" => tail + batch <= my_task_pool_size
    /\ pc[Owner] = "enter" => head < tail
    /\ \A w \in Workers : pc[w] = "look" =>
          H[w] - 1 \in DOMAIN task_pool_ptr /\ task_pool_ptr[H[w] - 1] # NULL
    /\ \A w \in Workers : pc[w] = "bump" => skip_and_bump[w] < 2

\* The demand for workers follows the state of the pool, one request for each
\* change from empty to full and back.
DemandExact ==
    demand = (IF my_pool_state = "EMPTY" THEN 0 ELSE 1)
                + Cardinality({w \in Workers : pc[w] = "s_demand"})
                - Cardinality({p \in Threads : pc[p] = "adv_demand"})

(* The inductive invariant. *)

\* Only the owner spawns and gets, only workers steal and take snapshots.
Roles ==
    /\ pc[Owner] \in {"idle"} \cup SpawnLocs \cup GetLocs \cup AdvertiseLocs
    /\ \A w \in Workers : pc[w] \in {"idle", "busy", "away", "stolen"} \cup AdvertiseLocs
                                        \cup StealLocs \cup SnapshotLocs

\* The lock excludes the others; an owner that has not published its pool goes on
\* without it.
Locking(p) ==
    pc[p] \in StealLocs \cup {"relocate", "retail", "p_release", "g_arbitrate", "g_release",
                              "g_reset"}

LockExact ==
    /\ \A p, q \in Threads : Locking(p) /\ Locking(q) => p = q
    /\ \A p \in Threads : Locking(p) =>
          \/ task_pool = "locked"
          \/ task_pool = "empty" /\ pc[p] \in {"relocate", "retail"}
    /\ pc[Owner] = "enter" => task_pool = "empty"

\* The tasks being spawned, and the room for them in the array.
Room ==
    /\ IF pc[Owner] \in SpawnLocs \ {"enter"} THEN batch \in 1 .. 2 /\ batch <= spawned
                                              ELSE batch = 0
    /\ pc[Owner] = "mail" => batch = 2
    /\ pc[Owner] \in {"store", "p_release"} => tail + batch <= my_task_pool_size
    /\ pc[Owner] = "retail" => mirror + batch <= my_task_pool_size
    /\ pc[Owner] = "commit" => \A i \in tail .. tail + batch - 1 :
          i < my_task_pool_size /\ task_pool_ptr[i] = spawned - (i - tail)

\* Where a thread has something out of the deque in hand.
Carried ==
    /\ pc[Owner] \notin {"g_release", "g_reset", "g_got"} => result[Owner] = NULL
    /\ \A w \in Workers :
        /\ pc[w] \notin {"move", "m_test", "unlock", "stolen"} \cup AdvertiseLocs =>
              result[w] = NULL
        /\ pc[w] # "unlock" => skip_and_bump[w] < 2

\* The head is not beyond the tail, but for one step: the owner has lowered the
\* tail to take a task a thief may have, or a thief has raised the head so.
Bound == IF pc[Owner] \in {"g_head", "g_lock", "g_arbitrate", "g_reset"} THEN tail + 1
         ELSE tail

Ends ==
    /\ pc[Owner] = "retail" => head = 0
    /\ (\A w \in Workers : ~ Stealing(w)) /\ pc[Owner] # "retail" => head <= Bound
    /\ pc[Owner] = "g_reset" => head >= tail
    /\ pc[Owner] = "enter" => head < tail
    /\ \A w \in Workers :
        /\ Stealing(w) => head = H[w] /\ H0[w] <= H[w]
        /\ pc[w] = "bump" => H[w] <= Bound
        /\ pc[w] \in {"test", "restore"} => H0[w] < H[w] /\ H[w] <= Bound + 1
        /\ pc[w] \in {"look", "move"} => H0[w] < H[w] /\ H[w] <= Bound
        /\ pc[w] = "move" => H0[w] + 1 < H[w] /\ result[w] = task_pool_ptr[H[w] - 1]

\* The tasks that are in the deque, or were: all but those being spawned.
Stored == 1 .. spawned - batch

Filled ==
    \A i \in First .. Last : i \in 0 .. my_task_pool_size - 1 /\ task_pool_ptr[i] \in Stored

\* In the deque, and in the hands of a thread.
Lies(t) == \E i \in First .. Last : task_pool_ptr[i] = t
Held(t) == \E p \in Threads : Holds(p) /\ result[p] = t

\* No task is twice in the deque or in the hands of the threads.
EntriesDiffer ==
    \A i, j \in First .. Last : task_pool_ptr[i] = task_pool_ptr[j] => i = j

HandsDiffer ==
    \A p \in Threads : Holds(p) =>
        /\ result[p] \in Stored /\ ~ Lies(result[p])
        /\ \A q \in Threads : Holds(q) /\ result[p] = result[q] => p = q

\* The deque's side of a task is still to be dealt with.
Left(t) == IF IsProxy(t) THEN task_and_tag[t] \in {"both", "pool"} ELSE times[t] = 0

\* A task is in the deque or in a thread's hands until it has been dealt with.
NothingLost == \A t \in Stored : Left(t) <=> Lies(t) \/ Held(t)

\* The proxies of the batch have not been mailed yet.
Unmailed ==
    \/ pc[Owner] = "mail"
    \/ batch = 1 /\ pc[Owner] \in {"prepare", "relocate", "retail", "p_release", "store"}

\* The tasks that are not in the deque yet.
Coming ==
    \A t \in Tasks :
        /\ t \in Stored /\ IsProxy(t) => task_and_tag[t] # "none"
        /\ t \notin Stored /\ ~ IsProxy(t) => times[t] = 0
        /\ t \notin Stored /\ IsProxy(t) =>
              IF t > spawned \/ Unmailed THEN task_and_tag[t] = "none"
              ELSE task_and_tag[t] \in {"both", "pool"}

IInv ==
    /\ TypeOK /\ Roles /\ LockExact /\ Room /\ Carried /\ Ends /\ Filled
    /\ EntriesDiffer /\ HandsDiffer /\ NothingLost /\ Coming /\ ProxyState /\ DemandExact

Bookkeeping == IInv /\ OnePlace /\ NoPoison

Pool == INSTANCE TaskPool WITH pending <- (1 .. spawned) \ taken

\* The deque and the mailboxes hand each spawned task to one thread, once.
RefinesTaskPool == Pool!PoolSpec

-----------------------------------------------------------------------------
(* Liveness. *)

\* Every spawned task is run: again and again, and so in the end (taken only
\* grows), the tasks taken are those spawned.
TasksRun == []<>(taken = 1 .. spawned)

=============================================================================
