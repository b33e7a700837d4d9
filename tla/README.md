# Verification of the synchronization and scheduling layer

The repository bundles the third-party libraries of the FlybyMedia/localize
project: numerical libraries (Eigen, Ceres, CXSparse, GEOS, PBMLIB), graphics
(GLEW, Pangolin, SceneGraph), sensor drivers (libvisensor, NavChipSDK), msgpack,
gmock, and Intel Threading Building Blocks 4.2 (TBB).  The part with its own
concurrent protocols, on which the rest runs, is the layer of locks, wait queues,
task deques, arenas and worker threads in `intel_tbb_42_20140601oss/src/tbb`; this
directory models it,
with Pangolin's `threadedfilebuf`, a hand-written producer and consumer in one of
the other libraries.

Below, `T/` stands for `src/intel_tbb_42_20140601oss/src/tbb/` and `H/` for
`src/intel_tbb_42_20140601oss/include/tbb/`.

## 1. Inventory

| component | state | operations | talks to | what makes it correct |
|---|---|---|---|---|
| `spin_rw_mutex` (T/spin_rw_mutex.cpp) | one word: writer bit, pending bit, reader count | lock, try, upgrade, downgrade, release, `unlock` | clients | exclusion; exact count; no pending bit left behind; writer preference; two upgrades never wait for each other |
| `queuing_mutex` (T/queuing_mutex.cpp) | `q_tail`; `next`, `going` in each scoped_lock | acquire, try_acquire, release | clients' stack frames | exclusion; FIFO; no write to a scoped_lock that has gone; no starvation |
| `reader_writer_lock` (T/reader_writer_lock.cpp) | flags and count in one word; a queue of writers; a stack of readers | lock, try_lock, lock_read, try_lock_read, unlock | clients' stack frames | as above, and writers get in although readers come back; try never blocks |
| `concurrent_monitor` (T/concurrent_monitor.*) | mutex, list, epoch; per waiter a semaphore and flags | prepare/commit/cancel_wait, notify, notify_one, notify_all, abort_all | bounded queue, task_arena, market | no lost wakeup; one post for each wait; contexts outlive their notifiers |
| task deque and mailboxes (T/scheduler.cpp, T/mailbox.h) | `task_pool` (lock), head, tail, array; proxies in two places | spawn, get_task, steal_task, relocation, mail | arena, other schedulers | each task is run once; none is lost or overwritten |
| arena (T/arena.*) | `my_pool_state`, references, priorities, streams of enqueued tasks | advertise_new_work, is_out_of_work, process, enqueue_task, execute, on_thread_leaving | market, deque, task streams | work is not forgotten; the demand is exact; destroyed once, by the last one out |
| bounded queue (T/concurrent_queue.cpp) | head and tail tickets, micro queues of pages, two monitors | push, pop, try_push, try_pop, abort, size | monitor | each item goes to one pop, in the order of tickets; capacity; size; a blocked call returns |
| market (T/market.cpp) | arenas by priority, requests, allotments, top and bottom level, references | adjust_demand, update/lower_arena_priority, arena_in_need, create_arena, try_destroy_arena | arena, RML server | the accounts add up; no arena is destroyed in use; the market closes |
| RML server (T/private_server.cpp, thread_monitor.h) | worker states, list of sleepers, slack, references | wake_some, try_insert_in_asleep_list, adjust_job_count_estimate, start_shutdown | market, its workers | the slack and the sleepers agree; demand wakes workers; every worker can be stopped |
| others of TBB | queuing_rw_mutex, task_group_context, pipeline, aggregator, observer proxies, task streams, containers, flow graph, tbbmalloc | | | see `components` in PROJECT.json |
| `threadedfilebuf` (Pangolin/src/utils) | a ring with its indices, `should_run` | open, xsputn, overflow, close, the thread's loop | packet stream, file | the file is the stream; writes return; close returns |
| libvisensor | queues of frames and corners, clock estimate | add, pop, match | sensors | matched by time stamp; no read of an empty queue |
| msgpack, NavChip | parser state, zone chunks | feed, next | device, network | sequential |
| numerical and graphics libraries, tools | no protocol state | | | not a subject of this method |

The behaviours that are hard here: interleavings at the level of single atomic
accesses (every lock), nodes on other threads' stacks that vanish as soon as the
owner leaves (both queue locks, the monitor), decisions on a copy of a word
(upgrade, snapshot), wakeups that race with going to sleep (monitor, file
buffer), owner and thief disputing the last task, an array that is replaced
while others hold indices, tickets that are taken before there is anything to take, demand
that is committed under one lock and delivered outside of it, an object that only the
last one out may destroy and nobody may touch afterwards.  Nothing here is persistent, and no messages are lost,
so crashes and unreliable delivery are no subject.  `hazards` in
PROJECT.json lists each at its line with the properties that guard it.

## 2. Modules

| module | models | implements |
|---|---|---|
| `RWLock` | the promise of a reader-writer lock with upgrades | |
| `SpinRWMutex` | `spin_rw_mutex` | `RWLock` |
| `ReaderWriterLock` | `reader_writer_lock` | `RWLock` (no upgrades) |
| `FairMutex` | the promise of a mutex that serves in order of arrival | |
| `QueuingMutex` | `queuing_mutex` | `FairMutex` |
| `EventCount` | the promise of an event count | |
| `ConcurrentMonitor` | `concurrent_monitor` and its `wait()` loop | `EventCount` |
| `TaskPool` | the promise for spawned tasks: each is taken once | |
| `TaskDeque` | one slot's deque, its owner, the thieves, task proxies, and the arena's pool state | `TaskPool` |
| `Exchange` | the promise of a queue: each item to the pop that waits longest | |
| `BoundedQueue` | `concurrent_bounded_queue`, on two instances of `EventCount` | `Exchange` |
| `Market` | the market, the lifetime of arenas, enqueued tasks and their priorities | |
| `PrivateServer` | the worker threads below the market, with `thread_monitor` | |
| `BytePipe` | the promise of an asynchronous file: what is sent arrives, in order | |
| `ThreadedFileBuf` | `threadedfilebuf` | `BytePipe` |
| `MC*` | the instances TLC checks | |
| `*Proofs` | theorems about the module of that name | |

How state and actions correspond to the code is the same in all of them.  The
variables carry the names of the fields.  `pc[t]` is the place of thread t in
the functions of the component.  One action is one access to a location that
another thread may use at that moment, together with the decision the thread
takes on the value it read; a critical section of a lock whose inside nobody
reads is one action.  An iteration of a spin loop that finds nothing changes
nothing and is a stuttering step.  A definition whose name ends in `_Something`
is a variant of the definition of the name before it, with a plausible slip;
nothing uses it but the `mutants` of PROJECT.json, which put it in the place of
the original to see that the properties notice.

All modules assume sequential consistency.  That is stronger than what C++
gives for the relaxed accesses, but on the x86 of the build the accesses in
question are locked instructions or are separated by the full fences of the
source (`atomic_fence` in get_task and steal_task).  Back-off, ITT notifications,
statistics and error reporting are left out everywhere.

**SpinRWMutex.** The word is one integer; the actions add, subtract, mask and
compare-and-swap it as the code does, with `snap` for the local copy `s`.
`Unlockers` are the threads that release by `unlock()`, which looks at the word
to find out what kind of lock its caller holds; the others release through a
scoped_lock, which remembers.  `Populations` are the sets of threads that use the
lock together, one of which is chosen initially.

**QueuingMutex.** A thread is identified with its scoped_lock, which it uses
again and again.  `order` is a ghost: the queue in the order of the
fetch_and_store, which the code keeps only implicitly in the links.

**ReaderWriterLock.** `word` has the flags RFLAG, WFLAG1, WFLAG2 and the count
as a record; `node` and `back` are the local variable and the return address of
`set_next_writer` and `unblock_readers`, which several callers share.  `below` is a
ghost that no guard reads: for each queued reader the readers from its node down
its stack, which the code keeps only implicitly in the links.

**ConcurrentMonitor.** The list is a set (no client relies on its order) and
the epoch is seen through the comparison of `commit_wait`: `fresh` is the set of
threads for which it would succeed.  Clients make the condition of some threads
true and then call one of notify, notify_one, notify_all, abort_all.

**TaskDeque.** One slot's deque with its owner, and workers that steal
from it, receive mail, and ask whether the arena is out of work.  `task_pool`
is the lock and the publication of the pool in one, as in the code.  A task with
an affinity is a proxy that is at the same time in the deque and in the
mailbox of a worker; `task_and_tag` says where.  The snapshot of
`is_out_of_work` reads the pool, the head and the tail in three steps;
the worker's name plays the part of the unique "busy" value.

**BoundedQueue.** An item is its ticket, so that an item in a wrong place shows.
The two monitors are not modelled a second time: `Slots` and `Items` are instances
of `EventCount`, the specification that `ConcurrentMonitor` is shown (and proved) to
implement, so that a push or a pop sees of its monitor exactly what is
guaranteed.  A micro queue is its two counters and its list of pages; what a
thread does while the counter names its ticket is done alone and takes one
step for each place where another thread looks.  `Live` are the tickets that still
have an item, with their push or in a page.  The mapping to `Exchange` is pointwise: its
`queue` is `Unasked`, the live tickets that are not below `head_counter`; its `waiting` is
`Ahead`, which gives each pop whose ticket no push has claimed those with smaller
tickets; its `hand` is `InHand`, for a pop on its way the item of its ticket if
that is live, and afterwards what it has found.  An item is thus handed over
when the second of its two tickets is claimed, long before anything is
copied, and taken back when the push is aborted or the copy throws.

**Market.** What `my_arenas_list_mutex` protects is the record `S`, and each
function of market.cpp is an operator from such a record to the next one; the field
`ok` gathers the assertions the functions evaluate.  A section that holds the mutex
as a writer is one action; `arena_in_need` reads under it and then takes its
reference, which is two (`FindArena`, `EnterArena`), so that two workers can choose
one arena.  The call of `adjust_job_count_estimate` after the unlock is counted
with the section.  Masters create arenas, enqueue, call execute and leave;
workers come from the server.

**PrivateServer.** The market is here the client: it commits to a change of
demand (`Demand`) and delivers it later (`Adjust`), from a master or
from inside a worker's `process`.  The epoch of `thread_monitor` is seen
through the comparison of `commit_wait` (`fresh`); `spurious` and the semaphore
are its own flags.  `stack` is a ghost: the list of sleeping workers in the order of
its links, which `AccountsInvariant` needs and no guard reads.  So is `late`: it is set
when a worker puts itself on the list although a notification of wake_some that was meant for
an earlier wait of it is still to come, or has already ended this one.  A
notification that merely outlasts the worker's way back to `prepare_wait` does not set it
(the worker may find other reasons not to list itself, or the signal may be taken for
spurious).  `IInv` claims the accounts of slack, list and sleepers, and `DemandMet` the
wakeups, up to that step; all other properties hold without regard to it, and no
action is restricted.  `FirstFailure`, which is proved, says that the ghost is exact: the accounts fail
for the first time at such a step, and at each such step they do fail.

**ThreadedFileBuf.** A byte is its number in the stream.  A section under
`update_mutex` is one action, except that write_thread's test of `should_run` and
its wait are two, because close() changes `should_run` without the mutex.
The file may write short.

## 3. Runs

| run | instance | what it shows |
|---|---|---|
| `spin_rw` | 3 threads with every operation of scoped_lock, or 1 writer and 2 readers with `unlock()` and no upgrades | `IInv`: a transient increment, an upgrade's combined subtraction and a release's mask never lose a reader (`CountExact`), the pending bit is never left behind (`PendingHasOwner`). The assertions of the source; the refinement of `RWLock`, where an upgrade that returned true went from read to write without a gap; `UpgradeCompletes`; `WriterPreference` in the second population |
| `queuing_mutex` | 3 threads that come back for ever | the nodes are the queue; exclusion; `NodesAlive`; first come, first served; no starvation |
| `rwlock` | 3 threads, all operations | exact count, no freed node written (`Bookkeeping`); the assertions, those of the destructor too (`CleanWhenIdle`); the refinement; writers get in |
| `concurrent_monitor` | 2 waiters, 2 notifiers | one post for each wait, contexts alive (`IInv`); no lost wakeup; the refinement; `ReadyReturns` |
| `task_deque` | an owner, 2 thieves, 3 tasks (one mailed), an array of 2 that is relocated and grown | `Bookkeeping`: `OnePlace` (each task is in exactly one place until it is taken), `ProxyState`, `NoPoison`, `DemandExact` and the inductive invariant; the assertions; each task is taken once; `TasksRun` |
| `bqueue` | capacity 1, 2 micro queues, pages of 2; 2 producers and a consumer, a producer and 2 consumers, blocking and trying calls together, or abort() beside an item that throws | the tickets of each side are in line, pages hold exactly what was pushed and not popped, invalid entries are counted (`IInv`); the assertions; `CapacityKept`; `SizeExact`; the refinement of `Exchange`; `CalmCallsReturn` |
| `market` | 1 or 2 arenas, 1 or 2 workers, tasks of one priority or of two, execute or not (`Cases` in MCMarket) | requests, lists, allotments and references agree (`IInv`); every assertion of market.cpp and of free_arena; with tasks of one priority, `EnqueuedRunOneLevel` and `MarketCloses` |
| `market_priority` | one arena, tasks of two priorities | a **finding** (below) |
| `private_server` | 2 workers, 1 master, 5 changes of demand | slack, list and sleepers agree until a worker is listed with a late notification (`IInv`); `ServerAlive`; `DemandMet`; `CloseCompletes` |
| `private_server_late` | the same instance | a **finding** |
| `filebuf` | a ring of 3 bytes, writes of 1, 2 and 4, at most 9 bytes | the ring holds exactly what the file lacks; the file is the stream; writes return; bytes arrive |
| `filebuf_close` | a ring of 2 bytes | a **finding** |

**Bounds.** Three threads are what a lock needs for its hard cases: a holder, one
that waits, one that arrives (or one more upgrade, or a reader behind a writer).
The threads loop for ever, so no bound limits the histories.  The monitor needs
two waiters (one chosen, one not) and two notifiers that cross each other; each of
the four calls occurs.  In the deque, three tasks make a deque that is empty, has
one disputed task, and has a skipped proxy with a task behind it; with an
array of two the third spawn relocates or grows it while a thief works, which the
real minimum of 64 entries would hide.  With two workers one is in the
middle of a steal while the other takes its snapshot.  `NumTasks` and `MaxBytes` are
the only bounds on counters there: the indices of the deque are reset when it runs
empty, and those of the ring wrap round, within the bound.  In `filebuf` nine
bytes go round a ring of three several times and one write of four replaces it.

In `bqueue`, `MaxTickets` = 3 pushes with two micro queues (8 in the code) and pages
of two: tickets 0 and 2 share a micro queue and a page, which is begun by one push,
filled by another and taken away by a pop, while ticket 1 goes its own way.
Capacity one makes a push wait for a pop.  `Populations` chooses who takes part,
because all of them together exceed TLC's reach.  In `private_server`, `Fanout` = 1
wakeup for each call (the code's `wakee[2]`) with two workers has the property of
2 with three or more: a chain is needed to wake all of them.  `MaxChanges` = 5 lets
demand rise to `MaxDemand` = 2, fall and rise again while workers are on their
way to sleep, and come back to zero, where the connection is closed.  In `market`, the five `Cases` are named in MCMarket; the bound on the
calls of a master lets it create an arena, enqueue twice, and call
execute, or create a second arena after it has left the first.  Memory of an arena is
used again, so that the epoch (`my_aba_epoch`) matters; a market is created once.

**Deadlock** is checked where threads can always go on.  `task_deque`, `bqueue`,
`market`, `private_server` stop when all work is done and the bounded
calls are used up, so there it is off; the liveness properties take its place.

**Fairness.** Weak fairness of the steps of a thread inside a component: the
operating system schedules every thread.  Weak fairness of release where a
property needs that critical sections end.  Nobody is obliged to ask for a lock, to
wait, to notify, to write, to spawn, to push, to enqueue or to close.  Strong
fairness stands where a thread competes for a mutex that is free again and again:
`update_mutex`, the lock on `task_pool`, `my_asleep_list_mutex` and
`my_arenas_list_mutex` (whose readers in `arena_in_need` cannot starve a writer: it is
a `spin_rw_mutex`, and `WriterPreference` says so); and for a file that takes at
least a byte in the end.  `TasksRun` assumes that the owner goes on taking
tasks from its own deque, as its loop in `local_wait_for_all` does, and nothing of
the workers but that they finish what they began.  The market's liveness has a
premise, `NoCollision`: two workers that choose one arena at the same moment
for ever can both be revoked for ever; the code retries and relies on chance.

### Findings

* `filebuf_close`: `close()` sets `should_run` and notifies without the mutex; the
  notification can fall between write_thread's test and its wait, and `join()`
  never returns.
* `private_server_late`: `thread_monitor::notify` raises the epoch and takes `in_wait` in
  two steps.  A worker that was popped from the list sees the new epoch, cancels its
  wait, goes round the loop, and puts itself on the list again; the late second
  step wakes it there.  It runs, and may insert itself again, while it is
  listed as asleep (T/private_server.cpp:151, and the invariant at 78).  A wakeup that
  takes such an entry wakes nobody, so that positive slack may then stay; the shutdown still
  completes.  The models include what comes after the step: `late` only marks it.
* `market_priority`: a task of higher priority is enqueued while a worker declares
  the arena empty.  The second `update_arena_priority` of `enqueue_task` (T/arena.cpp:535)
  comes before the worker's `adjust_demand`, which resets the arena to normal
  priority (T/market.cpp:408); the worker's recheck then asks for the higher level
  while nothing is requested, which `update_arena_priority` refuses (T/market.cpp:610),
  and only advertises.  From then on workers come, look at the normal stream, declare
  the arena empty and find the task again; of themselves they never
  execute it.  T/arena.h:76 promises "eventual execution".

### What else the models show of the code

These were met while modelling; the properties have a premise that excludes them.

* `unlock()` of `spin_rw_mutex` (H/spin_rw_mutex.h:206) takes the writer bit as saying that
  its caller writes.  While another thread is in `internal_upgrade` (T/spin_rw_mutex.cpp:103)
  the bit is set although readers hold the lock; a reader's `unlock()` then wipes the
  writer's bits and stays in the count.  `PopulationsAssumption`: no thread calls
  `unlock()` on a mutex on which others upgrade.
* `reader_writer_lock::try_lock` "does not block" (T/reader_writer_lock.cpp:116), but a try
  that fails with another writer linked behind it (149) makes that writer the next one
  itself and spins until all readers have left.
* A thief's tentative step of the head over an empty deque can make a snapshot miss the
  task that is spawned meanwhile (T/scheduler.cpp:976); the arena is declared empty and
  no worker comes.  T/arena.h:364 accepts missed wakeups of spawned work.  The owner
  still runs the task, and `TasksRun` says so.
* A pop of the bounded queue that passes over an invalid entry (an item that threw, a push
  that was aborted) takes a new ticket without a notification for the old one
  (T/concurrent_queue.cpp:439): a push may go on sleeping for a slot that is free, and the
  pop then spins for that push.  `CalmCallsReturn` therefore has the premise that
  nothing throws and nobody aborts; nothing else is excluded.
* A pop that is aborted gives back its ticket by `head_counter--` (427).  With two pops
  waiting, the remaining one keeps the larger ticket, which is then given out a second
  time, and an item is left that nobody takes.  The aborting population has one
  consumer, and the theorems assume as much (`LoneAborts`).  A ticket that is given back also unsettles the capacity for pushes that have passed the
  test: `CapacityKept` and the assertion at 400 hold until an abort.
  `abort()` (447) does not reach a thread that is between its first test and
  `prepare_wait`.
* `try_destroy_arena` looks only at levels between the market's bottom and top
  (T/market.cpp:194), but an arena without requests is at the normal level.  When it is left
  while only higher priorities are active elsewhere, it is not found, nobody
  looks again, and the market stays open: the "orphan" of T/arena.h:324.  `NoOrphan` and
  `MarketCloses` are about tasks of one priority.
* With tasks of low and normal priority, a worker that lingers can lower an arena that
  requests nothing (T/market.cpp:567 does so before it tests the requests); the next
  `adjust_demand` takes its level as new bottom and leaves a top level without requests,
  against `assert_market_valid` (464).  `Cases` uses priorities 1 and 2.
* Execute on an arena that requests nothing makes its requests negative; if its
  priority changes then, `update_arena_top_priority` subtracts a negative number
  from the level (T/market.cpp:562).  `Cases` does not combine execute and priorities.

## 4. Proofs

`tlapm` checks these for every value of the constants.  In each module the
argument is the same: an inductive invariant `IInv`, with one step for each
action; the safety properties follow from it, and so does the
refinement where one is proved: each action is matched with an abstract action or a
stutter.

* **SpinRWMutexProofs** (any finite set of threads, any populations that satisfy
  `PopulationsAssumption`): `Invariant`, `CountIsExact`, `PendingIsOwned`, `AssertionsHold`,
  `ExclusionHolds`, `Refinement`.  `DisciplineKept` carries the assumption over from
  the initial population to every state.  Exclusion is not inductive: one must know that
  the reader field is the number of counted threads (`CountExact`, by lemmas about
  the cardinality of a set to which one thread is added), that the writer bit
  stands for exactly one thread (`WriterBitExact`), which has waited for all
  readers but itself (`WriterAlone`), and that the copy a compare-and-swap
  compares was tested when it was taken (`SnapshotTested`).  A CAS that succeeds
  on an old copy is safe because it is equal to the present word.
* **QueuingMutexProofs** (any set of threads): `Invariant`, `Exclusive`,
  `NodesStayAlive`, `Refinement`.  The ghost `order` is the key: `OrderIsQueue` and
  `Linked` tie `q_tail` and the links to it, `HeadOwns` says that only its head may go.
* **ConcurrentMonitorProofs** (any sets of waiters and notifiers): `Invariant`,
  `NoWakeupIsLost`, `OnePostOnly`, `ContextsStayAlive`, `Refinement`.  `Bookkeeping` says
  where the list, the flags and the posts are in each part of the loop.  The
  refinement is also what `BoundedQueue` rests on.
* **ThreadedFileBufProofs** (any size of buffer and any lengths of writes):
  `Invariant`, `InOrder`, `Refinement`.  `RingHoldsRest` relates every byte of the ring
  to its position in the stream, `ChunkStays` says that the part being
  written without the mutex is not touched.

* **ReaderWriterLockProofs** (any finite set of threads, whichever of them read, write
  and try): `Invariant`, `BookkeepingInvariant`, `SourceAssertionsInvariant`,
  `CleanWhenIdleInvariant`, `Refinement`.  `WritersInLine` says that one writer is in charge
  and that the others are linked behind it, or are about to link themselves;
  `HeadExact` and `FlagsExact` derive `writer_head` and the two writer flags from the place of the
  writer in charge; `ReadersAnnounced` says who is about to lower RFLAG.  The
  readers are the difficult part: of a stack that has been popped, each reader wakes the
  next, while new readers already form another stack from the same
  nodes.  `Chains`, `Apart` and `Tops` say that these chains share no reader and that
  only the first reader of a chain can have been woken.  (An earlier version
  numbered the groups; among its states TLC found a group whose number was used
  again by a reader that had come back, so that it was not inductive.)  `CountExact`
  counts readers, and one more for each that has increased the count in advance for its
  successor.
* **PrivateServerProofs** (any finite sets of workers and masters, any demand): `LifeInvariant`,
  `ServerAliveInvariant`, `AccountsInvariant`, `AccountsFailFirst`, `ListedSleepUntilLate`, all of
  every behaviour of the code, without a hypothesis.  The accounts hold up to the step of
  the finding `private_server_late`, and `AccountsFailFirst` shows that it is the only way to
  lose them: a single late notification, delivered to a worker that has listed itself again,
  is what the protocol does not tolerate.  `LifeInv` holds the phases of the
  workers and of a caller of wake_some or of the shutdown, the flags of the thread_monitors,
  the handles, and `my_ref_count`.  For the accounts the slack and the list alone are
  not inductive.  `HeldSleep` and `SleeperHeld` add that a worker which has been taken
  from the list commits to its wait with a fresh epoch exactly until it is told, and
  that the epoch of one on its way to the list is not raised again, even if the rest of an earlier
  notification is still to come; `ClosePhase`
  adds that the shutdown passes the workers in order.
* **TaskDequeProofs** (any finite set of thieves, any number of tasks, any of them mailed to
  anyone, any `min_task_pool_size`): `Invariant`, `BookkeepingInvariant`,
  `SourceAssertionsInvariant`, `Refinement`.  `OnePlace` counts places and is not inductive.
  What is: `Ends` says how far the head and the tail are apart at each place in get_task and
  steal_task (either may be one step too far, while its thread has not yet looked
  at the other); `Filled` that all entries between `First` and `Last` are tasks, where these ends
  follow the thread that has moved an index tentatively; `EntriesDiffer` and `HandsDiffer`
  that no task is there twice; `NothingLost` that a task is in the deque or in somebody's hands
  exactly while its side of the proxy is open (`Left`); `Coming` that the tasks still with the
  spawning thread have not been taken, except through the mailbox.  An action that is not
  about the contents uses one lemma (`ContentsStay`), and each way in which they change
  has one of its own (`ContentsTaken`, `ContentsDealt`, `ContentsReceived`, `ContentsCommitted`, ...).

* **BoundedQueueProofs** (any finite set of consumers, any producers and aborters, any capacity,
  any number of micro queues, pages of any size): `Invariant`,
  `Refinement`, `SourceAssertionsInvariant`, `CapacityInvariant`, `SizeInvariant`.  The hypothesis
  `LoneAborts` says that where a thread aborts there are not two that pop; with two, the
  tickets are confused (section 3) and the invariant is false.  `IInv` begins with the
  arithmetic of tickets: that a ticket is given by its micro queue and its turn
  (`OneTicket`), every turn of a micro queue is that of a ticket, and two tickets
  of a micro queue share a slot of a page only if they are the same.  This needs that `phi` = 3 and `n_queue` = 8
  have no common divisor (T/concurrent_queue.cpp:138, 142), hence `NQueue % 3 # 0`.
  `PushesInLine` and `PopsInLine` then say for each side that a ticket of its counter
  has either one thread that holds it or a micro queue that has gone past it, from which
  follows that nobody waits for a turn that cannot come; `PagesReach` derives the length
  of each page list from the two counters (the one push that is inside a micro queue
  has brought its page but not yet moved the counter: `LastIn`).
  `head_counter` is bounded although pops run ahead of the pushes, because each
  ticket beyond the pushes has a consumer that holds it, and these differ.
  `InvalidCounted` counts the entries without an item that no pop has
  passed; `SizeExact` is what remains of it when nobody is inside.  `RoomSeen` and
  `ItemSeen` say what a thread knows that was chosen by a notification or has seen for
  itself that it may go on.  The rest (`WaitersOnly`, `GivenBackLast`) ties the waiting sets to
  the places of the threads.  These parts are `QueueInv`; the refinement also needs
  `HandsExact`, that what a pop has found is the item of its own ticket, whose push is over, and that
  only an aborted push is without an item.  `Refinement` has a lemma per action: most steps leave
  `Live` and the places of the tickets alone and are not seen (`PusherQuiet`, `PopperQuiet`); claiming
  a ticket is `Offer` (`Offered`: the pop that has the ticket of `tail_counter`, if there is one, is
  the first that waits) or `Take` (`Taken`); an abort or a failed copy is `Withdraw`
  (`Withdrawn`), and `PopGiveBack` is `GiveBack` because the ticket is then the last.  The page
  that a pop takes away has no item that is still wanted (`PopFinishRefines`).

Type correctness is a conjunct of each `IInv`.  The assumptions on constants are
the ASSUMEs of the modules: NULL values that are no thread, roles that are
subsets and where necessary disjoint, positive sizes, finite sets where something is counted.

Only model-checked are:

* the invariants of `Market`: its accounts are sums over the arenas of a level, and
  sums over sets are defined by recursion, which the provers cannot do induction on;
* every liveness property, because liveness and ENABLED are out of the proof system's reach.

## 5. Not modelled

PROJECT.json lists every part with the reason.  In short: TBB's containers, flow
graph, partitioners and start-up code; tbbmalloc (the size of another project);
device drivers and networking whose other end is not in the repository; and
numerical and graphics libraries without protocols.  The numerical and graphics
libraries are by far the largest part of the repository, so that the share of its lines
that a model of protocols can cover is small.  Within the modelled parts:

* weak memory; the wrap-around of the monitor's 32-bit epoch within a single wait;
* in the scheduler, deques of the workers themselves and the list inside a mailbox;
  tasks that are spawned and enqueued in one arena, offloaded tasks, and
  `my_skipped_fifo_priority`;
* in the market, a second market after the first has closed, and mandatory concurrency
  (T/arena.h:347: two threads that enqueue into an arena without workers at the same
  moment both pass the test and ask for two workers, of which one is withdrawn);
* in task_arena, the wait for the master slot;
* in the bounded queue, `set_capacity` while it is used (it wakes nobody), pages that
  cannot be allocated, copying, the wrap-around of tickets, and a pop whose assignment to the caller's
  item throws (T/concurrent_queue.cpp:256: it leaves without the notification at 442); an
  aborted push ends its wait before `abort_push`, where the code destroys the thread context
  after it, which no other thread can tell apart;
* in the server, the read and the write of `my_epoch` in `notify` are one step;
* xsputn's result (success is reported before the file is written, so that a full disk
  is never noticed by the writer), and writing to a file buffer that is not open.

## 6. Plan

Done: the lock family, the event count, the deque with the arena's pool state, the
bounded queue, the market with the lifetime of arenas, the server of workers, and the
file buffer.  Next, in this order:

1. Proofs: the references and the epochs of arenas in `Market`, which need no sums.
2. Composition: `Market` on `PrivateServer` (what `adjust_job_count_estimate` promises as an
   abstract specification); the waiting for a slot in `task_arena::execute` on `EventCount`.
3. If the state space allows: **QueuingRWMutex**, the list of a mailbox,
   `task_group_context`, the pipeline's ordering buffer, libvisensor's synchronizer.
